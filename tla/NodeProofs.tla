----------------------------- MODULE NodeProofs -----------------------------
(***************************************************************************)
(* Proofs about what the parser's nodes say, for every input: the kinds    *)
(* of a node's children, the types of names and the encoding of literals,  *)
(* and so what the printer may follow.                                     *)
(***************************************************************************)
EXTENDS Printer, TreeProofs

-----------------------------------------------------------------------------
(* The inductive invariant of what the nodes say, for any nodes ns, table  *)
(* of identifiers, call stack s and set p of the result pending.           *)

(* A name's node agrees with the table; one without a name was made of a   *)
(* zeroed entry and is no pointer.                                         *)
Named(table, nd) ==
  nd.kind = "IDENTIFIER" =>
    IF nd.name = NoName THEN ~nd.type.ptr
    ELSE /\ nd.name \in DOMAIN table
         /\ table[nd.name] = [name |-> nd.name, type |-> nd.type]

Encoded(nd) ==
  nd.kind = "LITERAL" =>
    /\ nd.type.value = "FLOAT" => nd.rep = "float"
    /\ nd.rep # "int" => "FLOAT" \in {nd.type.value, nd.ev.value}

Plain(table, nd) == /\ Named(table, nd) /\ Encoded(nd)
                    /\ nd.kind \in {"LITERAL", "BINARY"} => nd.name = NoName

(* An entry has its own name, or is what a use without a declaration made. *)
Tabled(table) == \A z \in DOMAIN table : table[z].name = z \/ table[z] = ZeroIdentifier

(* A literal a sum may fold evaluates to a float whenever its bits are.    *)
Foldable(nd) ==
  nd.kind = "LITERAL" =>
    /\ nd.type.value = "FLOAT" => nd.ev.value = "FLOAT"
    /\ nd.rep # "int" => nd.ev.value = "FLOAT"

Expr(ns, c) == c \in DOMAIN ns /\ ns[c].kind \in ExpressionKind
BlockAt(ns, c) == c \in DOMAIN ns /\ ns[c].kind = "BLOCK"
NameAt(ns, c) == c \in DOMAIN ns /\ ns[c].kind = "IDENTIFIER"
Operand(ns, c) == Expr(ns, c) /\ Foldable(ns[c])

(* What * and & may be applied to.                                         *)
Pointed(ns, nd) ==
  /\ nd.op = "DEREF" => NameAt(ns, nd.kids[1]) /\ ns[nd.kids[1]].type.ptr
  /\ nd.op = "GET_PTR" => \/ ns[nd.kids[1]].kind = "LITERAL"
                          \/ NameAt(ns, nd.kids[1]) /\ ~ns[nd.kids[1]].type.ptr

(* A node is done.                                                         *)
Whole(ns, nd) ==
  /\ nd.kind = "BINARY" =>
       /\ nd.op \in BinaryOp /\ Expr(ns, nd.kids[1]) /\ Expr(ns, nd.kids[2])
       /\ nd.op = "DECL" => NameAt(ns, nd.kids[1])
  /\ nd.kind = "UNARY" => nd.op \in UnaryOp /\ Expr(ns, nd.kids[1]) /\ Pointed(ns, nd)
  /\ nd.kind = "IF" => /\ BlockAt(ns, nd.kids[1]) /\ Expr(ns, nd.kids[3])
                       /\ nd.kids[2] # 0 => BlockAt(ns, nd.kids[2])
  /\ nd.kind = "FUNC" => BlockAt(ns, nd.kids[1])
  /\ nd.kind = "BLOCK" => \A k \in DOMAIN nd.kids : nd.kids[k] # 0
  /\ nd.kind \in {"FUNC"} \cup Aggregate => nd.name # NoName

(* How far a function has got with its node, ...                           *)
Begun(ns, at, nd) ==
  /\ at \in IfPoints => nd.kids[2] = 0
  /\ at \in {"IfThen", "IfElse"} => Expr(ns, nd.kids[3])
  /\ at = "IfElse" => BlockAt(ns, nd.kids[1])
  /\ at \in FuncPoints \cup AggPoints \cup {"Params"} => nd.name # NoName
  /\ at \in BlockPoints => \A k \in DOMAIN nd.kids : nd.kids[k] # 0
  /\ at \in {"DeclRhs", "AssignRhs"} => nd.op = "DECL" /\ NameAt(ns, nd.kids[1])
  /\ at \in {"CmpRhs", "TermRhs"} =>
       nd.op \in BinaryOp \ {"DECL"} /\ Expr(ns, nd.kids[1])
  /\ at = "DerefArg" => nd.op = "DEREF"
  /\ at = "RefArg" => nd.op = "GET_PTR" /\ ~nd.ev.ptr

(* ... and what else it holds.                                             *)
Half(ns, f) ==
  /\ f.at \notin Building => f.node = 0
  /\ f.at \in Building => Begun(ns, f.at, ns[f.node])
  /\ f.at \in {"LogicRhs", "FactorRhs", "TermLoop", "TermRhs"} =>
       f.op \in BinaryOp \ {"DECL"} /\ Operand(ns, f.left)

(* Which kind of node a function returns, which a call resumed by another  *)
(* must return, and what that says of the node.                            *)
Yields(at) ==
  CASE at \in {"Statement", "DefName", "Params", "ExprSemi"} \cup IfPoints
              \cup FuncPoints \cup AggPoints -> "stmt"
    [] at \in {"Block"} \cup BlockPoints -> "block"
    [] at \in {"Ref", "RefArg"} -> "ref"
    [] at = "Literal" -> "lit"
    [] OTHER -> "expr"

Expects(at) ==
  CASE at \in {"IfThen", "IfElse", "FuncBody"} -> "block"
    [] at = "BlockPush" -> "stmt"
    [] at = "DerefArg" -> "ref"
    [] at = "RefArg" -> "lit"
    [] OTHER -> "expr"

Fits(ns, class, c) ==
  /\ c \in DOMAIN ns
  /\ class = "block" => BlockAt(ns, c)
  /\ class \in {"expr", "ref", "lit"} => Operand(ns, c)
  /\ class \in {"ref", "lit"} /\ ns[c].ev.ptr =>
       ns[c].kind = "IDENTIFIER" /\ ns[c].type.ptr
  /\ class = "lit" => \/ ns[c].kind = "LITERAL"
                      \/ ns[c].kind = "IDENTIFIER" /\ ns[c].ev = ns[c].type

Within(c, d) == \/ c = d \/ d = "stmt"
                \/ c \in {"ref", "lit"} /\ d = "expr"
                \/ c = "lit" /\ d = "ref"

Chained(s) == \A i \in 1 .. Len(s) - 1 :
                /\ s[i + 1].at \in Resumptions
                /\ Within(Yields(s[i].at), Expects(s[i + 1].at))

DataOf(ns, table, s, q) ==
  /\ Tabled(table)
  /\ \A i \in DOMAIN ns : Plain(table, ns[i])
  /\ \A i \in DOMAIN ns : (\A j \in DOMAIN s : i # s[j].node) => Whole(ns, ns[i])
  /\ \A j \in DOMAIN s : Half(ns, s[j])
  /\ Chained(s)
  /\ \A c \in q : Fits(ns, IF s = <<>> THEN "stmt" ELSE Expects(s[1].at), c)

DataInv == DataOf(nodes, idents, stack, Pending)

-----------------------------------------------------------------------------
(* Nodes that stay what they are keep what was said of their parents and   *)
(* of the frames that hold them.                                           *)

Agree(ns, ms, S) == \A c \in S : c \in DOMAIN ns => c \in DOMAIN ms /\ ms[c] = ns[c]

LEMMA AgreeKinds ==
  ASSUME NEW ns, NEW ms, NEW S, Agree(ns, ms, S), NEW c \in S
  PROVE  /\ Expr(ns, c) => Expr(ms, c)
         /\ BlockAt(ns, c) => BlockAt(ms, c)
         /\ NameAt(ns, c) => NameAt(ms, c) /\ ms[c] = ns[c]
         /\ Operand(ns, c) => Operand(ms, c)
BY DEF Agree, Expr, BlockAt, NameAt, Operand

LEMMA AgreeFits ==
  ASSUME NEW ns, NEW ms, NEW S, Agree(ns, ms, S), NEW c \in S, NEW class, Fits(ns, class, c)
  PROVE  Fits(ms, class, c) /\ ms[c] = ns[c]
BY AgreeKinds DEF Agree, Fits

(* Where the children of a node stand.                                     *)
LEMMA Places ==
  ASSUME NEW nd \in Node, Sized(nd)
  PROVE  /\ nd.kind = "BINARY" => 1 \in DOMAIN nd.kids /\ 2 \in DOMAIN nd.kids
         /\ nd.kind \in {"UNARY", "FUNC"} => 1 \in DOMAIN nd.kids
         /\ nd.kind = "IF" => /\ 1 \in DOMAIN nd.kids /\ 2 \in DOMAIN nd.kids
                              /\ 3 \in DOMAIN nd.kids
<1>1. nd.kids \in Seq(Nat) BY DEF Node
<1>2. Len(nd.kids) \in Nat /\ DOMAIN nd.kids = 1 .. Len(nd.kids) BY <1>1, LenProperties
<1>3. /\ Len(FreshKids("BINARY")) = 2 /\ Len(FreshKids("UNARY")) = 1
      /\ Len(FreshKids("FUNC")) = 1 /\ Len(FreshKids("IF")) = 3
  BY DEF FreshKids
<1>4. nd.kind # "BLOCK" => Len(nd.kids) = Len(FreshKids(nd.kind)) BY DEF Sized
<1>5. nd.kind = "BINARY" => DOMAIN nd.kids = 1 .. 2 BY <1>2, <1>3, <1>4
<1>6. nd.kind \in {"UNARY", "FUNC"} => DOMAIN nd.kids = 1 .. 1 BY <1>2, <1>3, <1>4
<1>7. nd.kind = "IF" => DOMAIN nd.kids = 1 .. 3 BY <1>2, <1>3, <1>4
<1>8. /\ 1 \in 1 .. 2 /\ 2 \in 1 .. 2 /\ 1 \in 1 .. 1
      /\ 1 \in 1 .. 3 /\ 2 \in 1 .. 3 /\ 3 \in 1 .. 3
  OBVIOUS
<1> QED BY <1>5, <1>6, <1>7, <1>8, Zenon

LEMMA ChildAgrees ==
  ASSUME NEW ns, NEW ms, NEW nd, Agree(ns, ms, ChildSet(nd.kids)), NEW k \in DOMAIN nd.kids,
         0 \notin DOMAIN ns
  PROVE  /\ Expr(ns, nd.kids[k]) => Expr(ms, nd.kids[k])
         /\ BlockAt(ns, nd.kids[k]) => BlockAt(ms, nd.kids[k])
         /\ NameAt(ns, nd.kids[k]) =>
              NameAt(ms, nd.kids[k]) /\ ms[nd.kids[k]] = ns[nd.kids[k]]
         /\ Expr(ns, nd.kids[k]) => ms[nd.kids[k]] = ns[nd.kids[k]]
<1>1. CASE nd.kids[k] = 0 BY <1>1 DEF Expr, BlockAt, NameAt
<1>2. CASE nd.kids[k] # 0
  <2>1. nd.kids[k] \in ChildSet(nd.kids) BY <1>2 DEF ChildSet
  <2>2. PICK c \in ChildSet(nd.kids) : c = nd.kids[k] BY <2>1
  <2>3. Expr(ns, c) => ms[c] = ns[c] BY DEF Agree, Expr
  <2> QED BY <2>2, <2>3, AgreeKinds
<1> QED BY <1>1, <1>2

LEMMA WholeKept ==
  ASSUME NEW ns, NEW ms, NEW nd \in Node, Sized(nd), Agree(ns, ms, ChildSet(nd.kids)),
         0 \notin DOMAIN ns, Whole(ns, nd)
  PROVE  Whole(ms, nd)
<1>1. nd.kind \in NodeKind BY DEF Node
<1>2. CASE nd.kind = "BINARY" BY <1>2, Places, ChildAgrees DEF Whole, Aggregate
<1>3. CASE nd.kind = "UNARY"
  <2>1. 1 \in DOMAIN nd.kids BY <1>3, Places
  <2>2. Expr(ns, nd.kids[1]) /\ nd.op \in UnaryOp /\ Pointed(ns, nd) BY <1>3 DEF Whole
  <2>3. Expr(ms, nd.kids[1]) /\ ms[nd.kids[1]] = ns[nd.kids[1]] BY <2>1, <2>2, ChildAgrees
  <2>4. Pointed(ms, nd) BY <2>1, <2>2, <2>3, ChildAgrees DEF Pointed
  <2> QED BY <1>3, <2>2, <2>3, <2>4 DEF Whole, Aggregate
<1>4. CASE nd.kind = "IF" BY <1>4, Places, ChildAgrees DEF Whole, Aggregate
<1>5. CASE nd.kind = "FUNC" BY <1>5, Places, ChildAgrees DEF Whole, Aggregate
<1>6. CASE nd.kind \notin {"BINARY", "UNARY", "IF", "FUNC"} BY <1>6 DEF Whole
<1> QED BY <1>2, <1>3, <1>4, <1>5, <1>6

LEMMA BegunKept ==
  ASSUME NEW ns, NEW ms, NEW nd \in Node, Sized(nd), Agree(ns, ms, ChildSet(nd.kids)),
         0 \notin DOMAIN ns, NEW at \in Building, nd.kind \in KindsAt(at), Begun(ns, at, nd)
  PROVE  Begun(ms, at, nd)
<1>1. CASE at \in {"IfThen", "IfElse"}
  <2>1. nd.kind = "IF" BY <1>1, KindsTable DEF IfPoints
  <2> QED BY <1>1, <2>1, Places, ChildAgrees DEF Begun
<1>2. CASE at \in {"DeclRhs", "AssignRhs", "CmpRhs", "TermRhs"}
  <2>1. nd.kind = "BINARY" BY <1>2, KindsTable
  <2> QED BY <1>2, <2>1, Places, ChildAgrees DEF Begun
<1>3. CASE at \notin {"IfThen", "IfElse", "DeclRhs", "AssignRhs", "CmpRhs", "TermRhs"}
  BY <1>3 DEF Begun
<1> QED BY <1>1, <1>2, <1>3

LEMMA HalfKept ==
  ASSUME NEW ns \in Seq(Node), NEW ms, NEW f \in Frame, Agree(ns, ms, Grasp(ns, f)),
         \A i \in DOMAIN ns : Sized(ns[i]), Suits(ns, f), Half(ns, f)
  PROVE  Half(ms, f)
<1>1. 0 \notin DOMAIN ns BY LenProperties
<1>2. ASSUME f.at \in Building PROVE Begun(ms, f.at, ms[f.node])
  <2>1. f.node \in DOMAIN ns /\ ns[f.node].kind \in KindsAt(f.at) BY <1>2 DEF Suits
  <2>2. ns[f.node] \in Node BY <2>1, LenProperties, ElementOfSeq
  <2>3. f.node \in Grasp(ns, f) BY <1>1, <2>1 DEF Grasp
  <2>4. ms[f.node] = ns[f.node] BY <2>1, <2>3 DEF Agree
  <2>5. ChildSet(ns[f.node].kids) \subseteq Grasp(ns, f)
    BY <2>1, KidsAreChildren DEF Grasp, ChildSet
  <2>6. Agree(ns, ms, ChildSet(ns[f.node].kids)) BY <2>5 DEF Agree
  <2>7. Begun(ns, f.at, ns[f.node]) BY <1>2 DEF Half
  <2>8. Sized(ns[f.node]) BY <2>1
  <2> QED BY <1>1, <1>2, <2>1, <2>2, <2>4, <2>6, <2>7, <2>8, BegunKept
<1>3. Operand(ns, f.left) => Operand(ms, f.left)
  <2>1. f.left # 0 => f.left \in Grasp(ns, f) BY DEF Grasp
  <2>2. Operand(ns, f.left) => f.left # 0 BY <1>1 DEF Operand, Expr
  <2> QED BY <2>1, <2>2, AgreeKinds
<1> QED BY <1>2, <1>3 DEF Half

-----------------------------------------------------------------------------
(* The chain of callers: each waits for what the one it called returns.    *)

Linked(fs, class) == /\ Chained(fs) /\ Within(Yields(fs[Len(fs)].at), class)
                     /\ \A i \in 1 .. Len(fs) - 1 : fs[i].at # "TermLoop"

LEMMA WithinTrans ==
  ASSUME NEW c, NEW d, NEW e, Within(c, d), Within(d, e)
  PROVE  Within(c, e)
BY DEF Within

LEMMA FitsWithin ==
  ASSUME NEW ns, NEW c, NEW d, NEW i, Within(c, d), Fits(ns, c, i)
  PROVE  Fits(ns, d, i)
BY DEF Within, Fits

LEMMA ChainedCall ==
  ASSUME NEW s \in Seq(Frame), s # <<>>, Chained(s), NEW fs \in Seq(Frame), fs # <<>>,
         Linked(fs, Yields(Head(s).at))
  PROVE  Chained(fs \o Tail(s))
<1>1. /\ Tail(s) \in Seq(Frame) /\ Len(Tail(s)) = Len(s) - 1 /\ Head(s) = s[1]
      /\ \A k \in 1 .. Len(Tail(s)) : Tail(s)[k] = s[k + 1]
      /\ Len(s) \in Nat /\ Len(s) >= 1 /\ Len(fs) \in Nat /\ Len(fs) >= 1
  BY HeadTailProperties, LenProperties, EmptySeq
<1> DEFINE t == fs \o Tail(s)
<1>2. /\ Len(t) = Len(fs) + Len(Tail(s))
      /\ \A k \in 1 .. Len(fs) + Len(Tail(s)) :
           t[k] = IF k <= Len(fs) THEN fs[k] ELSE Tail(s)[k - Len(fs)]
  BY <1>1, ConcatProperties
<1> HIDE DEF t
<1>3. PICK n \in Nat, m \in Nat : n = Len(fs) /\ m = Len(s) /\ n >= 1 /\ m >= 1 BY <1>1
<1>4. /\ Len(t) = n + m - 1
      /\ \A k \in 1 .. n : t[k] = fs[k]
      /\ \A k \in n + 1 .. n + m - 1 : t[k] = s[k - n + 1]
  <2>1. Len(t) = n + m - 1 BY <1>1, <1>2, <1>3
  <2>2. ASSUME NEW k \in 1 .. n PROVE t[k] = fs[k] BY <1>1, <1>2, <1>3
  <2>3. ASSUME NEW k \in n + 1 .. n + m - 1 PROVE t[k] = s[k - n + 1]
    <3>1. k - n \in 1 .. Len(Tail(s)) /\ k \in 1 .. Len(fs) + Len(Tail(s)) /\ ~(k <= n)
      BY <1>1, <1>3
    <3> QED BY <1>1, <1>2, <1>3, <3>1
  <2> QED BY <2>1, <2>2, <2>3
<1>5. ASSUME NEW i \in 1 .. Len(t) - 1
      PROVE  t[i + 1].at \in Resumptions /\ Within(Yields(t[i].at), Expects(t[i + 1].at))
  <2>1. CASE i < n
    <3>1. i \in 1 .. Len(fs) - 1 /\ i \in 1 .. n /\ i + 1 \in 1 .. n BY <1>3, <2>1
    <3>2. t[i] = fs[i] /\ t[i + 1] = fs[i + 1] BY <1>4, <3>1
    <3> QED BY <3>1, <3>2 DEF Linked, Chained
  <2>2. CASE i = n
    <3>1. 1 \in 1 .. Len(s) - 1 /\ n \in 1 .. n /\ n + 1 \in n + 1 .. n + m - 1
      BY <1>3, <1>4, <2>2
    <3>2. t[i] = fs[n] /\ t[i + 1] = s[n + 1 - n + 1] BY <1>4, <2>2, <3>1
    <3>3. n + 1 - n + 1 = 2 BY <1>3
    <3>4. s[2].at \in Resumptions /\ Within(Yields(s[1].at), Expects(s[2].at))
      BY <3>1 DEF Chained
    <3>5. Within(Yields(fs[n].at), Yields(s[1].at)) BY <1>1, <1>3 DEF Linked
    <3> QED BY <3>2, <3>3, <3>4, <3>5, WithinTrans
  <2>3. CASE i > n
    <3>1. PICK j \in Nat : j = i + 1 BY <1>3, <1>4
    <3>5. i - n + 1 \in Nat
      <4>1. i \in Nat /\ n \in Nat /\ i > n BY <1>3, <1>4, <2>3
      <4> QED BY <4>1
    <3>2. PICK k \in Nat : k = i - n + 1 BY <3>5
    <3>3. /\ i \in n + 1 .. n + m - 1 /\ j \in n + 1 .. n + m - 1
          /\ k \in 1 .. Len(s) - 1 /\ j - n + 1 = k + 1
      BY <1>3, <1>4, <2>3, <3>1, <3>2
    <3>4. t[i] = s[k] /\ t[j] = s[k + 1] BY <1>4, <3>2, <3>3
    <3> QED BY <3>1, <3>3, <3>4 DEF Chained
  <2>4. i \in Nat BY <1>3, <1>4
  <2> QED BY <1>3, <2>1, <2>2, <2>3, <2>4
<1>6. Chained(t) BY <1>5 DEF Chained
<1> QED BY <1>6 DEF t

LEMMA ChainedReturn ==
  ASSUME NEW s \in Seq(Frame), s # <<>>, Chained(s)
  PROVE  /\ Chained(Tail(s))
         /\ Tail(s) # <<>> =>
              /\ Tail(s)[1].at \in Resumptions
              /\ Within(Yields(Head(s).at), Expects(Tail(s)[1].at))
<1>1. /\ Tail(s) \in Seq(Frame) /\ Len(Tail(s)) = Len(s) - 1 /\ Head(s) = s[1]
      /\ \A k \in 1 .. Len(Tail(s)) : Tail(s)[k] = s[k + 1]
      /\ Len(s) \in Nat
  BY HeadTailProperties, LenProperties
<1>2. ASSUME NEW i \in 1 .. Len(Tail(s)) - 1
      PROVE  /\ Tail(s)[i + 1].at \in Resumptions
             /\ Within(Yields(Tail(s)[i].at), Expects(Tail(s)[i + 1].at))
  <2>1. i \in 1 .. Len(Tail(s)) /\ i + 1 \in 1 .. Len(Tail(s)) /\ i + 1 \in 1 .. Len(s) - 1
    BY <1>1
  <2> QED BY <1>1, <2>1 DEF Chained
<1>3. ASSUME Tail(s) # <<>>
      PROVE  /\ Tail(s)[1].at \in Resumptions
             /\ Within(Yields(Head(s).at), Expects(Tail(s)[1].at))
  <2>1. Len(Tail(s)) # 0 BY <1>1, <1>3, EmptySeq
  <2>2. 1 \in 1 .. Len(Tail(s)) /\ 1 \in 1 .. Len(s) - 1 /\ 1 + 1 = 2 BY <1>1, <2>1
  <2> QED BY <1>1, <2>2 DEF Chained
<1> QED BY <1>2, <1>3 DEF Chained

LEMMA LinkedOne ==
  ASSUME NEW g \in Frame, NEW class, Within(Yields(g.at), class)
  PROVE  Linked(<<g>>, class)
<1>1. Len(<<g>>) = 1 /\ <<g>>[1] = g OBVIOUS
<1> QED BY <1>1 DEF Linked, Chained

LEMMA LinkedMore ==
  ASSUME NEW fs \in Seq(Frame), fs # <<>>, NEW g \in Frame, Linked(fs, Expects(g.at)),
         fs[Len(fs)].at # "TermLoop", g.at \in Resumptions,
         NEW class, Within(Yields(g.at), class)
  PROVE  /\ Linked(fs \o <<g>>, class)
         /\ (fs \o <<g>>)[Len(fs \o <<g>>)] = g /\ fs \o <<g>> \in Seq(Frame)
         /\ fs \o <<g>> # <<>>
<1>1. <<g>> \in Seq(Frame) /\ Len(<<g>>) = 1 /\ <<g>>[1] = g OBVIOUS
<1> DEFINE t == fs \o <<g>>
<1>2. PICK n \in Nat : n = Len(fs) /\ n >= 1 BY LenProperties, EmptySeq
<1>3. /\ Len(t) = n + 1 /\ t \in Seq(Frame)
      /\ \A k \in 1 .. n + 1 : t[k] = IF k <= n THEN fs[k] ELSE <<g>>[k - n]
  BY <1>1, <1>2, ConcatProperties
<1> HIDE DEF t
<1>4. t[n + 1] = g /\ \A k \in 1 .. n : t[k] = fs[k] BY <1>1, <1>2, <1>3
<1>5. ASSUME NEW i \in 1 .. Len(t) - 1
      PROVE  /\ t[i + 1].at \in Resumptions /\ Within(Yields(t[i].at), Expects(t[i + 1].at))
             /\ t[i].at # "TermLoop"
  <2>1. CASE i < n
    <3>1. i \in 1 .. Len(fs) - 1 /\ i \in 1 .. n /\ i + 1 \in 1 .. n BY <1>2, <1>3, <2>1
    <3> QED BY <1>4, <3>1 DEF Linked, Chained
  <2>2. CASE i = n
    <3>1. n \in 1 .. n BY <1>2
    <3>2. t[i] = fs[n] /\ t[i + 1] = g BY <1>4, <2>2, <3>1
    <3> QED BY <1>2, <3>2 DEF Linked
  <2>3. i \in Nat /\ i <= n BY <1>2, <1>3
  <2> QED BY <1>2, <2>1, <2>2, <2>3
<1>6. t[Len(t)] = g BY <1>3, <1>4
<1>7. Linked(t, class) BY <1>5, <1>6 DEF Linked, Chained
<1>8. t # <<>> BY <1>2, <1>3, EmptySeq
<1> QED BY <1>3, <1>6, <1>7, <1>8 DEF t

(* What each function returns and waits for.                               *)
LEMMA YieldsTable ==
  /\ \A at \in {"Statement", "DefName", "Params", "ExprSemi"} \cup IfPoints
               \cup FuncPoints \cup AggPoints : Yields(at) = "stmt"
  /\ \A at \in {"Block"} \cup BlockPoints : Yields(at) = "block"
  /\ \A at \in {"Ref", "RefArg"} : Yields(at) = "ref"
  /\ Yields("Literal") = "lit"
  /\ \A at \in {"Decl", "DeclType", "DeclEq", "DeclRhs", "Assignment", "AssignRhs",
                "LogicRest", "LogicRhs", "CmpRest", "CmpRhs", "TermFirst", "TermLoop",
                "TermRhs", "FactorRest", "FactorRhs", "Unary", "NegRhs", "NotRhs",
                "Deref", "DerefArg"} : Yields(at) = "expr"
BY DEF Yields, IfPoints, FuncPoints, AggPoints, BlockPoints

LEMMA ExpectsTable ==
  /\ \A at \in {"IfThen", "IfElse", "FuncBody"} : Expects(at) = "block"
  /\ Expects("BlockPush") = "stmt" /\ Expects("DerefArg") = "ref" /\ Expects("RefArg") = "lit"
  /\ \A at \in {"IfCond", "ExprSemi", "DeclRhs", "AssignRhs", "LogicRest", "LogicRhs",
                "CmpRest", "CmpRhs", "TermFirst", "TermRhs", "FactorRest", "FactorRhs",
                "NegRhs", "NotRhs"} : Expects(at) = "expr"
BY DEF Expects

LEMMA WithinClasses ==
  /\ \A class \in {"stmt", "block", "expr", "ref", "lit"} :
       Within(class, class) /\ Within(class, "stmt")
  /\ Within("ref", "expr") /\ Within("lit", "expr") /\ Within("lit", "ref")
BY DEF Within

(* The calls that hold nothing.                                            *)
BareLinked(fs, class) == /\ Bare(fs) /\ Linked(fs, class)
                         /\ fs[Len(fs)].at # "TermLoop"

LEMMA BareLinkedOne ==
  ASSUME NEW at \in {"Statement", "Block", "Decl", "Unary", "Deref", "Ref", "Literal",
                     "Assignment"},
         NEW class, Within(Yields(at), class)
  PROVE  BareLinked(<<Fr(at)>>, class)
<1>1. Fr(at) \in Frame /\ Blank(Fr(at)) /\ Fr(at).at = at /\ at \notin Resumptions
  BY BareFrame DEF Labels, Building, Resumptions
<1>2. Len(<<Fr(at)>>) = 1 /\ <<Fr(at)>>[1] = Fr(at) OBVIOUS
<1> QED BY <1>1, <1>2, BareOne, LinkedOne DEF BareLinked

LEMMA BareLinkedMore ==
  ASSUME NEW fs, NEW at \in {"FactorRest", "TermFirst", "CmpRest", "LogicRest", "ExprSemi"},
         BareLinked(fs, Expects(at)), NEW class, Within(Yields(at), class)
  PROVE  BareLinked(fs \o <<Fr(at)>>, class)
<1>1. Fr(at) \in Frame /\ Blank(Fr(at)) /\ Fr(at).at = at /\ at \in Resumptions
  BY BareFrame DEF Labels, Building, Resumptions
<1>2. fs \in Seq(Frame) /\ fs # <<>> BY DEF BareLinked, Bare
<1>3. Bare(fs \o <<Fr(at)>>) BY <1>1, BareMore DEF BareLinked
<1>4. /\ Linked(fs \o <<Fr(at)>>, class)
      /\ (fs \o <<Fr(at)>>)[Len(fs \o <<Fr(at)>>)] = Fr(at)
  BY <1>1, <1>2, LinkedMore DEF BareLinked
<1> QED BY <1>1, <1>3, <1>4 DEF BareLinked

LEMMA BareLinkedCalls ==
  /\ BareLinked(FactorCall, "expr") /\ BareLinked(TermCall, "expr")
  /\ BareLinked(CmpCall, "expr") /\ BareLinked(LogicCall, "expr")
  /\ BareLinked(<<Fr("Decl"), Fr("ExprSemi")>>, "stmt")
<1>1. /\ \A at \in {"FactorRest", "TermFirst", "CmpRest", "LogicRest"} :
           Within(Yields(at), "expr") /\ Expects(at) = "expr"
      /\ \A at \in {"Unary", "Assignment", "Decl"} : Within(Yields(at), "expr")
      /\ Within(Yields("ExprSemi"), "stmt") /\ Expects("ExprSemi") = "expr"
  BY YieldsTable, ExpectsTable, WithinClasses
<1>2. \A at \in {"Unary", "Assignment", "Decl"} : BareLinked(<<Fr(at)>>, "expr")
  BY <1>1, BareLinkedOne
<1>3. \A at \in {"Unary", "Assignment", "Decl"}, on \in {"FactorRest", "CmpRest", "ExprSemi"} :
        <<Fr(at), Fr(on)>> = <<Fr(at)>> \o <<Fr(on)>>
  <2>1. \A at \in {"Unary", "Assignment", "Decl", "FactorRest", "CmpRest", "ExprSemi"} :
          Fr(at) \in Frame
    BY BareFrame DEF Labels, Building, Resumptions
  <2> QED BY <2>1, PairIsConcat
<1>4. BareLinked(FactorCall, "expr") BY <1>1, <1>2, <1>3, BareLinkedMore DEF FactorCall
<1>5. BareLinked(TermCall, "expr") BY <1>1, <1>4, BareLinkedMore DEF TermCall
<1>6. BareLinked(CmpCall, "expr") BY <1>1, <1>2, <1>3, BareLinkedMore DEF CmpCall
<1>7. BareLinked(LogicCall, "expr") BY <1>1, <1>6, BareLinkedMore DEF LogicCall
<1>8. BareLinked(<<Fr("Decl"), Fr("ExprSemi")>>, "stmt")
  BY <1>1, <1>2, <1>3, BareLinkedMore
<1> QED BY <1>4, <1>5, <1>6, <1>7, <1>8

-----------------------------------------------------------------------------
(* One step: what it changes, and what every step keeps.                   *)

(* The nodes in changed get new values; new nodes and these say no more    *)
(* than they may.                                                          *)
Wrote(changed) ==
  /\ changed \subseteq Free /\ EntriesKept /\ Tabled(idents')
  /\ \A i \in DOMAIN nodes \ changed : nodes'[i] = nodes[i]
  /\ \A i \in changed \cup Fresh : Plain(idents', nodes'[i])

(* A node the running function lets go, or has changed or made, is done,   *)
(* but for the one it keeps.                                               *)
Done(changed, kept) ==
  \A i \in (changed \cup Fresh \cup {Top.node}) \ {kept} :
    i \in DOMAIN nodes' => Whole(nodes', nodes'[i])

LEMMA PlainKept ==
  ASSUME NEW nd, Plain(idents, nd), EntriesKept
  PROVE  Plain(idents', nd)
BY DEF Plain, Named, EntriesKept

LEMMA AllPlain ==
  ASSUME NEW label, Going(label), DataInv, NEW changed, Wrote(changed)
  PROVE  \A i \in DOMAIN nodes' : Plain(idents', nodes'[i])
<1>1. ASSUME NEW i \in DOMAIN nodes \ changed PROVE Plain(idents', nodes'[i])
  <2>1. Plain(idents, nodes[i]) /\ nodes'[i] = nodes[i] BY <1>1 DEF DataInv, DataOf, Wrote
  <2> QED BY <2>1, PlainKept DEF Wrote
<1> QED BY <1>1 DEF Wrote, Fresh

LEMMA AllWhole ==
  ASSUME NEW label, Going(label), DataInv, NEW changed, Wrote(changed), NEW kept,
         Done(changed, kept),
         NEW i \in DOMAIN nodes', i # kept, \A j \in DOMAIN stack : j # 1 => i # stack[j].node
  PROVE  Whole(nodes', nodes'[i])
<1>1. nodes \in Seq(Node) /\ nodes' \in Seq(Node) /\ stack \in Seq(Frame) /\ stack # <<>>
  BY DEF Going, IInv, TypeOK, Running
<1>2. Top = stack[1] BY <1>1, LenProperties, EmptySeq DEF Top
<1>3. CASE i \in changed \cup Fresh \cup {Top.node} BY <1>3 DEF Done
<1>4. CASE i \notin changed \cup Fresh \cup {Top.node}
  <2>1. i \in DOMAIN nodes /\ nodes'[i] = nodes[i] BY <1>4 DEF Fresh, Wrote
  <2>2. Whole(nodes, nodes[i])
    <3>1. \A j \in DOMAIN stack : i # stack[j].node BY <1>2, <1>4
    <3> QED BY <2>1, <3>1 DEF DataInv, DataOf
  <2>3. nodes[i] \in Node /\ Sized(nodes[i])
    BY <1>1, <2>1, LenProperties, ElementOfSeq DEF Going, TreeInv, TreeOf
  <2>4. Agree(nodes, nodes', ChildSet(nodes[i].kids))
    <3>1. ChildSet(nodes[i].kids) \subseteq DOMAIN nodes \ Loose(stack, Pending)
      BY <2>1, KidsAreChildren DEF Going, TreeInv, TreeOf, Orphans
    <3>2. changed \cap DOMAIN nodes \subseteq Loose(stack, Pending)
      <4>1. Free \cap DOMAIN nodes \subseteq Loose(stack, Pending)
        BY <1>1, Reached DEF Going, Free
      <4> QED BY <4>1 DEF Wrote
    <3>3. DOMAIN nodes \subseteq DOMAIN nodes' BY Around
    <3> QED BY <3>1, <3>2, <3>3 DEF Agree, Wrote
  <2>5. 0 \notin DOMAIN nodes BY <1>1, LenProperties
  <2> QED BY <2>1, <2>2, <2>3, <2>4, <2>5, WholeKept
<1> QED BY <1>3, <1>4

(* Below the running function nothing is changed.                          *)
LEMMA Beneath ==
  ASSUME NEW ns \in Seq(Node), NEW ms \in Seq(Node), Len(ns) <= Len(ms),
         NEW s \in Seq(Frame), s # <<>>, NEW p, Ordered(ns, s, p),
         NEW i \in DOMAIN s, i # 1
  PROVE  /\ Grasp(ns, s[i]) \subseteq DOMAIN ns
         /\ \A a \in Reach(ns, ms, s, p), c \in Grasp(ns, s[i]) : c < a
<1>1. Head(s) = s[1] /\ DOMAIN s = 1 .. Len(s) /\ Len(s) \in Nat /\ 1 \in DOMAIN s /\ 1 < i
  BY LenProperties, EmptySeq
<1>2. Grasp(ns, s[i]) \subseteq DOMAIN ns BY DEF Ordered
<1>3. ASSUME NEW a \in Reach(ns, ms, s, p), NEW c \in Grasp(ns, s[i]) PROVE c < a
  <2>1. CASE a \in Grasp(ns, s[1]) BY <1>1, <2>1 DEF Ordered
  <2>2. CASE a \in p BY <2>2 DEF Ordered
  <2>3. CASE a \in DOMAIN ms \ DOMAIN ns BY <1>2, <2>3, Indices
  <2> QED BY <1>1, <2>1, <2>2, <2>3 DEF Reach
<1> QED BY <1>2, <1>3

LEMMA LowerHalf ==
  ASSUME NEW label, Going(label), DataInv, NEW changed, Wrote(changed),
         NEW j \in DOMAIN stack, j # 1
  PROVE  Half(nodes', stack[j])
<1>1. nodes \in Seq(Node) /\ nodes' \in Seq(Node) /\ stack \in Seq(Frame) /\ stack # <<>>
      /\ Len(nodes) <= Len(nodes')
  BY DEF Going, IInv, TypeOK, Running
<1>2. /\ Ordered(nodes, stack, Pending) /\ \A i \in DOMAIN nodes : Sized(nodes[i])
      /\ Suits(nodes, stack[j])
  BY DEF Going, TreeInv, TreeOf
<1>3. /\ Grasp(nodes, stack[j]) \subseteq DOMAIN nodes
      /\ \A a \in Near, c \in Grasp(nodes, stack[j]) : c < a
  BY <1>1, <1>2, Beneath DEF Near
<1>4. Agree(nodes, nodes', Grasp(nodes, stack[j]))
  <2>1. changed \subseteq Near BY Around DEF Wrote
  <2>2. ASSUME NEW c \in Grasp(nodes, stack[j]), c \in changed PROVE FALSE
    <3>1. c < c BY <1>3, <2>1, <2>2
    <3>2. c \in Nat BY <1>1, <1>3, Indices
    <3> QED BY <3>1, <3>2
  <2>3. DOMAIN nodes \subseteq DOMAIN nodes' BY Around
  <2> QED BY <2>2, <2>3 DEF Agree, Wrote
<1>5. stack[j] \in Frame BY <1>1, LenProperties, ElementOfSeq
<1>6. Half(nodes, stack[j]) BY DEF DataInv, DataOf
<1> QED BY <1>1, <1>2, <1>4, <1>5, <1>6, HalfKept

LEMMA DataCalls ==
  ASSUME NEW label, Going(label), DataInv, NEW changed, Wrote(changed),
         NEW fs, NEW g, Closes(fs, g), Head(fs).at \notin Resumptions,
         Linked(fs, Yields(label)), Half(nodes', g), Done(changed, g.node), Call(fs)
  PROVE  DataInv'
<1>1. nodes \in Seq(Node) /\ stack \in Seq(Frame) /\ stack # <<>>
  BY DEF Going, IInv, TypeOK, Running
<1>2. stack' = fs \o Tail(stack) BY DEF Call
<1>3. /\ fs \in Seq(Frame) /\ fs # <<>> /\ Len(fs) \in Nat /\ Len(fs) >= 1
      /\ Head(stack) = Top /\ Top.at = label
  BY LenProperties, EmptySeq DEF Closes, Top, Going, Running
<1>4. Pending' = {}
  <2>1. Tail(stack) \in Seq(Frame) BY <1>1, HeadTailProperties
  <2>2. stack' # <<>> /\ Head(stack') = Head(fs)
    <3>1. Len(Tail(stack)) \in Nat BY <2>1, LenProperties
    <3>2. /\ Len(stack') = Len(fs) + Len(Tail(stack)) /\ stack' \in Seq(Frame)
          /\ \A i \in 1 .. Len(fs) + Len(Tail(stack)) :
               stack'[i] = IF i <= Len(fs) THEN fs[i] ELSE Tail(stack)[i - Len(fs)]
      BY <1>2, <1>3, <2>1, ConcatProperties
    <3>3. stack'[1] = fs[1] BY <1>3, <3>1, <3>2
    <3>4. stack' # <<>> BY <1>3, <3>1, <3>2, EmptySeq
    <3> QED BY <1>3, <3>2, <3>3, <3>4
  <2> QED BY <2>2 DEF Pending, Top
<1>5. Chained(stack') BY <1>1, <1>2, <1>3, ChainedCall DEF DataInv, DataOf
<1>6. ASSUME NEW j \in DOMAIN stack' PROVE Half(nodes', stack'[j])
  <2>1. \/ j \in 1 .. Len(fs) /\ j # Len(fs)
        \/ stack'[j] = g
        \/ \E i \in DOMAIN stack : i # 1 /\ stack'[j] = stack[i]
    <3>1. /\ Len(fs) \in Nat /\ j \in Nat
          /\ \/ j < Len(fs)
             \/ j = Len(fs) /\ stack'[j] = g
             \/ /\ j > Len(fs) /\ j - Len(fs) + 1 \in DOMAIN stack /\ j - Len(fs) + 1 # 1
                /\ stack'[j] = stack[j - Len(fs) + 1]
      <4>1. j \in DOMAIN (fs \o Tail(stack)) BY <1>2
      <4>2. /\ Len(fs) \in Nat /\ j \in Nat
            /\ \/ j < Len(fs) /\ Blank((fs \o Tail(stack))[j])
               \/ j = Len(fs) /\ (fs \o Tail(stack))[j] = g
               \/ /\ j > Len(fs) /\ j - Len(fs) + 1 \in DOMAIN stack
                  /\ j - Len(fs) + 1 # 1
                  /\ (fs \o Tail(stack))[j] = stack[j - Len(fs) + 1]
        BY <1>1, <4>1, Called
      <4> QED BY <1>2, <4>2
    <3>2. j # 0
      <4>1. stack' \in Seq(Frame) BY DEF Going, IInv, TypeOK
      <4> QED BY <4>1, LenProperties
    <3> QED BY <3>1, <3>2
  <2>2. ASSUME j \in 1 .. Len(fs), j # Len(fs) PROVE Half(nodes', stack'[j])
    <3>1. stack'[j] = fs[j]
      <4>1. Tail(stack) \in Seq(Frame) BY <1>1, HeadTailProperties
      <4>2. Len(Tail(stack)) \in Nat BY <4>1, LenProperties
      <4>3. \A i \in 1 .. Len(fs) + Len(Tail(stack)) :
              stack'[i] = IF i <= Len(fs) THEN fs[i] ELSE Tail(stack)[i - Len(fs)]
        BY <1>2, <1>3, <4>1, ConcatProperties
      <4> QED BY <1>3, <2>2, <4>2, <4>3
    <3>2. Blank(fs[j]) BY <2>2 DEF Closes
    <3>3. j \in 1 .. Len(fs) - 1 BY <1>3, <2>2
    <3>4. fs[j].at # "TermLoop" BY <3>3 DEF Linked
    <3> QED BY <3>1, <3>2, <3>4 DEF Blank, Half, Building
  <2>3. CASE stack'[j] = g BY <2>3
  <2>4. CASE \E i \in DOMAIN stack : i # 1 /\ stack'[j] = stack[i] BY <2>4, LowerHalf
  <2> QED BY <2>1, <2>2, <2>3, <2>4
<1>7. ASSUME NEW i \in DOMAIN nodes', \A j \in DOMAIN stack' : i # stack'[j].node
      PROVE  Whole(nodes', nodes'[i])
  <2>1. i # g.node
    <3>1. Stays(stack', stack, g) BY <1>1, <1>2, StillThere
    <3> QED BY <1>7, <3>1 DEF Stays
  <2>2. ASSUME NEW j \in DOMAIN stack, j # 1 PROVE i # stack[j].node
    <3>1. Stays(stack', stack, g) BY <1>1, <1>2, StillThere
    <3> QED BY <1>7, <2>2, <3>1 DEF Stays
  <2> QED BY <2>1, <2>2, AllWhole
<1>8. Tabled(idents') /\ \A i \in DOMAIN nodes' : Plain(idents', nodes'[i])
  BY AllPlain DEF Wrote
<1> QED BY <1>4, <1>5, <1>6, <1>7, <1>8 DEF DataInv, DataOf

LEMMA DataReturns ==
  ASSUME NEW label, Going(label), DataInv, NEW changed, Wrote(changed),
         NEW r, Fits(nodes', Yields(label), r), Done(changed, 0), Return(r)
  PROVE  DataInv'
<1>1. nodes \in Seq(Node) /\ stack \in Seq(Frame) /\ stack # <<>>
  BY DEF Going, IInv, TypeOK, Running
<1>2. stack' = Tail(stack) /\ ret' = r BY DEF Return
<1>3. Head(stack) = Top /\ Top.at = label BY DEF Top, Going, Running
<1>4. /\ Chained(stack')
      /\ stack' # <<>> => Within(Yields(label), Expects(stack'[1].at))
  BY <1>1, <1>2, <1>3, ChainedReturn DEF DataInv, DataOf
<1>5. ASSUME NEW c \in Pending'
      PROVE  Fits(nodes', IF stack' = <<>> THEN "stmt" ELSE Expects(stack'[1].at), c)
  <2>1. c = r BY <1>2 DEF Pending
  <2>2. Within(Yields(label), "stmt") BY DEF Within
  <2>3. Within(Yields(label), IF stack' = <<>> THEN "stmt" ELSE Expects(stack'[1].at))
    BY <1>4, <2>2
  <2> QED BY <2>1, <2>3, FitsWithin
<1>6. ASSUME NEW j \in DOMAIN stack' PROVE Half(nodes', stack'[j])
  <2>1. j + 1 \in DOMAIN stack /\ j + 1 # 1 /\ stack'[j] = stack[j + 1]
    BY <1>1, <1>2, Returned
  <2> QED BY <2>1, LowerHalf
<1>7. ASSUME NEW i \in DOMAIN nodes', \A j \in DOMAIN stack' : i # stack'[j].node
      PROVE  Whole(nodes', nodes'[i])
  <2>1. ASSUME NEW j \in DOMAIN stack, j # 1 PROVE i # stack[j].node
    <3>1. /\ Tail(stack) \in Seq(Frame) /\ Len(Tail(stack)) = Len(stack) - 1
          /\ \A k \in 1 .. Len(Tail(stack)) : Tail(stack)[k] = stack[k + 1]
          /\ Len(stack) \in Nat /\ j \in 1 .. Len(stack)
      BY <1>1, HeadTailProperties, LenProperties
    <3>2. PICK m \in Nat : m = j - 1 /\ m >= 1 /\ m + 1 = j /\ m <= Len(Tail(stack))
      BY <2>1, <3>1
    <3>3. m \in DOMAIN stack' /\ stack'[m] = stack[j] BY <1>2, <3>1, <3>2, LenProperties
    <3> QED BY <1>7, <3>3
  <2>2. i # 0 BY Around
  <2> QED BY <2>1, <2>2, AllWhole
<1>8. Tabled(idents') /\ \A i \in DOMAIN nodes' : Plain(idents', nodes'[i])
  BY AllPlain DEF Wrote
<1> QED BY <1>4, <1>5, <1>6, <1>7, <1>8 DEF DataInv, DataOf

(* What the running function finds.                                        *)
LEMMA Found ==
  ASSUME NEW label, Going(label), DataInv
  PROVE  /\ Half(nodes, Top) /\ Tabled(idents)
         /\ \A i \in DOMAIN nodes : Plain(idents, nodes[i]) /\ Sized(nodes[i]) /\ nodes[i] \in Node
         /\ label \in Building => Begun(nodes, label, Here) /\ Plain(idents, Here)
         /\ label \notin Building => Top.node = 0
         /\ label \in Resumptions => Fits(nodes, Expects(label), ret)
<1>1. nodes \in Seq(Node) /\ stack \in Seq(Frame) /\ stack # <<>>
  BY DEF Going, IInv, TypeOK, Running
<1>2. Top = stack[1] /\ 1 \in DOMAIN stack /\ Top.at = label
  BY <1>1, LenProperties, EmptySeq DEF Top, Going, Running
<1>3. Half(nodes, Top) /\ Tabled(idents) BY <1>2 DEF DataInv, DataOf
<1>4. \A i \in DOMAIN nodes : Plain(idents, nodes[i]) /\ Sized(nodes[i]) /\ nodes[i] \in Node
  BY <1>1, LenProperties, ElementOfSeq DEF DataInv, DataOf, Going, TreeInv, TreeOf
<1>5. ASSUME label \in Building PROVE Begun(nodes, label, Here) /\ Plain(idents, Here)
  BY <1>2, <1>3, <1>4, <1>5, Builds DEF Half, Here
<1>6. label \notin Building => Top.node = 0 BY <1>2, <1>3 DEF Half
<1>7. ASSUME label \in Resumptions PROVE Fits(nodes, Expects(label), ret)
  <2>1. ret \in Pending BY <1>2, <1>7 DEF Pending
  <2> QED BY <1>1, <1>2, <2>1 DEF DataInv, DataOf
<1> QED BY <1>3, <1>4, <1>5, <1>6, <1>7

(* The steps that change no node.                                          *)
LEMMA WroteNothing ==
  ASSUME NEW label, Going(label), DataInv, UNCHANGED <<nodes, idents>>
  PROVE  /\ Wrote({}) /\ Fresh = {}
         /\ \A n : n = Top.node \/ Top.node = 0 \/ Whole(nodes, Here) => Done({}, n)
<1>2. Fresh = {} BY DEF Fresh
<1>3. EntriesKept BY DEF EntriesKept
<1>4. Tabled(idents') BY Found
<1>5. Wrote({}) BY <1>2, <1>3, <1>4 DEF Wrote
<1>6. ASSUME NEW n, n = Top.node \/ Top.node = 0 \/ Whole(nodes, Here) PROVE Done({}, n)
  BY <1>2, <1>6, Around DEF Done, Here
<1> QED BY <1>2, <1>5, <1>6

(* The three kinds of calls, again.                                        *)
LEMMA DataBare ==
  ASSUME NEW label, Going(label), DataInv, NEW changed, Wrote(changed),
         NEW fs, BareLinked(fs, Yields(label)), Done(changed, 0), Call(fs)
  PROVE  DataInv'
<1>1. Bare(fs) /\ Linked(fs, Yields(label)) /\ fs[Len(fs)].at # "TermLoop"
  BY DEF BareLinked
<1>2. PICK g : Closes(fs, g) /\ Blank(g) BY <1>1, EndsBare
<1>3. g.at # "TermLoop" BY <1>1, <1>2 DEF Closes
<1>4. Half(nodes', g) /\ g.node = 0 BY <1>2, <1>3 DEF Blank, Half, Building
<1> QED BY <1>1, <1>2, <1>4, DataCalls DEF Bare

LEMMA DataOne ==
  ASSUME NEW label, Going(label), DataInv, NEW changed, Wrote(changed),
         NEW g \in Frame, g.at \notin Resumptions, Within(Yields(g.at), Yields(label)),
         Half(nodes', g), Done(changed, g.node), Call(<<g>>)
  PROVE  DataInv'
<1>1. Closes(<<g>>, g) /\ Head(<<g>>) = g /\ Linked(<<g>>, Yields(label))
  BY EndsOne, LinkedOne
<1> QED BY <1>1, DataCalls

LEMMA DataMore ==
  ASSUME NEW label, Going(label), DataInv, NEW changed, Wrote(changed),
         NEW fs, NEW g \in Frame, BareLinked(fs, Expects(g.at)), g.at \in Resumptions,
         Within(Yields(g.at), Yields(label)),
         Half(nodes', g), Done(changed, g.node), Call(fs \o <<g>>)
  PROVE  DataInv'
<1>1. Bare(fs) /\ Linked(fs, Expects(g.at)) /\ fs[Len(fs)].at # "TermLoop"
      /\ fs \in Seq(Frame) /\ fs # <<>> /\ Head(fs).at \notin Resumptions
  BY DEF BareLinked, Bare
<1>2. Closes(fs \o <<g>>, g) /\ Head(fs \o <<g>>) = Head(fs) BY <1>1, EndsMore
<1>3. Linked(fs \o <<g>>, Yields(label)) BY <1>1, LinkedMore
<1> QED BY <1>1, <1>2, <1>3, DataCalls

-----------------------------------------------------------------------------
(* The shapes of the steps, again.                                         *)

LEMMA NodeHalf ==
  ASSUME NEW ns, NEW at \in Building \ {"LogicRhs", "FactorRhs", "TermRhs"}, NEW n \in Nat,
         Begun(ns, at, ns[n])
  PROVE  /\ Half(ns, FrNode(at, n)) /\ FrNode(at, n) \in Frame
         /\ FrNode(at, n).at = at /\ FrNode(at, n).node = n
<1>1. /\ FrNode(at, n) \in Frame /\ FrNode(at, n).at = at /\ FrNode(at, n).node = n
  BY NodeInFrame
<1>2. at \notin {"LogicRhs", "FactorRhs", "TermLoop", "TermRhs"} BY DEF Building
<1> QED BY <1>1, <1>2 DEF Half

LEMMA HandOnData ==
  ASSUME IInv, IInv', TreeInv, DataInv, NEW label, label \notin Building, Running(label),
         UNCHANGED <<idents, status>>, NEW fs, BareLinked(fs, Yields(label)), HandOn(fs)
  PROVE  DataInv'
<1>1. UNCHANGED nodes /\ Call(fs) BY DEF HandOn
<1>2. Going(label) BY <1>1, GoesOnSame
<1>3. Top.node = 0 BY <1>2, Found
<1>4. Wrote({}) /\ Done({}, 0) BY <1>1, <1>2, <1>3, WroteNothing
<1> QED BY <1>1, <1>2, <1>4, DataBare

LEMMA HandBackData ==
  ASSUME IInv, IInv', TreeInv, DataInv, NEW label \in Resumptions, label \notin Building,
         Running(label), UNCHANGED <<idents, status>>, UNCHANGED nodes,
         Within(Expects(label), Yields(label)), Return(ret)
  PROVE  DataInv'
<1>2. Going(label) BY GoesOnSame
<1>3. Top.node = 0 /\ Fits(nodes, Expects(label), ret) BY <1>2, Found
<1>4. Wrote({}) /\ Done({}, 0) BY <1>2, <1>3, WroteNothing
<1>5. Fits(nodes', Yields(label), ret) BY <1>3, FitsWithin
<1> QED BY <1>2, <1>4, <1>5, DataReturns

LEMMA GotoData ==
  ASSUME IInv, IInv', TreeInv, DataInv, NEW label \in Building, Running(label),
         UNCHANGED <<idents, status>>, UNCHANGED nodes,
         NEW at \in Building \ Resumptions, Within(Yields(at), Yields(label)),
         Begun(nodes, at, Here), Goto(at)
  PROVE  DataInv'
<1>1. Going(label) BY GoesOnSame
<1>2. Wrote({}) /\ Done({}, Top.node) BY <1>1, WroteNothing
<1>3. at \in Building \ {"LogicRhs", "FactorRhs", "TermRhs"} BY DEF Resumptions
<1>4. Top.node \in Nat BY BuildingNode
<1>5. /\ Half(nodes', FrNode(at, Top.node)) /\ FrNode(at, Top.node) \in Frame
      /\ FrNode(at, Top.node).at = at /\ FrNode(at, Top.node).node = Top.node
  BY <1>3, <1>4, NodeHalf DEF Here
<1> QED BY <1>1, <1>2, <1>5, DataOne DEF Goto

LEMMA CallData ==
  ASSUME IInv, IInv', TreeInv, DataInv, NEW label \in Building, Running(label),
         UNCHANGED <<idents, status>>, UNCHANGED nodes,
         NEW at \in (Building \cap Resumptions) \ {"LogicRhs", "FactorRhs", "TermRhs"},
         Within(Yields(at), Yields(label)), Begun(nodes, at, Here),
         NEW fs, BareLinked(fs, Expects(at)), Call(fs \o <<FrNode(at, Top.node)>>)
  PROVE  DataInv'
<1>1. Going(label) BY GoesOnSame
<1>2. Wrote({}) /\ Done({}, Top.node) BY <1>1, WroteNothing
<1>4. Top.node \in Nat BY BuildingNode
<1>5. /\ Half(nodes', FrNode(at, Top.node)) /\ FrNode(at, Top.node) \in Frame
      /\ FrNode(at, Top.node).at = at /\ FrNode(at, Top.node).node = Top.node
  BY <1>4, NodeHalf DEF Here
<1> QED BY <1>1, <1>2, <1>5, DataMore

LEMMA ReturnData ==
  ASSUME IInv, IInv', TreeInv, DataInv, NEW label \in Building, Running(label),
         UNCHANGED <<idents, status>>, UNCHANGED nodes,
         Whole(nodes, Here), Fits(nodes, Yields(label), Top.node), Return(Top.node)
  PROVE  DataInv'
<1>1. Going(label) BY GoesOnSame
<1>2. Wrote({}) /\ Done({}, 0) BY <1>1, WroteNothing
<1> QED BY <1>1, <1>2, DataReturns

(* New nodes.                                                              *)
LEMMA AddsOne ==
  ASSUME IInv, IInv', TreeInv, DataInv, NEW label, label \notin Building, Running(label),
         UNCHANGED status, EntriesKept, Tabled(idents'),
         NEW nd \in Node, Plain(idents', nd), Add(<<nd>>)
  PROVE  /\ Going(label) /\ Wrote({}) /\ Done({}, New) /\ (Whole(nodes', nd) => Done({}, 0))
         /\ nodes'[New] = nd /\ New \in Nat /\ New \in DOMAIN nodes'
         /\ Agree(nodes, nodes', DOMAIN nodes) /\ Top.node = 0
<1>1. /\ Fresh = {New} /\ New \in DOMAIN nodes' /\ nodes'[New] = nd
      /\ \A i \in DOMAIN nodes : nodes'[i] = nodes[i]
      /\ Len(nodes) <= Len(nodes') /\ New \in Nat
  BY OneNew
<1>2. Going(label) BY <1>1, GoesOn
<1>3. Top.node = 0 /\ 0 \notin DOMAIN nodes' /\ DOMAIN nodes \subseteq DOMAIN nodes'
  BY <1>2, Found, Around
<1>4. Wrote({}) BY <1>1 DEF Wrote
<1>5. Done({}, New) /\ (Whole(nodes', nd) => Done({}, 0)) BY <1>1, <1>3 DEF Done
<1>6. Agree(nodes, nodes', DOMAIN nodes) BY <1>1, <1>3 DEF Agree
<1> QED BY <1>1, <1>2, <1>3, <1>4, <1>5, <1>6

LEMMA AddsTwo ==
  ASSUME IInv, IInv', TreeInv, DataInv, NEW label, label \notin Building, Running(label),
         UNCHANGED status, EntriesKept, Tabled(idents'),
         NEW nd \in Node, NEW md \in Node, Plain(idents', nd), Plain(idents', md),
         Add(<<nd, md>>), Whole(nodes', md)
  PROVE  /\ Going(label) /\ Wrote({}) /\ Done({}, New) /\ (Whole(nodes', nd) => Done({}, 0))
         /\ nodes'[New] = nd /\ New \in Nat /\ New \in DOMAIN nodes'
         /\ nodes'[New + 1] = md /\ New + 1 \in DOMAIN nodes' /\ Top.node = 0
<1>1. /\ Fresh = {New, New + 1} /\ New \in DOMAIN nodes' /\ New + 1 \in DOMAIN nodes'
      /\ nodes'[New] = nd /\ nodes'[New + 1] = md
      /\ \A i \in DOMAIN nodes : nodes'[i] = nodes[i]
      /\ Len(nodes) <= Len(nodes') /\ New \in Nat
  BY TwoNew
<1>2. Going(label) BY <1>1, GoesOn
<1>3. Top.node = 0 /\ 0 \notin DOMAIN nodes' BY <1>2, Found, Around
<1>4. Wrote({}) BY <1>1 DEF Wrote
<1>5. Done({}, New) /\ (Whole(nodes', nd) => Done({}, 0)) BY <1>1, <1>3 DEF Done
<1> QED BY <1>1, <1>2, <1>3, <1>4, <1>5

(* The node under construction is given a new value.                       *)
LEMMA UpdateData ==
  ASSUME IInv, IInv', TreeInv, DataInv, NEW label \in Building, Running(label),
         UNCHANGED <<idents, status>>, NEW nd \in Node, Plain(idents, nd), Update(nd)
  PROVE  /\ Going(label) /\ Wrote({Top.node}) /\ Done({Top.node}, Top.node)
         /\ Whole(nodes', nd) => Done({Top.node}, 0)
         /\ nodes'[Top.node] = nd /\ Top.node \in Nat /\ Top.node \in DOMAIN nodes'
         /\ Agree(nodes, nodes', ChildSet(Here.kids))
         /\ label \in Resumptions => Agree(nodes, nodes', {ret})
         /\ Agree(nodes, nodes', {Top.left})
         /\ 0 \notin DOMAIN nodes
<1>1. /\ nodes'[Top.node] = nd /\ Fresh = {} /\ Len(nodes) <= Len(nodes')
      /\ \A i \in DOMAIN nodes \ {Top.node} : nodes'[i] = nodes[i]
  BY Updates DEF Sets
<1>2. Going(label) BY <1>1, GoesOn
<1>3. /\ Top.node \in DOMAIN nodes /\ Top.node # 0 /\ Top.node \in Free
      /\ \A c \in KidsOf(nodes, Top.node) : c \in DOMAIN nodes /\ c # Top.node
  BY <1>2, Builds
<1>4. DOMAIN nodes \subseteq DOMAIN nodes' /\ 0 \notin DOMAIN nodes' /\ Top.node # Top.left
      /\ Top.node \in Nat /\ 0 \notin DOMAIN nodes
  BY <1>2, <1>3, Around
<1>5. EntriesKept BY DEF EntriesKept
<1>6. Tabled(idents') BY <1>2, Found
<1>7. Wrote({Top.node}) BY <1>1, <1>3, <1>5, <1>6 DEF Wrote
<1>8. Done({Top.node}, Top.node) /\ (Whole(nodes', nd) => Done({Top.node}, 0))
  BY <1>1, <1>4 DEF Done
<1>9. Agree(nodes, nodes', ChildSet(Here.kids))
  <2>1. ChildSet(Here.kids) = KidsOf(nodes, Top.node) BY <1>3, KidsAreChildren DEF Here
  <2> QED BY <1>1, <1>3, <1>4, <2>1 DEF Agree
<1>10. label \in Resumptions => Agree(nodes, nodes', {ret})
  <2>1. Top.node \in Grasp(nodes, Top) BY <1>3 DEF Grasp
  <2>2. label \in Resumptions => ret # Top.node BY <1>2, <2>1, Given
  <2> QED BY <1>1, <1>4, <2>2 DEF Agree
<1>11. Agree(nodes, nodes', {Top.left}) BY <1>1, <1>4 DEF Agree
<1> QED BY <1>1, <1>2, <1>3, <1>4, <1>7, <1>8, <1>9, <1>10, <1>11

-----------------------------------------------------------------------------
(* The actions, again.                                                     *)

(* A node under construction is no name and no literal.                    *)
LEMMA KindsBuilt ==
  /\ \A at \in Building : KindsAt(at) \cap {"IDENTIFIER", "LITERAL"} = {}
  /\ \A at \in {"DeclRhs", "AssignRhs", "CmpRhs", "LogicRhs", "FactorRhs", "TermRhs", "NegRhs"} :
       KindsAt(at) = {"BINARY"}
  /\ \A at \in {"NotRhs", "DerefArg", "RefArg"} : KindsAt(at) = {"UNARY"}
  /\ \A at \in IfPoints : KindsAt(at) = {"IF"}
  /\ \A at \in FuncPoints : KindsAt(at) = {"FUNC"}
  /\ \A at \in AggPoints : KindsAt(at) = Aggregate
  /\ \A at \in BlockPoints : KindsAt(at) = {"BLOCK"}
<1>1. \A at \in {"DeclRhs", "AssignRhs", "CmpRhs", "LogicRhs", "FactorRhs", "TermRhs", "NegRhs"} :
        KindsAt(at) = {"BINARY"}
  BY KindsTable
<1>2. \A at \in {"NotRhs", "DerefArg", "RefArg"} : KindsAt(at) = {"UNARY"}
  BY KindsTable
<1>3. \A at \in IfPoints : KindsAt(at) = {"IF"} BY KindsTable
<1>4. \A at \in FuncPoints : KindsAt(at) = {"FUNC"} BY KindsTable
<1>5. \A at \in AggPoints : KindsAt(at) = Aggregate BY KindsTable
<1>6. \A at \in BlockPoints : KindsAt(at) = {"BLOCK"} BY KindsTable
<1>7. \A at \in {"DefName", "Params"} : KindsAt(at) = {"FUNC"} \cup Aggregate BY KindsTable
<1>8. \A at \in Building :
        at \in {"DeclRhs", "AssignRhs", "CmpRhs", "LogicRhs", "FactorRhs", "TermRhs", "NegRhs",
                "NotRhs", "DerefArg", "RefArg", "DefName", "Params"}
               \cup IfPoints \cup FuncPoints \cup AggPoints \cup BlockPoints
  BY DEF Building, IfPoints, FuncPoints, AggPoints, BlockPoints
<1>9. ASSUME NEW at \in Building PROVE KindsAt(at) \cap {"IDENTIFIER", "LITERAL"} = {}
  BY <1>1, <1>2, <1>3, <1>4, <1>5, <1>6, <1>7, <1>8 DEF Aggregate
<1> QED BY <1>1, <1>2, <1>3, <1>4, <1>5, <1>6, <1>9

LEMMA PlainOther ==
  ASSUME NEW table, NEW nd, nd.kind \notin {"IDENTIFIER", "LITERAL"},
         nd.kind = "BINARY" => nd.name = NoName
  PROVE  Plain(table, nd)
BY DEF Plain, Named, Encoded

(* A node is made and its function goes on with it.                        *)
LEMMA BuildData ==
  ASSUME IInv, IInv', TreeInv, DataInv, NEW label, label \notin Building, Running(label),
         UNCHANGED <<idents, status>>, NEW nd \in Node, nd.kind \notin {"IDENTIFIER", "LITERAL"},
         nd.kind = "BINARY" => nd.name = NoName, Add(<<nd>>),
         NEW at \in Building \ {"LogicRhs", "FactorRhs", "TermRhs"}, Begun(nodes', at, nd)
  PROVE  /\ Going(label) /\ Wrote({}) /\ Done({}, New)
         /\ Half(nodes', FrNode(at, New)) /\ FrNode(at, New) \in Frame
         /\ FrNode(at, New).at = at /\ FrNode(at, New).node = New
<1>1. EntriesKept BY DEF EntriesKept
<1>2. Plain(idents', nd) BY PlainOther
<1>3. Tabled(idents') BY DEF DataInv, DataOf
<1>4. /\ Going(label) /\ Wrote({}) /\ Done({}, New) /\ nodes'[New] = nd /\ New \in Nat
  BY <1>1, <1>2, <1>3, AddsOne
<1> QED BY <1>4, NodeHalf

LEMMA NewNodeBegun ==
  ASSUME NEW ns, NEW kind
  PROVE  /\ NewNode(kind).name = NoName /\ NewNode(kind).kind = kind
         /\ kind = "IF" => Begun(ns, "IfOpen", NewNode(kind))
         /\ Begun(ns, "DefName", NewNode(kind))
         /\ kind = "BLOCK" => Begun(ns, "BlockLoop", NewNode(kind))
         /\ Begun(ns, "NotRhs", NewNode(kind))
<1>1. NewNode(kind).name = NoName /\ NewNode(kind).kind = kind
      /\ NewNode(kind).kids = FreshKids(kind)
  BY DEF NewNode
<1>2. kind = "IF" => NewNode(kind).kids = <<0, 0, 0>> BY <1>1 DEF FreshKids
<1>3. kind = "BLOCK" => DOMAIN NewNode(kind).kids = {} BY <1>1 DEF FreshKids
<1>4. <<0, 0, 0>>[2] = 0 OBVIOUS
<1>5. kind = "IF" => Begun(ns, "IfOpen", NewNode(kind))
  BY <1>2, <1>4 DEF Begun, FuncPoints, AggPoints, BlockPoints
<1>6. Begun(ns, "DefName", NewNode(kind)) /\ Begun(ns, "NotRhs", NewNode(kind))
  BY DEF Begun, IfPoints, FuncPoints, AggPoints, BlockPoints
<1>7. kind = "BLOCK" => Begun(ns, "BlockLoop", NewNode(kind))
  BY <1>3 DEF Begun, IfPoints, FuncPoints, AggPoints, BlockPoints
<1> QED BY <1>1, <1>5, <1>6, <1>7

LEMMA StatementData ==
  ASSUME IInv, IInv', TreeInv, DataInv, Statement
  PROVE  DataInv'
<1>1. /\ Running("Statement") /\ UNCHANGED <<idents, status>> /\ "Statement" \notin Building
  BY DEF Statement, Reads, Sees, Building
<1>2. Yields("Statement") = "stmt" /\ \A class : Within(class, "stmt")
  BY YieldsTable DEF Within
<1>3. CASE HandOn(<<Fr("Block")>>) BY <1>1, <1>2, <1>3, BareLinkedOne, HandOnData
<1>4. CASE Call(<<FrNode("IfOpen", New)>>) /\ Add(<<NewNode("IF")>>)
  <2>1. /\ "IfOpen" \in Building \ {"LogicRhs", "FactorRhs", "TermRhs"}
        /\ "IfOpen" \notin Resumptions /\ "IF" \in NodeKind
    BY DEF Building, Resumptions, NodeKind, StatementKind
  <2>2. NewNode("IF") \in Node BY <2>1, NewNodeFields
  <2>3. /\ NewNode("IF").kind = "IF" /\ Begun(nodes', "IfOpen", NewNode("IF"))
    BY NewNodeBegun
  <2>4. /\ Going("Statement") /\ Wrote({}) /\ Done({}, New)
        /\ Half(nodes', FrNode("IfOpen", New)) /\ FrNode("IfOpen", New) \in Frame
        /\ FrNode("IfOpen", New).at = "IfOpen" /\ FrNode("IfOpen", New).node = New
    BY <1>1, <1>4, <2>1, <2>2, <2>3, BuildData
  <2> QED BY <1>2, <1>4, <2>1, <2>4, DataOne
<1>5. CASE /\ Kind(At) \in DefinitionTokens /\ Call(<<FrNode("DefName", New)>>)
           /\ Add(<<NewNode(KindOfKeyword[Kind(At)])>>)
  <2>1. KindOfKeyword[Kind(At)] \in {"FUNC", "STRUCT", "UNION", "ENUM"}
    BY <1>5 DEF DefinitionTokens, KindOfKeyword
  <2>2. PICK kind \in {"FUNC", "STRUCT", "UNION", "ENUM"} : kind = KindOfKeyword[Kind(At)]
    BY <2>1
  <2>3. /\ "DefName" \in Building \ {"LogicRhs", "FactorRhs", "TermRhs"}
        /\ "DefName" \notin Resumptions /\ kind \in NodeKind
    BY DEF Building, Resumptions, NodeKind, StatementKind
  <2>4. Add(<<NewNode(kind)>>) /\ NewNode(kind) \in Node BY <1>5, <2>2, <2>3, NewNodeFields
  <2>5. NewNode(kind).kind = kind /\ Begun(nodes', "DefName", NewNode(kind)) BY NewNodeBegun
  <2>6. /\ Going("Statement") /\ Wrote({}) /\ Done({}, New)
        /\ Half(nodes', FrNode("DefName", New)) /\ FrNode("DefName", New) \in Frame
        /\ FrNode("DefName", New).at = "DefName" /\ FrNode("DefName", New).node = New
    BY <1>1, <2>3, <2>4, <2>5, BuildData
  <2> QED BY <1>2, <1>5, <2>3, <2>6, DataOne
<1>6. CASE HandOn(<<Fr("Decl"), Fr("ExprSemi")>>)
  BY <1>1, <1>2, <1>6, BareLinkedCalls, HandOnData
<1> QED BY <1>3, <1>4, <1>5, <1>6 DEF Statement

(* The result becomes the k-th child of the node.                          *)
LEMMA KidGiven ==
  ASSUME IInv, IInv', TreeInv, DataInv, NEW label \in Building \cap Resumptions, Running(label),
         UNCHANGED <<idents, status>>, NEW k \in DOMAIN Here.kids,
         NEW nd \in Node, nd.kids = WithKid(Here, k, ret).kids, nd.kind = Here.kind,
         nd.name = Here.name, Update(nd)
  PROVE  /\ Going(label) /\ Wrote({Top.node}) /\ Done({Top.node}, Top.node)
         /\ Whole(nodes', nd) => Done({Top.node}, 0)
         /\ nodes'[Top.node] = nd /\ Top.node \in Nat /\ Top.node \in DOMAIN nodes'
         /\ nd.kids[k] = ret /\ Fits(nodes', Expects(label), ret) /\ nodes'[ret] = nodes[ret]
         /\ \A l \in DOMAIN Here.kids \ {k} :
              /\ nd.kids[l] = Here.kids[l]
              /\ Expr(nodes, Here.kids[l]) => Expr(nodes', Here.kids[l])
              /\ BlockAt(nodes, Here.kids[l]) => BlockAt(nodes', Here.kids[l])
              /\ NameAt(nodes, Here.kids[l]) => NameAt(nodes', Here.kids[l])
<1>1. Going(label)
  <2>1. Len(nodes) <= Len(nodes') BY Updates
  <2> QED BY <2>1, GoesOn
<1>2. /\ Here.kind \in KindsAt(label) /\ Here \in Node BY <1>1, Builds
<1>3. Plain(idents, Here) /\ Fits(nodes, Expects(label), ret) BY <1>1, Found
<1>4. Plain(idents, nd)
  <2>1. Here.kind \notin {"IDENTIFIER", "LITERAL"} BY <1>2, KindsBuilt
  <2>2. Here.kind = "BINARY" => Here.name = NoName BY <1>3 DEF Plain
  <2> QED BY <2>1, <2>2, PlainOther
<1>5. /\ Wrote({Top.node}) /\ Done({Top.node}, Top.node)
      /\ Whole(nodes', nd) => Done({Top.node}, 0)
      /\ nodes'[Top.node] = nd /\ Top.node \in Nat /\ Top.node \in DOMAIN nodes'
      /\ Agree(nodes, nodes', ChildSet(Here.kids)) /\ Agree(nodes, nodes', {ret})
      /\ 0 \notin DOMAIN nodes
  BY <1>4, UpdateData
<1>6. ret \in {ret} OBVIOUS
<1>7. Fits(nodes', Expects(label), ret) /\ nodes'[ret] = nodes[ret]
  BY <1>3, <1>5, <1>6, AgreeFits
<1>8. nd.kids = [Here.kids EXCEPT ![k] = ret] BY <1>2 DEF WithKid, Node
<1>9. nd.kids[k] = ret /\ \A l \in DOMAIN Here.kids \ {k} : nd.kids[l] = Here.kids[l] BY <1>8
<1>10. ASSUME NEW l \in DOMAIN Here.kids \ {k}
       PROVE  /\ Expr(nodes, Here.kids[l]) => Expr(nodes', Here.kids[l])
              /\ BlockAt(nodes, Here.kids[l]) => BlockAt(nodes', Here.kids[l])
              /\ NameAt(nodes, Here.kids[l]) => NameAt(nodes', Here.kids[l])
  <2>1. PICK h : h = Here OBVIOUS
  <2>2. l \in DOMAIN h.kids /\ Agree(nodes, nodes', ChildSet(h.kids)) BY <1>5, <2>1
  <2> QED BY <1>5, <2>1, <2>2, ChildAgrees
<1> QED BY <1>1, <1>5, <1>7, <1>9, <1>10

(* What a finished node of each kind is good for.                          *)
LEMMA DoneFits ==
  ASSUME NEW ns, NEW i \in DOMAIN ns
  PROVE  /\ Fits(ns, "stmt", i)
         /\ ns[i].kind = "BLOCK" => Fits(ns, "block", i)
         /\ ns[i].kind \in {"BINARY", "UNARY"} => Fits(ns, "expr", i)
         /\ ns[i].kind = "UNARY" /\ ~ns[i].ev.ptr => Fits(ns, "ref", i)
BY DEF Fits, BlockAt, Operand, Expr, Foldable, ExpressionKind

(* The node, with its child, is returned.                                  *)
LEMMA ReturnsKid ==
  ASSUME IInv, IInv', TreeInv, DataInv, NEW label \in Building \cap Resumptions, Running(label),
         UNCHANGED <<idents, status>>, NEW k \in DOMAIN Here.kids,
         NEW nd \in Node, nd.kids = WithKid(Here, k, ret).kids, nd.kind = Here.kind,
         nd.name = Here.name, Update(nd), Return(Top.node),
         Whole(nodes', nd), Fits(nodes', Yields(label), Top.node)
  PROVE  DataInv'
<1>1. /\ Going(label) /\ Wrote({Top.node}) /\ Done({Top.node}, 0)
  BY KidGiven
<1> QED BY <1>1, DataReturns

(* Its function goes on with it.                                           *)
LEMMA KeepsKid ==
  ASSUME IInv, IInv', TreeInv, DataInv, NEW label \in Building \cap Resumptions, Running(label),
         UNCHANGED <<idents, status>>, NEW k \in DOMAIN Here.kids,
         NEW nd \in Node, nd.kids = WithKid(Here, k, ret).kids, nd.kind = Here.kind,
         nd.name = Here.name, Update(nd),
         NEW at \in (Building \cap Resumptions) \ {"LogicRhs", "FactorRhs", "TermRhs"},
         Within(Yields(at), Yields(label)), Begun(nodes', at, nd),
         NEW fs, BareLinked(fs, Expects(at)), Call(fs \o <<FrNode(at, Top.node)>>)
  PROVE  DataInv'
<1>1. /\ Going(label) /\ Wrote({Top.node}) /\ Done({Top.node}, Top.node)
      /\ nodes'[Top.node] = nd /\ Top.node \in Nat
  BY KidGiven
<1>2. /\ Half(nodes', FrNode(at, Top.node)) /\ FrNode(at, Top.node) \in Frame
      /\ FrNode(at, Top.node).at = at /\ FrNode(at, Top.node).node = Top.node
  BY <1>1, NodeHalf
<1> QED BY <1>1, <1>2, DataMore

LEMMA IfData ==
  ASSUME IInv, IInv', TreeInv, DataInv, IfOpen \/ IfCond \/ IfThen \/ IfElse
  PROVE  DataInv'
<1>1. /\ {"IfOpen", "IfCond", "IfThen", "IfElse"} \subseteq Building \ {"LogicRhs", "FactorRhs", "TermRhs"}
      /\ {"IfCond", "IfThen", "IfElse"} \subseteq Resumptions
      /\ {"IfOpen", "IfCond", "IfThen", "IfElse"} = IfPoints
  BY DEF Building, Resumptions, IfPoints
<1>2. /\ \A at \in IfPoints : Yields(at) = "stmt" /\ KindsAt(at) = {"IF"}
      /\ \A class : Within(class, "stmt")
      /\ Expects("IfCond") = "expr" /\ Expects("IfThen") = "block" /\ Expects("IfElse") = "block"
      /\ Within(Yields("Decl"), "expr") /\ Within(Yields("Block"), "block")
  BY YieldsTable, ExpectsTable, KindsBuilt DEF Within
<1>3. ASSUME NEW label \in IfPoints, Going(label)
      PROVE  /\ Here.kind = "IF" /\ Here \in Node /\ Begun(nodes, label, Here)
             /\ 1 \in DOMAIN Here.kids /\ 2 \in DOMAIN Here.kids /\ 3 \in DOMAIN Here.kids
             /\ Here.kids[2] = 0
             /\ WithKid(Here, 1, ret) \in Node /\ WithKid(Here, 2, ret) \in Node
             /\ WithKid(Here, 3, ret) \in Node
             /\ \A k : /\ WithKid(Here, k, ret).kind = "IF"
                       /\ WithKid(Here, k, ret).name = Here.name
  <2>1. Here.kind = "IF" /\ Here \in Node /\ Sized(Here) BY <1>1, <1>2, <1>3, Builds
  <2>2. Begun(nodes, label, Here) BY <1>1, <1>3, Found
  <2>3. 1 \in DOMAIN Here.kids /\ 2 \in DOMAIN Here.kids /\ 3 \in DOMAIN Here.kids
    BY <2>1, Places
  <2>4. Here.kids[2] = 0 BY <2>2 DEF Begun
  <2>5. ret \in Nat BY <1>3 DEF Going, IInv, TypeOK
  <2>6. \A k : /\ WithKid(Here, k, ret) \in Node /\ WithKid(Here, k, ret).kind = "IF"
               /\ WithKid(Here, k, ret).name = Here.name
    <3>1. \A k : WithKid(Here, k, ret) \in Node /\ WithKid(Here, k, ret).kind = "IF"
      BY <2>1, <2>5, WithKidFields
    <3>2. \A k : WithKid(Here, k, ret).name = Here.name BY <2>1 DEF WithKid, Node
    <3> QED BY <3>1, <3>2
  <2> QED BY <2>1, <2>2, <2>3, <2>4, <2>6
<1>4. CASE IfOpen
  <2>1. /\ Running("IfOpen") /\ UNCHANGED <<idents, status>> /\ UNCHANGED nodes
        /\ Call(<<Fr("Decl"), FrNode("IfCond", Top.node)>>)
    BY <1>4 DEF IfOpen, Reads, Sees
  <2>2. Going("IfOpen") BY <2>1, GoesOnSame
  <2>3. Begun(nodes, "IfCond", Here)
    <3>1. Here.kids[2] = 0 BY <1>1, <1>3, <2>2
    <3> QED BY <3>1 DEF Begun, FuncPoints, AggPoints, BlockPoints
  <2>4. Call(<<Fr("Decl")>> \o <<FrNode("IfCond", Top.node)>>)
    <3>1. Top.node \in Nat BY <1>1, <2>1, BuildingNode
    <3>2. FrNode("IfCond", Top.node) \in Frame BY <1>1, <3>1, NodeInFrame
    <3> QED BY <2>1, <3>2, PairCall
  <2>5. BareLinked(<<Fr("Decl")>>, Expects("IfCond")) BY <1>2, BareLinkedOne
  <2>6. Within(Yields("IfCond"), Yields("IfOpen")) BY <1>1, <1>2
  <2> QED BY <1>1, <2>1, <2>3, <2>4, <2>5, <2>6, CallData
<1>5. ASSUME NEW at \in {"IfThen", "IfElse"}, NEW label \in Building, Running(label),
             Call(<<Fr("Block"), FrNode(at, Top.node)>>)
      PROVE  /\ Call(<<Fr("Block")>> \o <<FrNode(at, Top.node)>>)
             /\ BareLinked(<<Fr("Block")>>, Expects(at))
  <2>1. Top.node \in Nat BY <1>5, BuildingNode
  <2>2. FrNode(at, Top.node) \in Frame BY <1>1, <2>1, NodeInFrame
  <2> QED BY <1>2, <1>5, <2>2, PairCall, BareLinkedOne
<1>6. CASE IfCond
  <2> DEFINE nd == WithKid(Here, 3, ret)
  <2>1. /\ Running("IfCond") /\ UNCHANGED <<idents, status>>
        /\ Update(nd) /\ Call(<<Fr("Block"), FrNode("IfThen", Top.node)>>)
    BY <1>6 DEF IfCond, Reads, Sees
  <2>2. Going("IfCond")
    <3>1. Here \in Node /\ ret \in Nat BY <1>1, <2>1, BuildingNode DEF IInv, TypeOK
    <3>2. Len(nodes) <= Len(nodes') BY <1>1, <2>1, <3>1, WithKidFields, Updates
    <3> QED BY <2>1, <3>2, GoesOn
  <2>3. /\ Here.kind = "IF" /\ 2 \in DOMAIN Here.kids /\ 3 \in DOMAIN Here.kids
        /\ Here.kids[2] = 0 /\ nd \in Node /\ nd.kind = Here.kind /\ nd.name = Here.name
    BY <1>1, <1>3, <2>2
  <2>4. /\ nd.kids[3] = ret /\ Fits(nodes', Expects("IfCond"), ret)
        /\ \A l \in DOMAIN Here.kids \ {3} : nd.kids[l] = Here.kids[l]
    BY <1>1, <2>1, <2>3, KidGiven
  <2> HIDE DEF nd
  <2>5. Begun(nodes', "IfThen", nd)
    <3>1. Expr(nodes', nd.kids[3]) BY <1>2, <2>4 DEF Fits, Operand
    <3>2. nd.kids[2] = 0 BY <2>3, <2>4
    <3> QED BY <3>1, <3>2 DEF Begun, FuncPoints, AggPoints, BlockPoints
  <2>6. Within(Yields("IfThen"), Yields("IfCond")) BY <1>1, <1>2
  <2>7. nd.kids = WithKid(Here, 3, ret).kids BY DEF nd
  <2> QED BY <1>1, <1>5, <2>1, <2>3, <2>5, <2>6, <2>7, KeepsKid
<1>7. CASE IfThen
  <2> DEFINE nd == WithKid(Here, 1, ret)
  <2>1. /\ Running("IfThen") /\ UNCHANGED <<idents, status>> /\ Update(nd)
        /\ Call(<<Fr("Block"), FrNode("IfElse", Top.node)>>) \/ Return(Top.node)
    BY <1>7 DEF IfThen, Reads, Sees
  <2>2. Going("IfThen")
    <3>1. Here \in Node /\ ret \in Nat BY <1>1, <2>1, BuildingNode DEF IInv, TypeOK
    <3>2. Len(nodes) <= Len(nodes') BY <1>1, <2>1, <3>1, WithKidFields, Updates
    <3> QED BY <2>1, <3>2, GoesOn
  <2>3. /\ Here.kind = "IF" /\ 1 \in DOMAIN Here.kids /\ 2 \in DOMAIN Here.kids
        /\ 3 \in DOMAIN Here.kids /\ Begun(nodes, "IfThen", Here)
        /\ Here.kids[2] = 0 /\ nd \in Node /\ nd.kind = Here.kind /\ nd.name = Here.name
    BY <1>1, <1>3, <2>2
  <2>4. /\ nd.kids[1] = ret /\ Fits(nodes', Expects("IfThen"), ret)
        /\ \A l \in DOMAIN Here.kids \ {1} :
             /\ nd.kids[l] = Here.kids[l]
             /\ Expr(nodes, Here.kids[l]) => Expr(nodes', Here.kids[l])
        /\ nodes'[Top.node] = nd /\ Top.node \in DOMAIN nodes'
    BY <1>1, <2>1, <2>3, KidGiven
  <2>5. nd.kids = WithKid(Here, 1, ret).kids OBVIOUS
  <2> HIDE DEF nd
  <2>6. /\ BlockAt(nodes', nd.kids[1]) /\ Expr(nodes', nd.kids[3]) /\ nd.kids[2] = 0
    <3>1. BlockAt(nodes', ret) BY <1>2, <2>4 DEF Fits
    <3>2. Expr(nodes, Here.kids[3]) BY <2>3 DEF Begun
    <3> QED BY <2>3, <2>4, <3>1, <3>2
  <2>7. CASE Return(Top.node)
    <3>1. Whole(nodes', nd) BY <2>3, <2>6 DEF Whole, Aggregate
    <3>2. Fits(nodes', Yields("IfThen"), Top.node) BY <1>1, <1>2, <2>4, DoneFits
    <3> QED BY <1>1, <2>1, <2>3, <2>5, <2>7, <3>1, <3>2, ReturnsKid
  <2>8. CASE Call(<<Fr("Block"), FrNode("IfElse", Top.node)>>)
    <3>1. Begun(nodes', "IfElse", nd) BY <2>6 DEF Begun, FuncPoints, AggPoints, BlockPoints
    <3>2. Within(Yields("IfElse"), Yields("IfThen")) BY <1>1, <1>2
    <3> QED BY <1>1, <1>5, <2>1, <2>3, <2>5, <2>8, <3>1, <3>2, KeepsKid
  <2> QED BY <2>1, <2>7, <2>8
<1>8. CASE IfElse
  <2> DEFINE nd == WithKid(Here, 2, ret)
  <2>1. /\ Running("IfElse") /\ UNCHANGED <<idents, status>> /\ Update(nd) /\ Return(Top.node)
    BY <1>8 DEF IfElse, Attach, Resumes
  <2>2. Going("IfElse")
    <3>1. Here \in Node /\ ret \in Nat BY <1>1, <2>1, BuildingNode DEF IInv, TypeOK
    <3>2. Len(nodes) <= Len(nodes') BY <1>1, <2>1, <3>1, WithKidFields, Updates
    <3> QED BY <2>1, <3>2, GoesOn
  <2>3. /\ Here.kind = "IF" /\ 1 \in DOMAIN Here.kids /\ 2 \in DOMAIN Here.kids
        /\ 3 \in DOMAIN Here.kids /\ Begun(nodes, "IfElse", Here)
        /\ nd \in Node /\ nd.kind = Here.kind /\ nd.name = Here.name
    BY <1>1, <1>3, <2>2
  <2>4. /\ nd.kids[2] = ret /\ Fits(nodes', Expects("IfElse"), ret)
        /\ \A l \in DOMAIN Here.kids \ {2} :
             /\ nd.kids[l] = Here.kids[l]
             /\ Expr(nodes, Here.kids[l]) => Expr(nodes', Here.kids[l])
             /\ BlockAt(nodes, Here.kids[l]) => BlockAt(nodes', Here.kids[l])
        /\ nodes'[Top.node] = nd /\ Top.node \in DOMAIN nodes'
    BY <1>1, <2>1, <2>3, KidGiven
  <2>5. nd.kids = WithKid(Here, 2, ret).kids OBVIOUS
  <2> HIDE DEF nd
  <2>6. /\ BlockAt(nodes', nd.kids[1]) /\ Expr(nodes', nd.kids[3]) /\ BlockAt(nodes', nd.kids[2])
    <3>1. BlockAt(nodes', ret) BY <1>2, <2>4 DEF Fits
    <3>2. Expr(nodes, Here.kids[3]) /\ BlockAt(nodes, Here.kids[1]) BY <2>3 DEF Begun
    <3> QED BY <2>3, <2>4, <3>1, <3>2
  <2>7. Whole(nodes', nd) BY <2>3, <2>6 DEF Whole, Aggregate
  <2>8. Fits(nodes', Yields("IfElse"), Top.node) BY <1>1, <1>2, <2>4, DoneFits
  <2> QED BY <1>1, <2>1, <2>3, <2>5, <2>7, <2>8, ReturnsKid
<1> QED BY <1>4, <1>6, <1>7, <1>8

(* The node is given a new value, and its function goes on elsewhere.      *)
LEMMA StaysData ==
  ASSUME IInv, IInv', TreeInv, DataInv, NEW label \in Building, Running(label),
         UNCHANGED <<idents, status>>, NEW nd \in Node, Plain(idents, nd), Update(nd),
         NEW at \in Building \ Resumptions, Within(Yields(at), Yields(label)),
         Begun(nodes', at, nd), Goto(at)
  PROVE  DataInv'
<1>1. /\ Going(label) /\ Wrote({Top.node}) /\ Done({Top.node}, Top.node)
      /\ nodes'[Top.node] = nd /\ Top.node \in Nat
  BY UpdateData
<1>2. at \in Building \ {"LogicRhs", "FactorRhs", "TermRhs"} BY DEF Resumptions
<1>3. /\ Half(nodes', FrNode(at, Top.node)) /\ FrNode(at, Top.node) \in Frame
      /\ FrNode(at, Top.node).at = at /\ FrNode(at, Top.node).node = Top.node
  BY <1>1, <1>2, NodeHalf
<1> QED BY <1>1, <1>3, DataOne DEF Goto

LEMMA BlockData ==
  ASSUME IInv, IInv', TreeInv, DataInv, Block \/ BlockLoop \/ BlockPush \/ BlockClose
  PROVE  DataInv'
<1>1. /\ {"BlockLoop", "BlockPush", "BlockClose"} \subseteq Building \ {"LogicRhs", "FactorRhs", "TermRhs"}
      /\ {"BlockLoop", "BlockClose"} \cap Resumptions = {} /\ "BlockPush" \in Resumptions
      /\ "Block" \notin Building /\ "BLOCK" \in NodeKind
      /\ BlockPoints = {"BlockLoop", "BlockPush", "BlockClose"}
  BY DEF Building, Resumptions, BlockPoints, NodeKind, StatementKind
<1>2. /\ \A at \in BlockPoints : Yields(at) = "block" /\ KindsAt(at) = {"BLOCK"}
      /\ Yields("Block") = "block" /\ Expects("BlockPush") = "stmt"
      /\ Within("block", "block") /\ Within(Yields("Statement"), "stmt")
  BY YieldsTable, ExpectsTable, KindsBuilt DEF Within
<1>3. CASE Block
  <2>1. /\ Running("Block") /\ UNCHANGED <<idents, status>>
        /\ Add(<<NewNode("BLOCK")>>) /\ Call(<<FrNode("BlockLoop", New)>>)
    BY <1>3 DEF Block, Reads, Sees
  <2>2. NewNode("BLOCK") \in Node BY <1>1, NewNodeFields
  <2>3. NewNode("BLOCK").kind = "BLOCK" /\ Begun(nodes', "BlockLoop", NewNode("BLOCK"))
    BY NewNodeBegun
  <2>4. /\ Going("Block") /\ Wrote({}) /\ Done({}, New)
        /\ Half(nodes', FrNode("BlockLoop", New)) /\ FrNode("BlockLoop", New) \in Frame
        /\ FrNode("BlockLoop", New).at = "BlockLoop" /\ FrNode("BlockLoop", New).node = New
    BY <1>1, <2>1, <2>2, <2>3, BuildData
  <2>5. Within(Yields("BlockLoop"), Yields("Block")) /\ "BlockLoop" \notin Resumptions
    BY <1>1, <1>2
  <2> QED BY <2>1, <2>4, <2>5, DataOne
<1>4. ASSUME NEW label \in BlockPoints, Going(label)
      PROVE  /\ Here.kind = "BLOCK" /\ Here \in Node /\ Plain(idents, Here)
             /\ \A k \in DOMAIN Here.kids : Here.kids[k] # 0
             /\ \A ns : \A at \in BlockPoints : Begun(ns, at, Here)
  <2>1. Here.kind = "BLOCK" /\ Here \in Node BY <1>1, <1>2, <1>4, Builds
  <2>2. Begun(nodes, label, Here) /\ Plain(idents, Here) BY <1>1, <1>4, Found
  <2>3. \A k \in DOMAIN Here.kids : Here.kids[k] # 0 BY <2>2 DEF Begun
  <2>4. ASSUME NEW ns, NEW at \in BlockPoints PROVE Begun(ns, at, Here)
    BY <1>1, <2>3 DEF Begun, IfPoints, FuncPoints, AggPoints
  <2> QED BY <2>1, <2>2, <2>3, <2>4
<1>5. CASE BlockLoop
  <2>1. /\ Running("BlockLoop") /\ UNCHANGED <<idents, status>> /\ UNCHANGED nodes
        /\ Goto("BlockClose") \/ Call(<<Fr("Statement"), FrNode("BlockPush", Top.node)>>)
    BY <1>5 DEF BlockLoop, Reads, Sees
  <2>2. Going("BlockLoop") BY <2>1, GoesOnSame
  <2>3. Begun(nodes, "BlockClose", Here) /\ Begun(nodes, "BlockPush", Here)
    <3>1. {"BlockLoop", "BlockPush", "BlockClose"} \subseteq BlockPoints BY DEF BlockPoints
    <3>2. \A ns : \A at \in BlockPoints : Begun(ns, at, Here) BY <1>4, <2>2, <3>1
    <3> QED BY <3>1, <3>2
  <2>4. /\ Within(Yields("BlockClose"), Yields("BlockLoop"))
        /\ Within(Yields("BlockPush"), Yields("BlockLoop"))
    BY <1>1, <1>2
  <2>5. CASE Goto("BlockClose") BY <1>1, <2>1, <2>3, <2>4, <2>5, GotoData
  <2>6. CASE Call(<<Fr("Statement"), FrNode("BlockPush", Top.node)>>)
    <3>1. Top.node \in Nat BY <1>1, <2>1, BuildingNode
    <3>2. FrNode("BlockPush", Top.node) \in Frame BY <1>1, <3>1, NodeInFrame
    <3>3. Call(<<Fr("Statement")>> \o <<FrNode("BlockPush", Top.node)>>)
      BY <2>6, <3>2, PairCall
    <3>4. BareLinked(<<Fr("Statement")>>, Expects("BlockPush")) BY <1>2, BareLinkedOne
    <3> QED BY <1>1, <2>1, <2>3, <2>4, <3>3, <3>4, CallData
  <2> QED BY <2>1, <2>5, <2>6
<1>6. CASE BlockPush
  <2> DEFINE nd == [Here EXCEPT !.kids = Append(@, ret)]
  <2>1. /\ Running("BlockPush") /\ UNCHANGED <<idents, status>> /\ Update(nd) /\ Goto("BlockLoop")
    BY <1>6 DEF BlockPush, Resumes
  <2>2. Here \in Node /\ ret \in Nat BY <1>1, <2>1, BuildingNode DEF IInv, TypeOK
  <2>3. Append(Here.kids, ret) \in Seq(Nat) BY <2>2, AppendProperties DEF Node
  <2>4. /\ nd \in Node /\ nd.kids = Append(Here.kids, ret) /\ nd.kind = Here.kind
    BY <2>2, <2>3 DEF Node
  <2> HIDE DEF nd
  <2>5. Going("BlockPush")
    <3>1. Len(nodes) <= Len(nodes') BY <1>1, <2>1, <2>4, Updates
    <3> QED BY <2>1, <3>1, GoesOn
  <2>6. Here.kind = "BLOCK" /\ \A k \in DOMAIN Here.kids : Here.kids[k] # 0
    BY <1>1, <1>4, <2>5
  <2>7. ret # 0 BY <1>1, <2>5, Given
  <2>8. \A k \in DOMAIN nd.kids : nd.kids[k] # 0
    <3>1. Here.kids \in Seq(Nat) BY <2>2 DEF Node
    <3>2. /\ Len(Append(Here.kids, ret)) = Len(Here.kids) + 1
          /\ \A i \in 1 .. Len(Here.kids) : Append(Here.kids, ret)[i] = Here.kids[i]
          /\ Append(Here.kids, ret)[Len(Here.kids) + 1] = ret
          /\ Len(Here.kids) \in Nat /\ DOMAIN Here.kids = 1 .. Len(Here.kids)
          /\ DOMAIN Append(Here.kids, ret) = 1 .. Len(Append(Here.kids, ret))
      BY <2>2, <2>3, <3>1, AppendProperties, LenProperties
    <3> QED BY <2>4, <2>6, <2>7, <3>2
  <2>9. Begun(nodes', "BlockLoop", nd)
    BY <2>8 DEF Begun, IfPoints, FuncPoints, AggPoints, BlockPoints
  <2>10. Plain(idents, nd) BY <2>4, <2>6, PlainOther
  <2>11. Within(Yields("BlockLoop"), Yields("BlockPush")) BY <1>1, <1>2
  <2> QED BY <1>1, <2>1, <2>4, <2>9, <2>10, <2>11, StaysData
<1>7. CASE BlockClose
  <2>1. /\ Running("BlockClose") /\ UNCHANGED <<idents, status>> /\ UNCHANGED nodes
        /\ Return(Top.node)
    BY <1>7 DEF BlockClose, Insists, Reads, Sees
  <2>2. Going("BlockClose") BY <2>1, GoesOnSame
  <2>3. Here.kind = "BLOCK" /\ \A k \in DOMAIN Here.kids : Here.kids[k] # 0
    BY <1>1, <1>4, <2>2
  <2>4. Whole(nodes, Here) BY <2>3 DEF Whole, Aggregate
  <2>5. Top.node \in DOMAIN nodes BY <1>1, <2>2, Builds
  <2>6. Fits(nodes, Yields("BlockClose"), Top.node) BY <1>1, <1>2, <2>3, <2>5, DoneFits DEF Here
  <2> QED BY <1>1, <2>1, <2>4, <2>6, ReturnData
<1> QED BY <1>3, <1>5, <1>6, <1>7

(* A definition under construction has its name, but at DefName.           *)
DefPoints == FuncPoints \cup AggPoints \cup {"Params"}

LEMMA DefFacts ==
  /\ DefPoints \subseteq Building \ {"LogicRhs", "FactorRhs", "TermRhs"}
  /\ DefPoints \cap Resumptions = {"FuncBody"}
  /\ \A at \in DefPoints : Yields(at) = "stmt" /\ Yields("DefName") = "stmt"
  /\ \A class : Within(class, "stmt")
  /\ \A at \in DefPoints \cup {"DefName"} : KindsAt(at) \subseteq {"FUNC"} \cup Aggregate
<1>1. DefPoints \subseteq Building \ {"LogicRhs", "FactorRhs", "TermRhs"}
  BY DEF DefPoints, FuncPoints, AggPoints, Building
<1>2. DefPoints \cap Resumptions = {"FuncBody"}
  BY DEF DefPoints, FuncPoints, AggPoints, Resumptions
<1>3. \A at \in DefPoints : Yields(at) = "stmt" /\ Yields("DefName") = "stmt"
  BY YieldsTable DEF DefPoints
<1>4. \A at \in DefPoints \cup {"DefName"} : KindsAt(at) \subseteq {"FUNC"} \cup Aggregate
  BY KindsTable DEF DefPoints
<1> QED BY <1>1, <1>2, <1>3, <1>4 DEF Within

LEMMA NamedBegun ==
  ASSUME NEW ns, NEW at \in DefPoints, NEW nd, nd.name # NoName
  PROVE  Begun(ns, at, nd)
BY DEF DefPoints, Begun, IfPoints, FuncPoints, AggPoints, BlockPoints

LEMMA DefFound ==
  ASSUME NEW label \in DefPoints, Going(label), DataInv
  PROVE  /\ Here \in Node /\ Here.name # NoName /\ Here.kind \in {"FUNC"} \cup Aggregate
         /\ \A ns : \A at \in DefPoints : Begun(ns, at, Here)
<1>1. label \in Building BY DefFacts
<1>2. Here \in Node /\ Here.kind \in {"FUNC"} \cup Aggregate BY <1>1, DefFacts, Builds
<1>3. Begun(nodes, label, Here) BY <1>1, Found
<1>4. Here.name # NoName BY <1>3 DEF Begun, DefPoints
<1> QED BY <1>2, <1>4, NamedBegun

LEMMA DefNameData ==
  ASSUME IInv, IInv', TreeInv, DataInv, DefName
  PROVE  DataInv'
<1> DEFINE nd == [Here EXCEPT !.name = Lexeme(At)]
<1>1. Running("DefName") /\ UNCHANGED <<idents, status>> /\ Update(nd)
  BY DEF DefName, Reads, Sees
<1>2. "DefName" \in Building BY DEF Building
<1>3. Here \in Node /\ Lexeme(At) \in Name
  BY <1>1, <1>2, BuildingNode, Looking DEF DefName, Reads, Sees
<1>4. nd \in Node /\ nd.name = Lexeme(At) /\ nd.kind = Here.kind BY <1>3 DEF Node
<1> HIDE DEF nd
<1>5. Going("DefName")
  <2>1. Len(nodes) <= Len(nodes') BY <1>1, <1>2, <1>4, Updates
  <2> QED BY <1>1, <2>1, GoesOn
<1>6. PICK at \in {"FuncOpen", "AggOpen"} : Goto(at) BY DEF DefName, Goto
<1>7. at \in DefPoints /\ at \in Building \ Resumptions
  BY DEF DefPoints, FuncPoints, AggPoints, Building, Resumptions
<1>8. nd.kind \in {"FUNC"} \cup Aggregate BY <1>2, <1>4, <1>5, Builds, DefFacts
<1>9. Plain(idents, nd) BY <1>8, PlainOther DEF Aggregate
<1>10. nd.name # NoName BY <1>3, <1>4, NameAssumption
<1>11. Begun(nodes', at, nd) BY <1>7, <1>10, NamedBegun
<1>12. Within(Yields(at), Yields("DefName")) BY <1>7, DefFacts
<1> QED BY <1>1, <1>2, <1>4, <1>6, <1>7, <1>9, <1>11, <1>12, StaysData

LEMMA ParamsData ==
  ASSUME IInv, IInv', TreeInv, DataInv, Params
  PROVE  DataInv'
<1>1. Running("Params") /\ UNCHANGED <<idents, status>> /\ At < NTokens
  BY DEF Params, Reads, Sees
<1>2. /\ "Params" \in Building /\ "Params" \in DefPoints
      /\ {"MemberSemi", "FuncClose", "AggClose"} \subseteq Building \ Resumptions
      /\ {"MemberSemi", "FuncClose", "AggClose"} \subseteq DefPoints
      /\ "Params" \notin Resumptions
  BY DEF DefPoints, FuncPoints, AggPoints, Building, Resumptions
<1>3. \A at \in DefPoints : Within(Yields(at), Yields("Params")) BY <1>2, DefFacts
<1>4. ASSUME NEW m \in AstIdentifier, AddMember(m)
      PROVE  /\ Going("Params") /\ Wrote({Top.node}) /\ Done({Top.node}, Top.node)
             /\ \A at \in DefPoints : Begun(nodes', at, nodes'[Top.node])
             /\ Top.node \in Nat
  <2> DEFINE nd == [Here EXCEPT !.members = Append(@, m)]
  <2>1. Here \in Node BY <1>1, <1>2, BuildingNode
  <2>2. Append(Here.members, m) \in Seq(AstIdentifier) BY <2>1, AppendProperties DEF Node
  <2>3. nd \in Node /\ nd.name = Here.name /\ nd.kind = Here.kind BY <2>1, <2>2 DEF Node
  <2>4. Update(nd) BY <1>4 DEF AddMember
  <2> HIDE DEF nd
  <2>5. Going("Params")
    <3>1. Len(nodes) <= Len(nodes') BY <1>1, <1>2, <2>3, <2>4, Updates
    <3> QED BY <1>1, <3>1, GoesOn
  <2>6. nd.name # NoName /\ nd.kind \in {"FUNC"} \cup Aggregate BY <1>2, <2>3, <2>5, DefFound
  <2>7. Plain(idents, nd) BY <2>6, PlainOther DEF Aggregate
  <2>8. /\ Wrote({Top.node}) /\ Done({Top.node}, Top.node)
        /\ nodes'[Top.node] = nd /\ Top.node \in Nat
    BY <1>1, <1>2, <2>3, <2>4, <2>7, UpdateData
  <2>9. \A at \in DefPoints : Begun(nodes', at, nd) BY <2>6, NamedBegun
  <2> QED BY <2>5, <2>8, <2>9
<1>5. CASE AddMember(Parameter) /\ Identifier(At) /\ IsParameter /\ UNCHANGED <<stack, ret>>
  <2>1. /\ Going("Params") /\ Wrote({Top.node}) /\ Done({Top.node}, Top.node)
        /\ Begun(nodes', "Params", nodes'[Top.node])
    BY <1>1, <1>2, <1>4, <1>5, ParameterType
  <2>2. /\ stack \in Seq(Frame) /\ stack # <<>> /\ Top.at = "Params"
        /\ Top = Head(stack) /\ Top \in Frame
    <3>1. stack \in Seq(Frame) /\ stack # <<>> BY <1>1 DEF IInv, TypeOK, Running
    <3> QED BY <1>1, <3>1, HeadTailProperties DEF Running, Top
  <2>3. Call(<<Top>>) BY <1>5, <2>2, HeadAndTail DEF Call
  <2>4. Half(nodes', Top) BY <1>2, <2>1, <2>2 DEF Half
  <2>5. Within(Yields(Top.at), Yields("Params")) BY <1>2, <1>3, <2>2
  <2> QED BY <1>2, <2>1, <2>2, <2>3, <2>4, <2>5, DataOne
<1>6. ASSUME NEW m \in AstIdentifier, AddMember(m), Goto("MemberSemi")
      PROVE  DataInv'
  <2>1. /\ Going("Params") /\ Wrote({Top.node}) /\ Done({Top.node}, Top.node)
        /\ Begun(nodes', "MemberSemi", nodes'[Top.node]) /\ Top.node \in Nat
    BY <1>2, <1>4, <1>6
  <2>2. "MemberSemi" \in Building \ {"LogicRhs", "FactorRhs", "TermRhs"} BY <1>2
  <2>3. /\ Half(nodes', FrNode("MemberSemi", Top.node))
        /\ FrNode("MemberSemi", Top.node) \in Frame
        /\ FrNode("MemberSemi", Top.node).at = "MemberSemi"
        /\ FrNode("MemberSemi", Top.node).node = Top.node
    BY <2>1, <2>2, NodeHalf
  <2> QED BY <1>2, <1>3, <1>6, <2>1, <2>3, DataOne DEF Goto
<1>7. CASE Identifier(At) /\ IsParameter /\ AddMember(Parameter) /\ Goto("MemberSemi")
  BY <1>1, <1>6, <1>7, ParameterType
<1>8. CASE /\ Identifier(At) /\ Goto("MemberSemi")
           /\ AddMember([name |-> Lexeme(At), type |-> ZeroType])
  <2>1. ZeroType \in AstType BY DEF ZeroType, AstType, ValueType
  <2>2. [name |-> Lexeme(At), type |-> ZeroType] \in AstIdentifier
    BY <1>1, <1>8, <2>1, Looking DEF AstIdentifier
  <2> QED BY <1>6, <1>8, <2>2
<1>9. CASE /\ UNCHANGED nodes
           /\ Call(<<FrNode(IF Here.kind = "FUNC" THEN "FuncClose" ELSE "AggClose", Top.node)>>)
  <2>1. PICK at \in {"FuncClose", "AggClose"} : Goto(at) BY <1>9 DEF Goto
  <2>2. Going("Params") BY <1>1, <1>9, GoesOnSame
  <2>3. Begun(nodes, at, Here)
    <3>1. at \in DefPoints BY <1>2
    <3>2. \A ns : \A t \in DefPoints : Begun(ns, t, Here) BY <1>2, <2>2, DefFound
    <3> QED BY <3>1, <3>2
  <2>4. Within(Yields(at), Yields("Params")) BY <1>2, <1>3
  <2> QED BY <1>1, <1>2, <1>9, <2>1, <2>3, <2>4, GotoData
<1> QED BY <1>5, <1>7, <1>8, <1>9 DEF Params

LEMMA InsistsData ==
  ASSUME NEW label, Insists(label)
  PROVE  Running(label) /\ UNCHANGED <<idents, status>> /\ UNCHANGED nodes
BY DEF Insists, Reads, Sees

LEMMA InsistingData ==
  ASSUME IInv, IInv', TreeInv, DataInv, FuncOpen \/ AggOpen \/ MemberSemi \/ AggClose
                                        \/ FuncClose \/ FuncColon \/ ExprSemi
  PROVE  DataInv'
<1>1. ASSUME NEW label \in DefPoints, Insists(label), NEW at \in DefPoints \ {"FuncBody"}, Goto(at)
      PROVE  DataInv'
  <2>1. Running(label) /\ UNCHANGED <<idents, status>> /\ UNCHANGED nodes BY <1>1, InsistsData
  <2>2. Going(label) BY <2>1, GoesOnSame
  <2>3. label \in Building /\ at \in Building \ Resumptions BY DefFacts
  <2>4. Within(Yields(at), Yields(label)) BY DefFacts
  <2>5. Begun(nodes, at, Here)
    <3>1. \A ns : \A t \in DefPoints : Begun(ns, t, Here) BY <2>2, DefFound
    <3> QED BY <3>1
  <2> QED BY <1>1, <2>1, <2>3, <2>4, <2>5, GotoData
<1>2. {"FuncOpen", "FuncClose", "FuncColon", "FuncType", "Params", "AggOpen", "MemberSemi", "AggClose"}
        \subseteq DefPoints \ {"FuncBody"}
  BY DEF DefPoints, FuncPoints, AggPoints
<1>3. CASE FuncOpen BY <1>1, <1>2, <1>3 DEF FuncOpen
<1>4. CASE AggOpen BY <1>1, <1>2, <1>4 DEF AggOpen
<1>5. CASE MemberSemi BY <1>1, <1>2, <1>5 DEF MemberSemi
<1>6. CASE FuncClose BY <1>1, <1>2, <1>6 DEF FuncClose
<1>7. CASE FuncColon BY <1>1, <1>2, <1>7 DEF FuncColon
<1>8. CASE AggClose
  <2>1. Insists("AggClose") /\ Return(Top.node) BY <1>8 DEF AggClose
  <2>2. Running("AggClose") /\ UNCHANGED <<idents, status>> /\ UNCHANGED nodes
    BY <2>1, InsistsData
  <2>3. Going("AggClose") BY <2>2, GoesOnSame
  <2>4. "AggClose" \in DefPoints /\ "AggClose" \in AggPoints /\ "AggClose" \in Building
    BY <1>2, DefFacts DEF AggPoints
  <2>5. Here.kind \in Aggregate /\ Top.node \in DOMAIN nodes BY <2>3, <2>4, Builds, KindsBuilt
  <2>6. Here.name # NoName BY <2>3, <2>4, DefFound
  <2>7. Whole(nodes, Here) BY <2>5, <2>6 DEF Whole, Aggregate
  <2>8. Fits(nodes, Yields("AggClose"), Top.node) BY <2>4, <2>5, DefFacts, DoneFits
  <2> QED BY <2>1, <2>2, <2>4, <2>7, <2>8, ReturnData
<1>9. CASE ExprSemi
  <2>1. Insists("ExprSemi") /\ Return(ret) BY <1>9 DEF ExprSemi
  <2>2. "ExprSemi" \in Resumptions /\ "ExprSemi" \notin Building BY DEF Resumptions, Building
  <2>3. Within(Expects("ExprSemi"), Yields("ExprSemi")) BY YieldsTable DEF Within
  <2> QED BY <2>1, <2>2, <2>3, InsistsData, HandBackData
<1> QED BY <1>3, <1>4, <1>5, <1>6, <1>7, <1>8, <1>9

LEMMA FuncTypeData ==
  ASSUME IInv, IInv', TreeInv, DataInv, FuncType
  PROVE  DataInv'
<1>1. Running("FuncType") /\ UNCHANGED <<idents, status>> BY DEF FuncType, Reads, Sees
<1>2. /\ "FuncType" \in Building /\ "FuncType" \in DefPoints /\ "FuncBody" \in DefPoints
      /\ "FuncBody" \in (Building \cap Resumptions) \ {"LogicRhs", "FactorRhs", "TermRhs"}
  BY DEF Building, Resumptions, DefPoints, FuncPoints
<1>3. Here \in Node BY <1>1, <1>2, BuildingNode
<1>4. [value |-> TypeOfId[Kind(At)], ptr |-> Kind(At) = "T_STAR"] \in AstType
  <2>1. TypeOfId[Kind(At)] \in ValueType BY DEF FuncType, TypeIds, TypeOfId, ValueType
  <2>2. (Kind(At) = "T_STAR") \in BOOLEAN OBVIOUS
  <2> QED BY <2>1, <2>2, Zenon DEF AstType
<1> DEFINE ty == [value |-> TypeOfId[Kind(At)], ptr |-> Kind(At) = "T_STAR"]
           nd == [Here EXCEPT !.type = ty]
<1>5. Update(nd) /\ Call(<<Fr("Block"), FrNode("FuncBody", Top.node)>>) BY DEF FuncType
<1>6. ty \in AstType BY <1>4
<1> HIDE DEF ty
<1>7. nd \in Node /\ nd.name = Here.name /\ nd.kind = Here.kind BY <1>3, <1>6 DEF Node
<1> HIDE DEF nd
<1>8. Going("FuncType")
  <2>1. Len(nodes) <= Len(nodes') BY <1>1, <1>2, <1>5, <1>7, Updates
  <2> QED BY <1>1, <2>1, GoesOn
<1>9. nd.name # NoName /\ nd.kind \in {"FUNC"} \cup Aggregate BY <1>2, <1>7, <1>8, DefFound
<1>10. Plain(idents, nd) BY <1>9, PlainOther DEF Aggregate
<1>11. /\ Wrote({Top.node}) /\ Done({Top.node}, Top.node)
       /\ nodes'[Top.node] = nd /\ Top.node \in Nat
  BY <1>1, <1>2, <1>5, <1>7, <1>10, UpdateData
<1>12. Begun(nodes', "FuncBody", nd) BY <1>2, <1>9, NamedBegun
<1>13. /\ Half(nodes', FrNode("FuncBody", Top.node)) /\ FrNode("FuncBody", Top.node) \in Frame
       /\ FrNode("FuncBody", Top.node).at = "FuncBody"
       /\ FrNode("FuncBody", Top.node).node = Top.node
  BY <1>2, <1>11, <1>12, NodeHalf
<1>14. /\ Call(<<Fr("Block")>> \o <<FrNode("FuncBody", Top.node)>>)
       /\ BareLinked(<<Fr("Block")>>, Expects("FuncBody"))
  <2>1. Within(Yields("Block"), Expects("FuncBody"))
    BY YieldsTable, ExpectsTable DEF Within
  <2> QED BY <1>5, <1>13, <2>1, PairCall, BareLinkedOne
<1>15. Within(Yields("FuncBody"), Yields("FuncType")) BY <1>2, DefFacts
<1> QED BY <1>2, <1>8, <1>11, <1>13, <1>14, <1>15, DataMore

LEMMA FuncBodyData ==
  ASSUME IInv, IInv', TreeInv, DataInv, FuncBody
  PROVE  DataInv'
<1> DEFINE nd == WithKid(Here, 1, ret)
<1>1. /\ Running("FuncBody") /\ UNCHANGED <<idents, status>> /\ Update(nd) /\ Return(Top.node)
  BY DEF FuncBody, Attach, Resumes
<1>2. /\ "FuncBody" \in Building \cap Resumptions /\ "FuncBody" \in DefPoints
      /\ "FuncBody" \in FuncPoints
  BY DEF Building, Resumptions, DefPoints, FuncPoints
<1>3. Here \in Node /\ ret \in Nat BY <1>1, <1>2, BuildingNode DEF IInv, TypeOK
<1>4. nd \in Node /\ nd.kind = Here.kind /\ nd.name = Here.name
  <2>1. nd.name = Here.name BY <1>3 DEF WithKid, Node
  <2> QED BY <1>3, <2>1, WithKidFields
<1>5. nd.kids = WithKid(Here, 1, ret).kids OBVIOUS
<1>6. Going("FuncBody")
  <2>1. Len(nodes) <= Len(nodes') BY <1>1, <1>2, <1>4, Updates
  <2> QED BY <1>1, <2>1, GoesOn
<1> HIDE DEF nd
<1>7. Here.kind = "FUNC" /\ Sized(Here) BY <1>2, <1>6, Builds, KindsBuilt
<1>8. 1 \in DOMAIN Here.kids BY <1>3, <1>7, Places
<1>9. /\ nd.kids[1] = ret /\ Fits(nodes', Expects("FuncBody"), ret)
      /\ nodes'[Top.node] = nd /\ Top.node \in DOMAIN nodes'
  BY <1>1, <1>2, <1>4, <1>5, <1>8, KidGiven
<1>10. Here.name # NoName BY <1>2, <1>6, DefFound
<1>11. Expects("FuncBody") = "block" /\ Yields("FuncBody") = "stmt"
  BY <1>2, ExpectsTable, YieldsTable
<1>12. Whole(nodes', nd) BY <1>4, <1>7, <1>9, <1>10, <1>11 DEF Whole, Aggregate, Fits
<1>13. Fits(nodes', Yields("FuncBody"), Top.node) BY <1>9, <1>11, DoneFits
<1> QED BY <1>1, <1>2, <1>4, <1>5, <1>8, <1>12, <1>13, ReturnsKid

LEMMA TabledEmplace ==
  ASSUME NEW table, NEW z, NEW entry, Tabled(table), entry.name = z \/ entry = ZeroIdentifier
  PROVE  Tabled(Emplace(table, z, entry))
BY DEF Tabled, Emplace

LEMMA EntriesEmplaced ==
  ASSUME NEW z, NEW entry, idents' = Emplace(idents, z, entry)
  PROVE  EntriesKept
BY DEF EntriesKept, Emplace

(* A name's node that copies its entry agrees with it.                     *)
LEMMA NamedEntry ==
  ASSUME NEW table, table \in [DOMAIN table -> AstIdentifier], DOMAIN table \subseteq Name,
         Tabled(table), NEW z \in DOMAIN table,
         NEW nd, nd.name = table[z].name, nd.type = table[z].type
  PROVE  Named(table, nd)
<1>1. table[z] \in AstIdentifier OBVIOUS
<1>2. table[z] = [name |-> table[z].name, type |-> table[z].type]
  BY <1>1 DEF AstIdentifier
<1>3. CASE table[z] = ZeroIdentifier
  BY <1>3 DEF Named, ZeroIdentifier, ZeroType
<1>4. CASE table[z].name = z
  <2>1. nd.name = z /\ z # NoName BY <1>4, NameAssumption
  <2> QED BY <1>2, <1>4, <2>1 DEF Named
<1> QED BY <1>3, <1>4 DEF Tabled

(* The node of an assignment, made with the node of the name it assigns.   *)
LEMMA AssignData ==
  ASSUME IInv, IInv', TreeInv, DataInv, NEW label, label \notin Building, Running(label),
         UNCHANGED status, EntriesKept, Tabled(idents'),
         NEW z \in DOMAIN idents', CreateAssign(z, idents'), NEW at \in {"DeclRhs", "AssignRhs"},
         Within(Yields(at), Yields(label)),
         NEW fs, BareLinked(fs, Expects(at)), Call(fs \o <<FrNode(at, New)>>)
  PROVE  DataInv'
<1> DEFINE nd == [NewNode("BINARY") EXCEPT !.op = "DECL", !.kids = <<New + 1, 0>>]
           md == [NewNode("IDENTIFIER") EXCEPT !.name = idents'[z].name, !.type = idents'[z].type]
<1>1. /\ "BINARY" \in NodeKind /\ "IDENTIFIER" \in NodeKind
      /\ at \in (Building \cap Resumptions) \ {"LogicRhs", "FactorRhs", "TermRhs"}
  BY DEF NodeKind, ExpressionKind, Building, Resumptions
<1>2. idents' \in [DOMAIN idents' -> AstIdentifier] /\ DOMAIN idents' \subseteq Name
  BY DEF IInv, TypeOK
<1>3. /\ nd \in Node /\ nd.kind = "BINARY" /\ nd.kids[1] = New + 1 /\ nd.op = "DECL"
      /\ nd.name = NoName
  <2>1. ZeroType \in AstType /\ "DECL" \in BinaryOp
    BY DEF ZeroType, AstType, ValueType, BinaryOp
  <2>2. New + 1 \in Nat /\ 0 \in Nat BY NewIsNat
  <2>3. NewNode("BINARY") \in Node /\ NewNode("BINARY").kind = "BINARY" BY <1>1, NewNodeFields
  <2>4. nd \in Node BY <2>1, <2>2, <2>3, BinaryNode
  <2>5. NewNode("BINARY").name = NoName BY NewNodeBegun
  <2> QED BY <2>3, <2>4, <2>5 DEF Node
<1>4. /\ md \in Node /\ md.kind = "IDENTIFIER"
      /\ md.name = idents'[z].name /\ md.type = idents'[z].type
  <2>1. idents'[z].name \in Name \cup {NoName} /\ idents'[z].type \in AstType
    BY <1>2 DEF AstIdentifier
  <2>2. /\ NewNode("IDENTIFIER") \in Node /\ NewNode("IDENTIFIER").kind = "IDENTIFIER"
    BY <1>1, NewNodeFields
  <2> QED BY <2>1, <2>2 DEF Node
<1>5. Add(<<nd, md>>) BY DEF CreateAssign
<1> HIDE DEF nd, md
<1>6. Plain(idents', nd) BY <1>3, PlainOther
<1>7. Plain(idents', md)
  <2>1. Named(idents', md) BY <1>2, <1>4, NamedEntry
  <2> QED BY <1>4, <2>1 DEF Plain, Encoded
<1>8. Whole(nodes', md) BY <1>4 DEF Whole, Aggregate
<1>9. /\ Going(label) /\ Wrote({}) /\ Done({}, New)
      /\ nodes'[New] = nd /\ New \in Nat
      /\ nodes'[New + 1] = md /\ New + 1 \in DOMAIN nodes'
  BY <1>3, <1>4, <1>5, <1>6, <1>7, <1>8, AddsTwo
<1>10. NameAt(nodes', nd.kids[1]) BY <1>3, <1>4, <1>9 DEF NameAt
<1>11. Begun(nodes', at, nd)
  BY <1>3, <1>10 DEF Begun, IfPoints, FuncPoints, AggPoints, BlockPoints
<1>12. /\ Half(nodes', FrNode(at, New)) /\ FrNode(at, New) \in Frame
       /\ FrNode(at, New).at = at /\ FrNode(at, New).node = New
  BY <1>1, <1>9, <1>11, NodeHalf
<1> QED BY <1>1, <1>9, <1>12, DataMore

(* The right operand is stored in a node whose left one is there.          *)
LEMMA RightData ==
  ASSUME IInv, IInv', TreeInv, DataInv, NEW label \in {"DeclRhs", "AssignRhs", "CmpRhs"},
         Running(label), UNCHANGED <<idents, status>>,
         NEW nd \in Node, nd.kids = WithKid(Here, 2, ret).kids, nd.kind = Here.kind,
         nd.name = Here.name, nd.op = Here.op, Update(nd), Return(Top.node)
  PROVE  DataInv'
<1>1. /\ label \in Building \cap Resumptions /\ KindsAt(label) = {"BINARY"}
      /\ Expects(label) = "expr" /\ Yields(label) = "expr"
  BY KindsBuilt, ExpectsTable, YieldsTable DEF Building, Resumptions
<1>2. Going(label)
  <2>1. Len(nodes) <= Len(nodes') BY <1>1, Updates
  <2> QED BY <2>1, GoesOn
<1>3. Here.kind = "BINARY" /\ Sized(Here) /\ Here \in Node BY <1>1, <1>2, Builds
<1>4. 1 \in DOMAIN Here.kids /\ 2 \in DOMAIN Here.kids BY <1>3, Places
<1>5. Begun(nodes, label, Here) BY <1>1, <1>2, Found
<1>6. /\ nd.kids[2] = ret /\ Fits(nodes', "expr", ret)
      /\ \A l \in DOMAIN Here.kids \ {2} :
           /\ nd.kids[l] = Here.kids[l]
           /\ Expr(nodes, Here.kids[l]) => Expr(nodes', Here.kids[l])
           /\ NameAt(nodes, Here.kids[l]) => NameAt(nodes', Here.kids[l])
      /\ nodes'[Top.node] = nd /\ Top.node \in DOMAIN nodes'
  BY <1>1, <1>4, KidGiven
<1>7. Expr(nodes', nd.kids[2]) BY <1>6 DEF Fits, Operand
<1>8. /\ nd.kids[1] = Here.kids[1]
      /\ Expr(nodes, Here.kids[1]) => Expr(nodes', nd.kids[1])
      /\ NameAt(nodes, Here.kids[1]) => NameAt(nodes', nd.kids[1])
  BY <1>4, <1>6
<1>9. /\ nd.op \in BinaryOp /\ Expr(nodes', nd.kids[1])
      /\ nd.op = "DECL" => NameAt(nodes', nd.kids[1])
  <2>1. CASE label \in {"DeclRhs", "AssignRhs"}
    <3>1. Here.op = "DECL" /\ NameAt(nodes, Here.kids[1]) BY <1>5, <2>1 DEF Begun
    <3> QED BY <1>8, <3>1 DEF NameAt, Expr, ExpressionKind, BinaryOp
  <2>2. CASE label = "CmpRhs"
    <3>1. Here.op \in BinaryOp \ {"DECL"} /\ Expr(nodes, Here.kids[1]) BY <1>5, <2>2 DEF Begun
    <3> QED BY <1>8, <3>1
  <2> QED BY <2>1, <2>2
<1>10. Whole(nodes', nd) BY <1>3, <1>7, <1>9 DEF Whole, Aggregate
<1>11. Fits(nodes', Yields(label), Top.node) BY <1>1, <1>3, <1>6, DoneFits
<1> QED BY <1>1, <1>4, <1>10, <1>11, ReturnsKid

LEMMA AttachedRight ==
  ASSUME IInv, IInv', TreeInv, DataInv, NEW label \in {"DeclRhs", "CmpRhs"}, Attach(label, 2)
  PROVE  DataInv'
<1> DEFINE nd == WithKid(Here, 2, ret)
<1>1. Running(label) /\ UNCHANGED <<idents, status>> /\ Update(nd) /\ Return(Top.node)
  BY DEF Attach, Resumes
<1>2. label \in Building BY DEF Building
<1>3. Here \in Node /\ ret \in Nat BY <1>1, <1>2, BuildingNode DEF IInv, TypeOK
<1>4. nd \in Node /\ nd.kind = Here.kind /\ nd.name = Here.name /\ nd.op = Here.op
  <2>1. nd.name = Here.name /\ nd.op = Here.op BY <1>3 DEF WithKid, Node
  <2> QED BY <1>3, <2>1, WithKidFields
<1>5. nd.kids = WithKid(Here, 2, ret).kids OBVIOUS
<1> HIDE DEF nd
<1> QED BY <1>1, <1>4, <1>5, RightData

(* A call of functions that hold nothing.                                  *)
LEMMA BareData ==
  ASSUME IInv, IInv', TreeInv, DataInv, NEW label, label \notin Building,
         Running(label), UNCHANGED <<idents, status>>, UNCHANGED nodes,
         NEW fs, BareLinked(fs, Yields(label)), Call(fs)
  PROVE  DataInv'
<1>1. Going(label) BY GoesOnSame
<1>2. Top.node = 0 BY <1>1, Found
<1>3. Wrote({}) /\ Done({}, 0) BY <1>1, <1>2, WroteNothing
<1> QED BY <1>1, <1>3, DataBare

LEMMA DeclData ==
  ASSUME IInv, IInv', TreeInv, DataInv, Decl \/ DeclType \/ DeclEq \/ DeclRhs
  PROVE  DataInv'
<1>1. /\ {"DeclType", "DeclEq"} \subseteq Labels \ (Building \cup Resumptions)
      /\ {"DeclType", "DeclEq"} \subseteq Declaring /\ "Decl" \notin Building
  BY DEF Labels, Building, Resumptions, Declaring
<1>2. /\ \A at \in {"Decl", "DeclType", "DeclEq", "DeclRhs"} : Yields(at) = "expr"
      /\ Within("expr", "expr") /\ Expects("DeclRhs") = "expr"
      /\ BareLinked(LogicCall, "expr")
  BY YieldsTable, ExpectsTable, BareLinkedCalls DEF Within
<1>3. ASSUME NEW fr \in Frame, fr.at \in {"DeclType", "DeclEq"}, fr.node = 0, fr.left = 0
      PROVE  BareLinked(<<fr>>, "expr")
  <2>1. Bare(<<fr>>) BY <1>1, <1>3, BareOne DEF Blank
  <2>2. Linked(<<fr>>, "expr") BY <1>2, <1>3, LinkedOne
  <2>3. Len(<<fr>>) = 1 /\ <<fr>>[1] = fr OBVIOUS
  <2> QED BY <1>3, <2>1, <2>2, <2>3 DEF BareLinked
<1>4. ASSUME NEW at \in {"DeclType", "DeclEq"}
      PROVE  Fr(at) \in Frame /\ Fr(at).at = at /\ Fr(at).node = 0 /\ Fr(at).left = 0
  <2>1. Fr(at) \in Frame /\ Blank(Fr(at)) BY <1>1, BareFrame
  <2> QED BY <2>1 DEF Fr
<1>5. CASE Decl
  <2> DEFINE fr == [Fr("DeclType") EXCEPT !.name = Lexeme(At)]
  <2>1. /\ Running("Decl") /\ UNCHANGED <<idents, status>> /\ UNCHANGED nodes
        /\ At < NTokens
    BY <1>5 DEF Decl, Reads, Sees
  <2>2. ASSUME Identifier(At), Call(<<fr>>) PROVE DataInv'
    <3>1. Lexeme(At) \in Name BY <2>1, <2>2, Looking
    <3>2. fr \in Frame /\ fr.at = "DeclType" /\ fr.node = 0 /\ fr.left = 0
      BY <1>4, <3>1 DEF Frame
    <3> HIDE DEF fr
    <3>3. BareLinked(<<fr>>, "expr") BY <1>3, <3>2
    <3> QED BY <1>1, <1>2, <2>1, <2>2, <3>3, BareData
  <2>3. CASE Call(LogicCall) BY <1>1, <1>2, <2>1, <2>3, BareData
  <2> QED BY <1>5, <2>2, <2>3 DEF Decl
<1>6. CASE DeclType
  <2>1. Running("DeclType") /\ UNCHANGED <<idents, status>> /\ UNCHANGED nodes
    BY <1>6 DEF DeclType, Reads, Sees
  <2>2. Top.name \in Name BY <1>1, <2>1, TopFrame DEF FrameOK
  <2>3. ASSUME NEW star \in BOOLEAN, Kind(At) \in TypeIds,
               Call(<<[Fr("DeclEq") EXCEPT
                         !.name = Top.name,
                         !.type = [value |-> TypeOfId[Kind(At)], ptr |-> star]]>>)
        PROVE  DataInv'
    <3> DEFINE ty == [value |-> TypeOfId[Kind(At)], ptr |-> star]
               fr == [Fr("DeclEq") EXCEPT !.name = Top.name, !.type = ty]
    <3>1. ty \in AstType
      <4>1. TypeOfId[Kind(At)] \in ValueType BY <2>3 DEF TypeIds, TypeOfId, ValueType
      <4> QED BY <4>1 DEF AstType
    <3>2. Call(<<fr>>) BY <2>3
    <3> HIDE DEF ty
    <3>3. fr \in Frame /\ fr.at = "DeclEq" /\ fr.node = 0 /\ fr.left = 0
      BY <1>4, <2>2, <3>1 DEF Frame
    <3> HIDE DEF fr
    <3>4. BareLinked(<<fr>>, "expr") BY <1>3, <3>3
    <3> QED BY <1>1, <1>2, <2>1, <3>2, <3>4, BareData
  <2>4. CASE Call(LogicCall) BY <1>1, <1>2, <2>1, <2>4, BareData
  <2>5. (Kind(SkipLf(At + 1)) = "T_STAR") \in BOOLEAN OBVIOUS
  <2> QED BY <1>6, <2>3, <2>4, <2>5 DEF DeclType
<1>7. CASE DeclEq
  <2> DEFINE entry == [name |-> Top.name, type |-> Top.type]
  <2>1. /\ Running("DeclEq") /\ UNCHANGED status
        /\ idents' = Emplace(idents, Top.name, entry)
        /\ CreateAssign(Top.name, idents')
        /\ Call(LogicCall \o <<FrNode("DeclRhs", New)>>)
    BY <1>7 DEF DeclEq, Sees
  <2>2. Top.name \in DOMAIN idents' BY <2>1 DEF Emplace
  <2>3. EntriesKept BY <2>1, EntriesEmplaced
  <2>4. Tabled(idents')
    <3>1. Tabled(idents) BY DEF DataInv, DataOf
    <3>2. entry.name = Top.name OBVIOUS
    <3> HIDE DEF entry
    <3> QED BY <2>1, <3>1, <3>2, TabledEmplace
  <2> QED BY <1>1, <1>2, <2>1, <2>2, <2>3, <2>4, AssignData
<1>8. CASE DeclRhs BY <1>8, AttachedRight DEF DeclRhs
<1> QED BY <1>5, <1>6, <1>7, <1>8

LEMMA AssignmentData ==
  ASSUME IInv, IInv', TreeInv, DataInv, Assignment \/ AssignRhs
  PROVE  DataInv'
<1>1. /\ \A at \in {"Assignment", "AssignRhs"} : Yields(at) = "expr"
      /\ Within("expr", "expr") /\ Expects("AssignRhs") = "expr"
      /\ BareLinked(TermCall, "expr") /\ "Assignment" \notin Building
  BY YieldsTable, ExpectsTable, BareLinkedCalls DEF Within, Building
<1>2. CASE Assignment
  <2>1. Running("Assignment") /\ UNCHANGED <<idents, status>>
    BY <1>2 DEF Assignment, Reads, Sees
  <2>2. CASE HandOn(TermCall) BY <1>1, <2>1, <2>2, HandOnData
  <2>3. CASE /\ Lexeme(At) \in DOMAIN idents /\ CreateAssign(Lexeme(At), idents)
             /\ Call(TermCall \o <<FrNode("AssignRhs", New)>>)
    <3>1. EntriesKept /\ Tabled(idents') BY <2>1 DEF EntriesKept, DataInv, DataOf
    <3>2. Lexeme(At) \in DOMAIN idents' /\ CreateAssign(Lexeme(At), idents') BY <2>1, <2>3
    <3> QED BY <1>1, <2>1, <2>3, <3>1, <3>2, AssignData
  <2> QED BY <1>2, <2>2, <2>3 DEF Assignment
<1>3. CASE AssignRhs
  <2> DEFINE nd == [WithKid(Here, 2, ret) EXCEPT !.ev = nodes[ret].ev]
  <2>1. /\ Running("AssignRhs") /\ UNCHANGED <<idents, status>>
        /\ Update(nd) /\ Return(Top.node)
    BY <1>3 DEF AssignRhs, Resumes
  <2>2. "AssignRhs" \in Building \cap Resumptions BY DEF Building, Resumptions
  <2>3. Here \in Node /\ nodes[ret] \in Node /\ ret \in Nat
    BY <2>1, <2>2, TopFrame, BuildingNode DEF IInv, TypeOK
  <2>4. WithKid(Here, 2, ret) \in Node /\ WithKid(Here, 2, ret).kind = Here.kind
    BY <2>3, WithKidFields
  <2>5. WithKid(Here, 2, ret).name = Here.name /\ WithKid(Here, 2, ret).op = Here.op
    BY <2>3 DEF WithKid, Node
  <2>6. nodes[ret].ev \in AstType BY <2>3 DEF Node
  <2>7. /\ nd \in Node /\ nd.kids = WithKid(Here, 2, ret).kids /\ nd.kind = Here.kind
        /\ nd.name = Here.name /\ nd.op = Here.op
    BY <2>4, <2>5, <2>6 DEF Node
  <2> HIDE DEF nd
  <2> QED BY <2>1, <2>7, RightData
<1> QED BY <1>2, <1>3

(* A node is made, and its function waits for its right operand.           *)
LEMMA WaitsData ==
  ASSUME IInv, IInv', TreeInv, DataInv, NEW label \in Resumptions, label \notin Building,
         Running(label), UNCHANGED <<idents, status>>, Expects(label) = "expr",
         NEW at \in {"LogicRhs", "FactorRhs"}, Within(Yields(at), Yields(label)),
         Add(<<NewNode("BINARY")>>), NEW op \in BinaryOp \ {"DECL"},
         NEW g, g = [FrNode(at, New) EXCEPT !.left = ret, !.op = op],
         NEW fs, BareLinked(fs, Expects(at)), Call(fs \o <<g>>)
  PROVE  DataInv'
<1>1. "BINARY" \in NodeKind /\ at \in Building \cap Resumptions
  BY DEF NodeKind, ExpressionKind, Building, Resumptions
<1>2. /\ NewNode("BINARY") \in Node /\ NewNode("BINARY").kind = "BINARY"
      /\ NewNode("BINARY").name = NoName
  BY <1>1, NewNodeFields, NewNodeBegun
<1>3. Plain(idents', NewNode("BINARY")) BY <1>2, PlainOther
<1>4. EntriesKept /\ Tabled(idents') BY DEF EntriesKept, DataInv, DataOf
<1>5. /\ Going(label) /\ Wrote({}) /\ Done({}, New) /\ New \in Nat
      /\ Agree(nodes, nodes', DOMAIN nodes)
  BY <1>2, <1>3, <1>4, AddsOne
<1>6. Operand(nodes', ret)
  <2>1. Fits(nodes, "expr", ret) BY <1>5, Found
  <2>2. Operand(nodes, ret) /\ ret \in DOMAIN nodes BY <2>1 DEF Fits
  <2> QED BY <1>5, <2>2, AgreeKinds
<1>7. g \in Frame /\ g.at = at /\ g.node = New /\ g.left = ret /\ g.op = op
  <2>1. FrNode(at, New) \in Frame /\ FrNode(at, New).at = at /\ FrNode(at, New).node = New
    BY <1>1, <1>5, NodeInFrame
  <2>2. ret \in Nat BY <1>5, Given
  <2> QED BY <2>1, <2>2 DEF Frame
<1>8. Begun(nodes', at, nodes'[New])
  BY DEF Begun, IfPoints, FuncPoints, AggPoints, BlockPoints
<1>9. Half(nodes', g) BY <1>1, <1>6, <1>7, <1>8 DEF Half
<1> QED BY <1>1, <1>5, <1>7, <1>9, DataMore

(* The operands are stored together.                                       *)
LEMMA BothData ==
  ASSUME IInv, IInv', TreeInv, DataInv, NEW label \in {"LogicRhs", "FactorRhs"},
         Running(label), UNCHANGED <<idents, status>>,
         NEW nd \in Node, Update(nd), nd.kids = <<Top.left, ret>>, nd.kind = Here.kind,
         nd.name = Here.name, nd.op = Top.op, Return(Top.node)
  PROVE  DataInv'
<1>1. /\ label \in Building \cap Resumptions /\ KindsAt(label) = {"BINARY"}
      /\ Expects(label) = "expr" /\ Yields(label) = "expr"
  BY KindsBuilt, ExpectsTable, YieldsTable DEF Building, Resumptions
<1>2. Going(label)
  <2>1. Len(nodes) <= Len(nodes') BY <1>1, Updates
  <2> QED BY <2>1, GoesOn
<1>3. Here.kind = "BINARY" /\ Top.at = label BY <1>1, <1>2, Builds
<1>4. /\ Plain(idents, Here) /\ Half(nodes, Top) /\ Fits(nodes, "expr", ret)
  BY <1>1, <1>2, Found
<1>5. Plain(idents, nd) BY <1>3, <1>4, PlainOther DEF Plain
<1>6. /\ Wrote({Top.node})
      /\ Whole(nodes', nd) => Done({Top.node}, 0)
      /\ nodes'[Top.node] = nd /\ Top.node \in DOMAIN nodes'
      /\ Agree(nodes, nodes', {ret}) /\ Agree(nodes, nodes', {Top.left})
  BY <1>1, <1>5, UpdateData
<1>7. Expr(nodes', ret) /\ Expr(nodes', Top.left) /\ Top.op \in BinaryOp \ {"DECL"}
  <2>1. Operand(nodes, Top.left) /\ Top.op \in BinaryOp \ {"DECL"} BY <1>3, <1>4 DEF Half
  <2>2. Expr(nodes, ret) /\ Expr(nodes, Top.left) BY <1>4, <2>1 DEF Fits, Operand
  <2>3. ret \in {ret} /\ Top.left \in {Top.left} OBVIOUS
  <2> QED BY <1>6, <2>1, <2>2, <2>3, AgreeKinds
<1>8. nd.kids[1] = Top.left /\ nd.kids[2] = ret OBVIOUS
<1>9. Whole(nodes', nd) BY <1>3, <1>7, <1>8 DEF Whole, Aggregate
<1>10. Fits(nodes', Yields(label), Top.node) BY <1>1, <1>3, <1>6, DoneFits
<1> QED BY <1>2, <1>6, <1>9, <1>10, DataReturns

LEMMA LogicData ==
  ASSUME IInv, IInv', TreeInv, DataInv, LogicRest \/ LogicRhs \/ FactorRest \/ FactorRhs
  PROVE  DataInv'
<1>1. /\ {"LogicRest", "FactorRest"} \subseteq Resumptions \ Building
      /\ {"LogicRhs", "FactorRhs"} \subseteq Building \cap HoldingLeft \cap Resumptions
  BY DEF Resumptions, Building, HoldingLeft
<1>2. /\ \A at \in {"LogicRest", "FactorRest", "LogicRhs", "FactorRhs"} :
           Yields(at) = "expr" /\ Expects(at) = "expr"
      /\ Within("expr", "expr") /\ BareLinked(LogicCall, "expr") /\ Yields("Unary") = "expr"
  BY YieldsTable, ExpectsTable, BareLinkedCalls DEF Within
<1>3. CASE LogicRest
  <2>1. Running("LogicRest") /\ UNCHANGED <<idents, status>>
    BY <1>3 DEF LogicRest, Reads, Sees
  <2>2. CASE HandBack(ret)
    <3>1. UNCHANGED nodes /\ Return(ret) BY <2>2 DEF HandBack
    <3> QED BY <1>1, <1>2, <2>1, <3>1, HandBackData
  <2>3. ASSUME NEW op \in {"AND", "OR"}, Add(<<NewNode("BINARY")>>),
               Call(LogicCall \o <<[FrNode("LogicRhs", New) EXCEPT !.left = ret, !.op = op]>>)
        PROVE  DataInv'
    <3> DEFINE g == [FrNode("LogicRhs", New) EXCEPT !.left = ret, !.op = op]
    <3>1. op \in BinaryOp \ {"DECL"} BY DEF BinaryOp
    <3>2. Call(LogicCall \o <<g>>) BY <2>3
    <3>3. g = [FrNode("LogicRhs", New) EXCEPT !.left = ret, !.op = op] OBVIOUS
    <3> HIDE DEF g
    <3> QED BY <1>1, <1>2, <2>1, <2>3, <3>1, <3>2, <3>3, WaitsData
  <2> QED BY <1>3, <2>2, <2>3 DEF LogicRest
<1>4. CASE FactorRest
  <2>1. Running("FactorRest") /\ UNCHANGED <<idents, status>>
    BY <1>4 DEF FactorRest, Reads, Sees
  <2>2. CASE HandBack(ret)
    <3>1. UNCHANGED nodes /\ Return(ret) BY <2>2 DEF HandBack
    <3> QED BY <1>1, <1>2, <2>1, <3>1, HandBackData
  <2>3. ASSUME NEW op \in {"MULT", "DIV"}, Add(<<NewNode("BINARY")>>),
               Call(<<Fr("Unary"), [FrNode("FactorRhs", New) EXCEPT !.left = ret, !.op = op]>>)
        PROVE  DataInv'
    <3> DEFINE g == [FrNode("FactorRhs", New) EXCEPT !.left = ret, !.op = op]
    <3>1. op \in BinaryOp \ {"DECL"} BY DEF BinaryOp
    <3>2. Call(<<Fr("Unary"), g>>) BY <2>3
    <3>3. g \in Frame
      <4>1. New \in Nat /\ "FactorRhs" \in Building BY <1>1, NewIsNat
      <4>2. FrNode("FactorRhs", New) \in Frame BY <4>1, NodeInFrame
      <4>3. ret \in Nat BY DEF IInv, TypeOK
      <4> QED BY <3>1, <4>2, <4>3 DEF Frame
    <3>4. g = [FrNode("FactorRhs", New) EXCEPT !.left = ret, !.op = op] OBVIOUS
    <3> HIDE DEF g
    <3>5. Call(<<Fr("Unary")>> \o <<g>>) BY <3>2, <3>3, PairCall
    <3>6. BareLinked(<<Fr("Unary")>>, Expects("FactorRhs")) BY <1>2, BareLinkedOne
    <3> QED BY <1>1, <1>2, <2>1, <2>3, <3>1, <3>4, <3>5, <3>6, WaitsData
  <2> QED BY <1>4, <2>2, <2>3 DEF FactorRest
<1>5. ZeroType \in AstType BY DEF ZeroType, AstType, ValueType
<1>6. CASE LogicRhs
  <2> DEFINE nd == [Here EXCEPT !.kids = <<Top.left, ret>>, !.op = Top.op]
  <2>1. /\ Running("LogicRhs") /\ UNCHANGED <<idents, status>>
        /\ Update(nd) /\ Return(Top.node)
    BY <1>6 DEF LogicRhs, Resumes
  <2>2. Here \in Node /\ Top.left \in Nat /\ ret \in Nat /\ Top.op \in BinaryOp \cup {"NONE"}
    BY <1>1, <2>1, BuildingNode, TopFrame, SMTT(30) DEF Frame, IInv, TypeOK
  <2>3. nd \in Node BY <1>5, <2>2, BinaryNode
  <2>4. /\ nd.kids = <<Top.left, ret>> /\ nd.kind = Here.kind /\ nd.name = Here.name
        /\ nd.op = Top.op
    BY <2>2 DEF Node
  <2> HIDE DEF nd
  <2> QED BY <2>1, <2>3, <2>4, BothData
<1>7. CASE FactorRhs
  <2> DEFINE nd == [Here EXCEPT !.kids = <<Top.left, ret>>, !.op = Top.op, !.ev = nodes[Top.left].ev]
  <2>1. /\ Running("FactorRhs") /\ UNCHANGED <<idents, status>>
        /\ Update(nd) /\ Return(Top.node)
    BY <1>7 DEF FactorRhs, Resumes
  <2>2. /\ Here \in Node /\ ret \in Nat /\ Top.op \in BinaryOp \cup {"NONE"}
        /\ Top.left \in 1 .. Len(nodes)
    BY <1>1, <2>1, BuildingNode, TopFrame DEF Frame, FrameOK, IInv, TypeOK
  <2>3. nodes[Top.left].ev \in AstType /\ Top.left \in Nat
    BY <2>2, TypesOfLengths, SMTT(30) DEF Node
  <2>4. nd \in Node BY <2>2, <2>3, BinaryNode
  <2>5. /\ nd.kids = <<Top.left, ret>> /\ nd.kind = Here.kind /\ nd.name = Here.name
        /\ nd.op = Top.op
    BY <2>2 DEF Node
  <2> HIDE DEF nd
  <2> QED BY <2>1, <2>4, <2>5, BothData
<1> QED BY <1>3, <1>4, <1>6, <1>7

LEMMA ComparisonData ==
  ASSUME IInv, IInv', TreeInv, DataInv, CmpRest \/ CmpRhs
  PROVE  DataInv'
<1>1. /\ "BINARY" \in NodeKind /\ "CmpRest" \in Resumptions \ Building
      /\ "CmpRhs" \in (Building \cap Resumptions) \ {"LogicRhs", "FactorRhs", "TermRhs"}
  BY DEF NodeKind, ExpressionKind, Resumptions, Building
<1>2. /\ \A at \in {"CmpRest", "CmpRhs"} : Yields(at) = "expr" /\ Expects(at) = "expr"
      /\ Within("expr", "expr") /\ BareLinked(CmpCall, "expr")
  BY YieldsTable, ExpectsTable, BareLinkedCalls DEF Within
<1>3. CASE CmpRest
  <2>1. Running("CmpRest") /\ UNCHANGED <<idents, status>> BY <1>3 DEF CmpRest, Reads, Sees
  <2>2. CASE HandBack(ret)
    <3>1. UNCHANGED nodes /\ Return(ret) BY <2>2 DEF HandBack
    <3> QED BY <1>1, <1>2, <2>1, <3>1, HandBackData
  <2>3. ASSUME Kind(At) \in ComparisonTokens,
               Add(<<[NewNode("BINARY") EXCEPT !.ev = [value |-> "BOOL", ptr |-> FALSE],
                                               !.kids = <<ret, 0>>,
                                               !.op = OpOfComparison[Kind(At)]]>>),
               Call(CmpCall \o <<FrNode("CmpRhs", New)>>)
        PROVE  DataInv'
    <3> DEFINE nd == [NewNode("BINARY") EXCEPT !.ev = [value |-> "BOOL", ptr |-> FALSE],
                                               !.kids = <<ret, 0>>,
                                               !.op = OpOfComparison[Kind(At)]]
    <3>1. OpOfComparison[Kind(At)] \in BinaryOp \ {"DECL"}
      BY <2>3 DEF ComparisonTokens, OpOfComparison, BinaryOp
    <3>2. [value |-> "BOOL", ptr |-> FALSE] \in AstType BY DEF AstType, ValueType
    <3>3. ret \in Nat /\ 0 \in Nat BY SMTT(30) DEF IInv, TypeOK
    <3>4. nd \in Node BY <1>1, <3>1, <3>2, <3>3, NewNodeType, BinaryNode
    <3>5. /\ nd.kind = "BINARY" /\ nd.kids[1] = ret /\ nd.name = NoName
          /\ nd.op \in BinaryOp \ {"DECL"}
      <4>1. NewNode("BINARY") \in Node /\ NewNode("BINARY").kind = "BINARY"
            /\ NewNode("BINARY").name = NoName
        BY <1>1, NewNodeFields, NewNodeBegun
      <4> QED BY <3>1, <4>1 DEF Node
    <3>6. Add(<<nd>>) BY <2>3
    <3> HIDE DEF nd
    <3>7. Plain(idents', nd) BY <3>5, PlainOther
    <3>8. EntriesKept /\ Tabled(idents') BY <2>1 DEF EntriesKept, DataInv, DataOf
    <3>9. /\ Going("CmpRest") /\ Wrote({}) /\ Done({}, New) /\ New \in Nat
          /\ nodes'[New] = nd /\ Agree(nodes, nodes', DOMAIN nodes)
      BY <1>1, <2>1, <3>4, <3>6, <3>7, <3>8, AddsOne
    <3>10. Expr(nodes', ret)
      <4>1. Fits(nodes, "expr", ret) BY <1>1, <1>2, <3>9, Found
      <4>2. Expr(nodes, ret) /\ ret \in DOMAIN nodes BY <4>1 DEF Fits, Operand
      <4> QED BY <3>9, <4>2, AgreeKinds
    <3>11. Begun(nodes', "CmpRhs", nd)
      BY <3>5, <3>10 DEF Begun, IfPoints, FuncPoints, AggPoints, BlockPoints
    <3>12. /\ Half(nodes', FrNode("CmpRhs", New)) /\ FrNode("CmpRhs", New) \in Frame
           /\ FrNode("CmpRhs", New).at = "CmpRhs" /\ FrNode("CmpRhs", New).node = New
      BY <1>1, <3>9, <3>11, NodeHalf
    <3> QED BY <1>1, <1>2, <2>3, <3>9, <3>12, DataMore
  <2> QED BY <1>3, <2>2, <2>3 DEF CmpRest
<1>4. CASE CmpRhs BY <1>4, AttachedRight DEF CmpRhs
<1> QED BY <1>3, <1>4

(* A sum: folding two literals leaves a literal that may be folded again.  *)
LEMMA FoldedPlain ==
  ASSUME NEW table, NEW l \in Node, NEW r \in Node, Foldable(l), Foldable(r),
         l.kind = "LITERAL", r.kind = "LITERAL", NEW garbage,
         NEW nd, nd.kind = "LITERAL", nd.name = NoName, nd.type = l.type,
         nd.rep = FoldRep(l, r), nd.ev = BinaryEval(l.ev, r.ev, garbage)
  PROVE  Plain(table, nd) /\ Foldable(nd)
<1>1. nd.ev.value = "FLOAT" \/ (l.ev.value # "FLOAT" /\ r.ev.value # "FLOAT")
  BY DEF BinaryEval
<1>2. nd.type.value = "FLOAT" => nd.rep = "float" BY DEF FoldRep
<1>3. l.type.value = "FLOAT" => l.ev.value = "FLOAT" BY DEF Foldable
<1>4. r.type.value = "FLOAT" => r.ev.value = "FLOAT" BY DEF Foldable
<1>5. /\ l.rep # "int" => l.ev.value = "FLOAT"
      /\ r.rep # "int" => r.ev.value = "FLOAT"
  BY DEF Foldable
<1>6. nd.rep # "int" => nd.ev.value = "FLOAT"
  BY <1>1, <1>3, <1>4, <1>5 DEF FoldRep
<1>7. nd.type.value = "FLOAT" => nd.ev.value = "FLOAT" BY <1>1, <1>3
<1>8. Encoded(nd) BY <1>2, <1>6 DEF Encoded
<1> QED BY <1>6, <1>7, <1>8 DEF Plain, Named, Foldable

LEMMA TermData ==
  ASSUME IInv, IInv', TreeInv, DataInv, TermFirst \/ TermLoop \/ TermRhs
  PROVE  DataInv'
<1>1. /\ "BINARY" \in NodeKind /\ "TermFirst" \in Resumptions \ Building
      /\ "TermRhs" \in (Building \cap HoldingLeft \cap Resumptions)
      /\ "TermLoop" \in HoldingLeft \ (Building \cup Resumptions)
      /\ {"TermLoop", "TermRhs"} \subseteq Labels
  BY DEF NodeKind, ExpressionKind, Resumptions, Building, HoldingLeft, Labels
<1>2. /\ \A at \in {"TermFirst", "TermLoop", "TermRhs"} : Yields(at) = "expr"
      /\ Expects("TermFirst") = "expr" /\ Expects("TermRhs") = "expr"
      /\ Within("expr", "expr") /\ BareLinked(FactorCall, "expr")
      /\ KindsAt("TermRhs") = {"BINARY"}
  BY YieldsTable, ExpectsTable, BareLinkedCalls, KindsBuilt DEF Within
<1>3. CASE TermFirst
  <2> DEFINE fr == [Fr("TermLoop") EXCEPT !.left = ret, !.op = ChainOp]
  <2>1. /\ Running("TermFirst") /\ UNCHANGED <<idents, status>> /\ UNCHANGED nodes /\ Call(<<fr>>)
    BY <1>3 DEF TermFirst, Reads, Sees
  <2>2. Going("TermFirst") BY <2>1, GoesOnSame
  <2>3. Top.node = 0 /\ Fits(nodes, "expr", ret) BY <1>1, <1>2, <2>2, Found
  <2>4. Wrote({}) /\ Done({}, 0) BY <2>1, <2>2, <2>3, WroteNothing
  <2>5. Fr("TermLoop") \in Frame /\ Fr("TermLoop").at = "TermLoop" /\ Fr("TermLoop").node = 0
    <3>1. Fr("TermLoop") \in Frame /\ Blank(Fr("TermLoop")) /\ Fr("TermLoop").at = "TermLoop"
      BY <1>1, BareFrame
    <3> QED BY <3>1 DEF Blank
  <2>6. ChainOp \in BinaryOp \ {"DECL"} BY DEF ChainOp, BinaryOp
  <2>7. ret \in Nat BY <1>1, <2>2, Given
  <2>8. fr \in Frame /\ fr.at = "TermLoop" /\ fr.left = ret /\ fr.node = 0 /\ fr.op = ChainOp
    BY <2>5, <2>6, <2>7 DEF Frame
  <2> HIDE DEF fr
  <2>9. Half(nodes', fr) BY <1>1, <2>1, <2>3, <2>6, <2>8 DEF Half, Fits
  <2> QED BY <1>1, <1>2, <2>1, <2>2, <2>4, <2>8, <2>9, DataOne
<1>4. CASE TermLoop
  <2> DEFINE nd == [NewNode("BINARY") EXCEPT !.kids = <<Top.left, 0>>, !.op = Top.op]
             fr == [Top EXCEPT !.at = "TermRhs", !.node = New]
  <2>1. Running("TermLoop") /\ UNCHANGED <<idents, status>> BY <1>4 DEF TermLoop, Reads, Sees
  <2>2. Top \in Frame /\ Top.left \in 1 .. Len(nodes) BY <1>1, <2>1, TopFrame DEF FrameOK
  <2>3. ASSUME NEW label, Going(label), Top.at = "TermLoop"
        PROVE  Top.op \in BinaryOp \ {"DECL"} /\ Operand(nodes, Top.left)
    <3>1. Half(nodes, Top) BY <2>3, Found
    <3> QED BY <2>3, <3>1 DEF Half
  <2>4. Top.at = "TermLoop" BY <2>1 DEF Running
  <2>5. ASSUME Add(<<nd>>), Call(FactorCall \o <<fr>>) PROVE DataInv'
    <3>1. nd \in Node /\ nd.kind = "BINARY" /\ nd.kids[1] = Top.left /\ nd.name = NoName /\ nd.op = Top.op
      <4>1. ZeroType \in AstType BY DEF ZeroType, AstType, ValueType
      <4>2. Top.left \in Nat /\ 0 \in Nat /\ Top.op \in BinaryOp \cup {"NONE"} BY <2>2 DEF Frame
      <4>3. NewNode("BINARY") \in Node /\ NewNode("BINARY").kind = "BINARY"
            /\ NewNode("BINARY").name = NoName
        BY <1>1, NewNodeFields, NewNodeBegun
      <4>4. nd \in Node BY <4>1, <4>2, <4>3, BinaryNode
      <4> QED BY <4>3, <4>4 DEF Node
    <3>2. New \in Nat BY NewIsNat
    <3>3. fr \in Frame /\ fr.at = "TermRhs" /\ fr.node = New /\ fr.left = Top.left /\ fr.op = Top.op
      BY <1>1, <2>2, <3>2 DEF Frame
    <3> HIDE DEF fr, nd
    <3>4. Plain(idents', nd) BY <3>1, PlainOther
    <3>5. EntriesKept /\ Tabled(idents') BY <2>1 DEF EntriesKept, DataInv, DataOf
    <3>6. /\ Going("TermLoop") /\ Wrote({}) /\ Done({}, New)
          /\ nodes'[New] = nd /\ Agree(nodes, nodes', DOMAIN nodes)
      BY <1>1, <2>1, <2>5, <3>1, <3>4, <3>5, AddsOne
    <3>7. Top.op \in BinaryOp \ {"DECL"} /\ Operand(nodes, Top.left) BY <2>3, <2>4, <3>6
    <3>8. Operand(nodes', Top.left)
      <4>1. Top.left \in DOMAIN nodes BY <3>7 DEF Operand, Expr
      <4> QED BY <3>6, <3>7, <4>1, AgreeKinds
    <3>9. Begun(nodes', "TermRhs", nd)
      BY <3>1, <3>7, <3>8 DEF Begun, Operand, IfPoints, FuncPoints, AggPoints, BlockPoints
    <3>10. Half(nodes', fr) BY <1>1, <3>3, <3>6, <3>7, <3>8, <3>9 DEF Half
    <3> QED BY <1>1, <1>2, <2>5, <3>3, <3>6, <3>10, DataMore
  <2>6. CASE HandBack(Top.left)
    <3>1. UNCHANGED nodes /\ Return(Top.left) BY <2>6 DEF HandBack
    <3>2. Going("TermLoop") BY <2>1, <3>1, GoesOnSame
    <3>3. Top.node = 0 BY <1>1, <3>2, Found
    <3>4. Wrote({}) /\ Done({}, 0) BY <2>1, <3>1, <3>2, <3>3, WroteNothing
    <3>5. Operand(nodes, Top.left) BY <2>3, <2>4, <3>2
    <3>6. Fits(nodes', "expr", Top.left) BY <3>1, <3>5 DEF Fits, Operand, Expr
    <3> QED BY <1>2, <3>1, <3>2, <3>4, <3>6, DataReturns
  <2> QED BY <1>4, <2>5, <2>6 DEF TermLoop
<1>5. CASE TermRhs
  <2> DEFINE fr == [Top EXCEPT !.at = "TermLoop", !.node = 0, !.left = Top.node]
             l == nodes[Top.left]
             r == nodes[ret]
  <2>1. Running("TermRhs") /\ UNCHANGED <<idents, status>> /\ Call(<<fr>>)
    BY <1>5 DEF TermRhs, Resumes
  <2>2. /\ Top \in Frame /\ Top.left \in 1 .. Len(nodes) /\ Top.node \in 1 .. Len(nodes)
        /\ Here \in Node /\ l \in Node /\ r \in Node /\ ret \in Nat
    BY <1>1, <2>1, TopFrame, BuildingNode, TypesOfLengths DEF FrameOK, IInv, TypeOK
  <2>3. PICK garbage \in BOOLEAN :
          Update(Fold([WithKid(Here, 2, ret) EXCEPT !.ev = BinaryEval(l.ev, r.ev, garbage)], l, r))
    BY <1>5 DEF TermRhs
  <2> DEFINE bin == [WithKid(Here, 2, ret) EXCEPT !.ev = BinaryEval(l.ev, r.ev, garbage)]
             nd == Fold(bin, l, r)
  <2>4. BinaryEval(l.ev, r.ev, garbage) \in AstType BY <2>2, BinaryEvalType DEF Node
  <2>5. WithKid(Here, 2, ret) \in Node /\ WithKid(Here, 2, ret).kind = Here.kind
        /\ WithKid(Here, 2, ret).name = Here.name /\ WithKid(Here, 2, ret).op = Here.op
    <3>1. WithKid(Here, 2, ret) \in Node /\ WithKid(Here, 2, ret).kind = Here.kind
      BY <2>2, WithKidFields
    <3> QED BY <2>2, <3>1 DEF WithKid, Node
  <2>6. /\ bin \in Node /\ bin.kids = WithKid(Here, 2, ret).kids /\ bin.kind = Here.kind
        /\ bin.name = Here.name /\ bin.op = Here.op /\ bin.ev = BinaryEval(l.ev, r.ev, garbage)
    BY <2>4, <2>5 DEF Node
  <2>7. Update(nd) BY <2>3
  <2> HIDE DEF bin
  <2>8. nd \in Node BY <2>2, <2>6, FoldType
  <2>9. \/ nd = bin
        \/ /\ l.kind = "LITERAL" /\ r.kind = "LITERAL"
           /\ nd.kind = "LITERAL" /\ nd.name = bin.name /\ nd.type = l.type
           /\ nd.rep = FoldRep(l, r) /\ nd.ev = bin.ev
    BY <2>6 DEF Fold, Node
  <2> HIDE DEF nd
  <2>10. Going("TermRhs")
    <3>1. Len(nodes) <= Len(nodes') BY <1>1, <2>1, <2>7, <2>8, Updates
    <3> QED BY <2>1, <3>1, GoesOn
  <2>11. Top.op \in BinaryOp \ {"DECL"} /\ Operand(nodes, Top.left)
    <3>1. Half(nodes, Top) BY <2>10, Found
    <3> QED BY <2>1, <3>1 DEF Half, Running
  <2>12. Operand(nodes, ret) BY <1>1, <1>2, <2>10, Found DEF Fits
  <2>13. /\ Here.kind = "BINARY" /\ Sized(Here) /\ Here.name = NoName
         /\ Begun(nodes, "TermRhs", Here)
    <3>1. Here.kind = "BINARY" /\ Sized(Here) BY <1>1, <1>2, <2>10, Builds
    <3>2. Begun(nodes, "TermRhs", Here) /\ Plain(idents, Here) BY <1>1, <2>10, Found
    <3> QED BY <3>1, <3>2 DEF Plain
  <2>14. fr \in Frame /\ fr.at = "TermLoop" /\ fr.left = Top.node /\ fr.node = 0 /\ fr.op = Top.op
    BY <1>1, <2>2 DEF Frame
  <2> HIDE DEF fr
  <2>15. /\ Wrote({Top.node})
         /\ Done({Top.node}, 0)
         /\ nodes'[Top.node] = nd /\ Top.node \in DOMAIN nodes'
         /\ nd.kind \in {"BINARY", "LITERAL"} /\ Foldable(nd)
    <3>1. CASE nd = bin
      <4>1. 1 \in DOMAIN Here.kids /\ 2 \in DOMAIN Here.kids BY <2>2, <2>13, Places
      <4>2. /\ Wrote({Top.node})
            /\ Whole(nodes', nd) => Done({Top.node}, 0)
            /\ nodes'[Top.node] = nd /\ Top.node \in DOMAIN nodes'
            /\ nd.kids[2] = ret /\ Fits(nodes', Expects("TermRhs"), ret)
            /\ \A k \in DOMAIN Here.kids \ {2} :
                 /\ nd.kids[k] = Here.kids[k]
                 /\ Expr(nodes, Here.kids[k]) => Expr(nodes', Here.kids[k])
        <5>1. /\ "TermRhs" \in Building \cap Resumptions
              /\ nd.kids = WithKid(Here, 2, ret).kids /\ nd.kind = Here.kind
              /\ nd.name = Here.name
          BY <1>1, <2>6, <3>1
        <5> HIDE DEF l, r
        <5> QED BY <2>1, <2>7, <2>8, <4>1, <5>1, KidGiven
      <4>3. Expr(nodes', nd.kids[2]) BY <1>2, <4>2 DEF Fits, Operand
      <4>4. Here.op \in BinaryOp \ {"DECL"} /\ Expr(nodes, Here.kids[1]) BY <2>13 DEF Begun
      <4>5. Expr(nodes', nd.kids[1]) BY <4>1, <4>2, <4>4
      <4>6. nd.kind = "BINARY" /\ nd.op \in BinaryOp \ {"DECL"} BY <2>6, <2>13, <3>1, <4>4
      <4>7. Whole(nodes', nd) BY <4>3, <4>5, <4>6 DEF Whole, Aggregate
      <4> QED BY <4>2, <4>6, <4>7 DEF Foldable
    <3>2. CASE nd # bin
      <4>1. /\ l.kind = "LITERAL" /\ r.kind = "LITERAL"
            /\ nd.kind = "LITERAL" /\ nd.name = NoName /\ nd.type = l.type
            /\ nd.rep = FoldRep(l, r) /\ nd.ev = BinaryEval(l.ev, r.ev, garbage)
        BY <2>6, <2>9, <2>13, <3>2
      <4>2. Foldable(l) /\ Foldable(r) BY <2>11, <2>12 DEF Operand
      <4> HIDE DEF l, r
      <4>3. Plain(idents, nd) /\ Foldable(nd) BY <2>2, <4>1, <4>2, FoldedPlain
      <4>4. Whole(nodes', nd) BY <4>1 DEF Whole, Aggregate
      <4>5. /\ Wrote({Top.node})
            /\ Whole(nodes', nd) => Done({Top.node}, 0)
            /\ nodes'[Top.node] = nd /\ Top.node \in DOMAIN nodes'
        BY <1>1, <2>1, <2>7, <2>8, <4>3, UpdateData
      <4> QED BY <4>1, <4>3, <4>4, <4>5
    <3> QED BY <3>1, <3>2
  <2>16. Operand(nodes', Top.node) BY <2>15 DEF Operand, Expr, ExpressionKind
  <2>17. Half(nodes', fr) BY <1>1, <2>11, <2>14, <2>16 DEF Half
  <2> QED BY <1>1, <1>2, <2>1, <2>10, <2>14, <2>15, <2>17, DataOne
<1> QED BY <1>3, <1>4, <1>5

(* -x is 0 - x, and the 0 gets x's type when x is there.                   *)
LEMMA UnaryData ==
  ASSUME IInv, IInv', TreeInv, DataInv, Unary \/ NegRhs \/ NotRhs
  PROVE  DataInv'
<1>1. /\ {"BINARY", "LITERAL", "UNARY"} \subseteq NodeKind
      /\ {"NegRhs", "NotRhs"} \subseteq (Building \cap Resumptions) \ {"LogicRhs", "FactorRhs", "TermRhs"}
      /\ "NegRhs" \in HoldingLeft /\ "Unary" \notin Building
  BY DEF NodeKind, ExpressionKind, Resumptions, Building, HoldingLeft
<1>2. /\ \A at \in {"Unary", "NegRhs", "NotRhs", "Deref"} : Yields(at) = "expr"
      /\ Expects("NegRhs") = "expr" /\ Expects("NotRhs") = "expr" /\ Within("expr", "expr")
      /\ KindsAt("NegRhs") = {"BINARY"} /\ KindsAt("NotRhs") = {"UNARY"}
  BY YieldsTable, ExpectsTable, KindsBuilt DEF Within
<1>3. BareLinked(<<Fr("Deref")>>, "expr") BY <1>2, BareLinkedOne
<1>4. CASE Unary
  <2>1. Running("Unary") /\ UNCHANGED <<idents, status>> BY <1>4 DEF Unary, Reads, Sees
  <2>2. ASSUME Add(<<NewNode("BINARY"), NewNode("LITERAL")>>),
               Call(<<Fr("Deref"), [FrNode("NegRhs", New) EXCEPT !.left = New + 1]>>)
        PROVE  DataInv'
    <3> DEFINE g == [FrNode("NegRhs", New) EXCEPT !.left = New + 1]
    <3>1. /\ NewNode("BINARY") \in Node /\ NewNode("BINARY").kind = "BINARY"
          /\ NewNode("LITERAL") \in Node /\ NewNode("LITERAL").kind = "LITERAL"
          /\ NewNode("BINARY").name = NoName /\ NewNode("LITERAL").name = NoName
      BY <1>1, NewNodeFields, NewNodeBegun
    <3>2. NewNode("LITERAL").type = ZeroType /\ NewNode("LITERAL").rep = "int" BY DEF NewNode
    <3>3. Plain(idents', NewNode("BINARY")) BY <3>1, PlainOther
    <3>4. Plain(idents', NewNode("LITERAL"))
      BY <3>1, <3>2 DEF Plain, Named, Encoded, ZeroType
    <3>5. EntriesKept /\ Tabled(idents') BY <2>1 DEF EntriesKept, DataInv, DataOf
    <3>6. Whole(nodes', NewNode("LITERAL")) BY <3>1 DEF Whole, Aggregate
    <3>7. Going("Unary") /\ Wrote({}) /\ Done({}, New) /\ New \in Nat
      BY <1>1, <2>1, <2>2, <3>1, <3>3, <3>4, <3>5, <3>6, AddsTwo
    <3>8. g \in Frame /\ g.at = "NegRhs" /\ g.node = New
      <4>1. /\ FrNode("NegRhs", New) \in Frame /\ FrNode("NegRhs", New).at = "NegRhs"
            /\ FrNode("NegRhs", New).node = New
        BY <1>1, <3>7, NodeInFrame
      <4> QED BY <3>7, <4>1 DEF Frame
    <3>9. Call(<<Fr("Deref"), g>>) BY <2>2
    <3> HIDE DEF g
    <3>10. Half(nodes', g)
      BY <1>1, <3>8 DEF Half, Begun, IfPoints, FuncPoints, AggPoints, BlockPoints
    <3>11. Call(<<Fr("Deref")>> \o <<g>>) BY <3>8, <3>9, PairCall
    <3> QED BY <1>1, <1>2, <1>3, <3>7, <3>8, <3>10, <3>11, DataMore
  <2>3. ASSUME Add(<<NewNode("UNARY")>>), Call(<<Fr("Deref"), FrNode("NotRhs", New)>>)
        PROVE  DataInv'
    <3>1. /\ NewNode("UNARY") \in Node /\ NewNode("UNARY").kind = "UNARY"
          /\ Begun(nodes', "NotRhs", NewNode("UNARY"))
      BY <1>1, NewNodeFields, NewNodeBegun
    <3>2. /\ Going("Unary") /\ Wrote({}) /\ Done({}, New)
          /\ Half(nodes', FrNode("NotRhs", New)) /\ FrNode("NotRhs", New) \in Frame
          /\ FrNode("NotRhs", New).at = "NotRhs" /\ FrNode("NotRhs", New).node = New
      BY <1>1, <2>1, <2>3, <3>1, BuildData
    <3>3. Call(<<Fr("Deref")>> \o <<FrNode("NotRhs", New)>>) BY <2>3, <3>2, PairCall
    <3> QED BY <1>1, <1>2, <1>3, <3>2, <3>3, DataMore
  <2>4. CASE HandOn(<<Fr("Deref")>>) BY <1>1, <1>2, <1>3, <2>1, <2>4, HandOnData
  <2> QED BY <1>4, <2>2, <2>3, <2>4 DEF Unary
<1>5. CASE NegRhs
  <2> DEFINE ev == nodes[ret].ev
             minus == [Here EXCEPT !.kids = <<Top.left, ret>>, !.op = "SUB", !.ev = ev]
             zero == [nodes[Top.left] EXCEPT
                        !.type = [value |-> ev.value, ptr |-> FALSE],
                        !.rep = IF ev.value = "FLOAT" THEN "float" ELSE "int"]
  <2>1. /\ Running("NegRhs") /\ UNCHANGED <<idents, status>>
        /\ nodes' = [nodes EXCEPT ![Top.node] = minus, ![Top.left] = zero] /\ Return(Top.node)
    BY <1>5 DEF NegRhs, Resumes
  <2>2. /\ Top.left \in 1 .. Len(nodes) /\ Top.node \in 1 .. Len(nodes)
        /\ Here \in Node /\ ret \in Nat /\ nodes \in Seq(Node)
    BY <1>1, <2>1, TopFrame, BuildingNode, TypesOfLengths, SMTT(30) DEF FrameOK, IInv, TypeOK
  <2>3. nodes[Top.left] \in Node BY <2>2, ElementOfSeq
  <2>4. minus.kids = <<Top.left, ret>> /\ minus.kind = Here.kind /\ minus.name = Here.name
        /\ minus.op = "SUB"
    BY <2>2 DEF Node
  <2>5. /\ zero.kind = nodes[Top.left].kind /\ zero.name = nodes[Top.left].name
        /\ zero.type.value = "FLOAT" => zero.rep = "float"
        /\ zero.rep # "int" => zero.type.value = "FLOAT"
    BY <2>3 DEF Node
  <2> HIDE DEF minus, zero, ev
  <2>6. DOMAIN nodes = 1 .. Len(nodes) /\ DOMAIN nodes' = DOMAIN nodes
    BY <2>1, <2>2, LenProperties
  <2>7. Going("NegRhs")
    <3>1. Len(nodes') = Len(nodes) BY <2>2, <2>6, LenProperties DEF IInv, TypeOK
    <3>2. Len(nodes) <= Len(nodes') BY <2>2, <3>1, LenProperties
    <3> QED BY <2>1, <3>2, GoesOn
  <2>8. /\ Here.kind = "BINARY" /\ Top.node \in Free /\ Top.node # 0 /\ Top.at = "NegRhs"
    BY <1>1, <1>2, <2>7, Builds
  <2>9. Top.left # 0 /\ Top.left \in Free /\ Top.node # Top.left
    <3>1. Top.left # 0 BY <2>2
    <3> QED BY <2>7, <2>8, <3>1, Around
  <2>10. /\ nodes'[Top.node] = minus /\ nodes'[Top.left] = zero /\ Fresh = {}
         /\ \A i \in DOMAIN nodes \ {Top.node, Top.left} : nodes'[i] = nodes[i]
    BY <2>1, <2>2, <2>6, <2>9 DEF Fresh
  <2>11. ret # Top.node /\ ret # Top.left /\ ret \in DOMAIN nodes
    <3>1. Top.node \in Grasp(nodes, Top) /\ Top.left \in Grasp(nodes, Top)
      BY <2>8, <2>9 DEF Grasp
    <3> QED BY <1>1, <2>7, <3>1, Given
  <2>12. nodes[Top.left].kind = "LITERAL" /\ nodes[Top.left].name = NoName
    <3>1. Suits(nodes, Top)
      <4>1. stack \in Seq(Frame) /\ stack # <<>> BY <2>1 DEF IInv, TypeOK, Running
      <4>2. Top = stack[1] /\ 1 \in DOMAIN stack BY <4>1, LenProperties, EmptySeq DEF Top
      <4> QED BY <2>7, <4>2 DEF Going, TreeInv, TreeOf
    <3>2. nodes[Top.left].kind = "LITERAL" BY <2>8, <3>1 DEF Suits
    <3>3. Plain(idents, nodes[Top.left]) BY <2>2, <2>6, <2>7, Found
    <3> QED BY <3>2, <3>3 DEF Plain
  <2>13. Expr(nodes', ret) /\ Expr(nodes', Top.left)
    <3>1. Expr(nodes, ret) BY <1>1, <1>2, <2>7, Found DEF Fits, Operand
    <3>2. nodes'[ret] = nodes[ret] BY <2>10, <2>11
    <3> QED BY <2>2, <2>5, <2>6, <2>10, <2>12, <3>1, <3>2 DEF Expr, ExpressionKind
  <2>14. minus.kids[1] = Top.left /\ minus.kids[2] = ret BY <2>4
  <2>15. Whole(nodes', minus)
    <3>1. "SUB" \in BinaryOp /\ "SUB" # "DECL" BY DEF BinaryOp
    <3> QED BY <2>4, <2>8, <2>13, <2>14, <3>1 DEF Whole, Aggregate
  <2>16. Whole(nodes', zero) BY <2>5, <2>12 DEF Whole, Aggregate
  <2>17. Plain(idents, minus)
    <3>1. Plain(idents, Here) BY <1>1, <2>7, Found
    <3>2. minus.kind = "BINARY" /\ minus.name = NoName BY <2>4, <2>8, <3>1 DEF Plain
    <3> QED BY <3>2, PlainOther
  <2>18. Plain(idents, zero) BY <2>5, <2>12 DEF Plain, Named, Encoded
  <2>19. Wrote({Top.node, Top.left})
    <3>1. EntriesKept /\ Tabled(idents') BY <2>1 DEF EntriesKept, DataInv, DataOf
    <3> QED BY <2>1, <2>8, <2>9, <2>10, <2>17, <2>18, <3>1 DEF Wrote
  <2>20. Done({Top.node, Top.left}, 0) BY <2>10, <2>15, <2>16 DEF Done
  <2>21. Fits(nodes', Yields("NegRhs"), Top.node) BY <1>2, <2>2, <2>4, <2>6, <2>8, <2>10, DoneFits
  <2> QED BY <2>1, <2>7, <2>19, <2>20, <2>21, DataReturns
<1>6. CASE NotRhs
  <2> DEFINE nd == [Here EXCEPT !.kids = <<ret>>, !.op = "NEGATE", !.ev = nodes[ret].ev]
  <2>1. Running("NotRhs") /\ UNCHANGED <<idents, status>> /\ Update(nd) /\ Return(Top.node)
    BY <1>6 DEF NotRhs, Resumes
  <2>2. Here \in Node /\ nodes[ret] \in Node /\ ret \in Nat
    BY <1>1, <2>1, TopFrame, BuildingNode DEF IInv, TypeOK
  <2>3. <<ret>> \in Seq(Nat) /\ nodes[ret].ev \in AstType BY <2>2 DEF Node
  <2>4. nd \in Node BY <2>2, <2>3 DEF Node, UnaryOp
  <2>5. nd.kids[1] = ret /\ nd.kind = Here.kind /\ nd.op = "NEGATE" BY <2>2 DEF Node
  <2> HIDE DEF nd
  <2>6. Going("NotRhs")
    <3>1. Len(nodes) <= Len(nodes') BY <1>1, <2>1, <2>4, Updates
    <3> QED BY <2>1, <3>1, GoesOn
  <2>7. Here.kind = "UNARY" BY <1>1, <1>2, <2>6, Builds
  <2>8. Plain(idents, nd) BY <2>5, <2>7, PlainOther
  <2>9. /\ Wrote({Top.node})
        /\ Whole(nodes', nd) => Done({Top.node}, 0)
        /\ nodes'[Top.node] = nd /\ Top.node \in DOMAIN nodes'
        /\ Agree(nodes, nodes', {ret})
    BY <1>1, <2>1, <2>4, <2>8, UpdateData
  <2>10. Expr(nodes', ret)
    <3>1. Expr(nodes, ret) BY <1>1, <1>2, <2>6, Found DEF Fits, Operand
    <3>2. ret \in {ret} OBVIOUS
    <3> QED BY <2>9, <3>1, <3>2, AgreeKinds
  <2>11. Whole(nodes', nd) BY <2>5, <2>7, <2>10 DEF Whole, Aggregate, Pointed, UnaryOp
  <2>12. Fits(nodes', Yields("NotRhs"), Top.node) BY <1>2, <2>5, <2>7, <2>9, DoneFits
  <2> QED BY <2>1, <2>6, <2>9, <2>11, <2>12, DataReturns
<1> QED BY <1>4, <1>5, <1>6

(* What * and & are applied to is asserted when the operand is there.      *)
LEMMA PointerData ==
  ASSUME IInv, IInv', TreeInv, DataInv, Deref \/ DerefArg \/ Ref \/ RefArg
  PROVE  DataInv'
<1>1. /\ {"DerefArg", "RefArg"} \subseteq (Building \cap Resumptions) \ {"LogicRhs", "FactorRhs", "TermRhs"}
      /\ "UNARY" \in NodeKind /\ "Deref" \notin Building /\ "Ref" \notin Building
      /\ "DEREF" \in UnaryOp /\ "GET_PTR" \in UnaryOp
  BY DEF Building, Resumptions, NodeKind, ExpressionKind, UnaryOp
<1>2. /\ Yields("Deref") = "expr" /\ Yields("DerefArg") = "expr"
      /\ Yields("Ref") = "ref" /\ Yields("RefArg") = "ref" /\ Yields("Literal") = "lit"
      /\ Expects("DerefArg") = "ref" /\ Expects("RefArg") = "lit"
      /\ Within("expr", "expr") /\ Within("ref", "ref") /\ Within("ref", "expr")
      /\ Within("lit", "lit") /\ Within("lit", "ref")
      /\ KindsAt("DerefArg") = {"UNARY"} /\ KindsAt("RefArg") = {"UNARY"}
  BY YieldsTable, ExpectsTable, KindsBuilt DEF Within
<1>3. /\ BareLinked(<<Fr("Ref")>>, "ref") /\ BareLinked(<<Fr("Ref")>>, "expr")
      /\ BareLinked(<<Fr("Literal")>>, "lit") /\ BareLinked(<<Fr("Literal")>>, "ref")
  BY <1>2, BareLinkedOne
<1>4. ASSUME NEW label, label \notin Building, Running(label), UNCHANGED <<idents, status>>,
             NEW op \in UnaryOp, NEW at \in {"DerefArg", "RefArg"},
             at = "DerefArg" => op = "DEREF", at = "RefArg" => op = "GET_PTR",
             Within(Yields(at), Yields(label)),
             NEW callee \in {"Ref", "Literal"}, BareLinked(<<Fr(callee)>>, Expects(at)),
             Add(<<[NewNode("UNARY") EXCEPT !.op = op]>>), Call(<<Fr(callee), FrNode(at, New)>>)
      PROVE  DataInv'
  <2> DEFINE nd == [NewNode("UNARY") EXCEPT !.op = op]
  <2>1. NewNode("UNARY") \in Node /\ NewNode("UNARY").kind = "UNARY" BY <1>1, NewNodeFields
  <2>2. NewNode("UNARY").ev = ZeroType BY DEF NewNode
  <2>3. nd \in Node /\ nd.kind = "UNARY" /\ nd.op = op /\ nd.ev = ZeroType
    BY <2>1, <2>2 DEF Node
  <2>4. Add(<<nd>>) BY <1>4
  <2> HIDE DEF nd
  <2>5. Begun(nodes', at, nd)
    BY <1>4, <2>3 DEF Begun, ZeroType, IfPoints, FuncPoints, AggPoints, BlockPoints
  <2>6. /\ Going(label) /\ Wrote({}) /\ Done({}, New)
        /\ Half(nodes', FrNode(at, New)) /\ FrNode(at, New) \in Frame
        /\ FrNode(at, New).at = at /\ FrNode(at, New).node = New
    BY <1>1, <1>4, <2>3, <2>4, <2>5, BuildData
  <2>7. Call(<<Fr(callee)>> \o <<FrNode(at, New)>>) BY <1>4, <2>6, PairCall
  <2> QED BY <1>1, <1>4, <2>6, <2>7, DataMore
<1>5. CASE Deref
  <2>1. Running("Deref") /\ UNCHANGED <<idents, status>> BY <1>5 DEF Deref, Reads, Sees
  <2>2. CASE HandOn(<<Fr("Ref")>>) BY <1>1, <1>2, <1>3, <2>1, <2>2, HandOnData
  <2>3. CASE Add(<<[NewNode("UNARY") EXCEPT !.op = "DEREF"]>>) /\ Call(<<Fr("Ref"), FrNode("DerefArg", New)>>)
    BY <1>1, <1>2, <1>3, <1>4, <2>1, <2>3
  <2> QED BY <1>5, <2>2, <2>3 DEF Deref
<1>6. CASE Ref
  <2>1. Running("Ref") /\ UNCHANGED <<idents, status>> BY <1>6 DEF Ref, Reads, Sees
  <2>2. CASE HandOn(<<Fr("Literal")>>) BY <1>1, <1>2, <1>3, <2>1, <2>2, HandOnData
  <2>3. CASE Add(<<[NewNode("UNARY") EXCEPT !.op = "GET_PTR"]>>) /\ Call(<<Fr("Literal"), FrNode("RefArg", New)>>)
    BY <1>1, <1>2, <1>3, <1>4, <2>1, <2>3
  <2> QED BY <1>6, <2>2, <2>3 DEF Ref
<1>7. ASSUME NEW at \in {"DerefArg", "RefArg"}, Attach(at, 1),
             at = "DerefArg" => nodes[ret].ev.ptr, at = "RefArg" => ~nodes[ret].ev.ptr
      PROVE  DataInv'
  <2> DEFINE nd == WithKid(Here, 1, ret)
  <2>1. /\ Running(at) /\ UNCHANGED <<idents, status>> /\ Update(nd) /\ Return(Top.node)
    BY <1>7 DEF Attach, Resumes
  <2>2. Here \in Node /\ ret \in Nat BY <1>1, <2>1, BuildingNode DEF IInv, TypeOK
  <2>3. /\ nd \in Node /\ nd.kind = Here.kind /\ nd.name = Here.name /\ nd.op = Here.op
        /\ nd.ev = Here.ev
    <3>1. nd \in Node /\ nd.kind = Here.kind BY <2>2, WithKidFields
    <3> QED BY <2>2, <3>1 DEF WithKid, Node
  <2>4. nd.kids = WithKid(Here, 1, ret).kids OBVIOUS
  <2> HIDE DEF nd
  <2>5. Going(at)
    <3>1. Len(nodes) <= Len(nodes') BY <1>1, <2>1, <2>3, Updates
    <3> QED BY <2>1, <3>1, GoesOn
  <2>6. Here.kind = "UNARY" /\ Sized(Here) BY <1>1, <1>2, <2>5, Builds
  <2>7. 1 \in DOMAIN Here.kids BY <2>2, <2>6, Places
  <2>8. Begun(nodes, at, Here) BY <1>1, <2>5, Found
  <2>9. /\ nodes'[Top.node] = nd /\ Top.node \in DOMAIN nodes'
        /\ nd.kids[1] = ret /\ Fits(nodes', Expects(at), ret) /\ nodes'[ret] = nodes[ret]
    BY <1>1, <2>1, <2>3, <2>4, <2>7, KidGiven
  <2>10. Expr(nodes', ret) BY <1>2, <2>9 DEF Fits, Operand
  <2>11. /\ at = "DerefArg" => nd.op = "DEREF"
         /\ at = "RefArg" => nd.op = "GET_PTR" /\ ~nd.ev.ptr
    BY <2>3, <2>8 DEF Begun
  <2>12. Pointed(nodes', nd)
    <3>1. CASE at = "DerefArg"
      <4>1. nodes'[ret].kind = "IDENTIFIER" /\ nodes'[ret].type.ptr
        BY <1>2, <1>7, <2>9, <3>1 DEF Fits
      <4> QED BY <2>9, <2>10, <2>11, <3>1, <4>1 DEF Pointed, NameAt, Expr
    <3>2. CASE at = "RefArg"
      <4>1. \/ nodes'[ret].kind = "LITERAL"
            \/ nodes'[ret].kind = "IDENTIFIER" /\ ~nodes'[ret].type.ptr
        BY <1>2, <1>7, <2>9, <3>2 DEF Fits
      <4> QED BY <2>9, <2>10, <2>11, <3>2, <4>1 DEF Pointed, NameAt, Expr
    <3> QED BY <3>1, <3>2
  <2>13. Whole(nodes', nd)
    <3>1. nd.op \in UnaryOp BY <1>1, <2>11
    <3> QED BY <2>3, <2>6, <2>9, <2>10, <2>12, <3>1 DEF Whole, Aggregate
  <2>14. Fits(nodes', Yields(at), Top.node) BY <1>2, <2>3, <2>6, <2>9, <2>11, DoneFits
  <2> QED BY <1>1, <2>1, <2>3, <2>4, <2>7, <2>13, <2>14, ReturnsKid
<1>8. CASE DerefArg BY <1>7, <1>8 DEF DerefArg
<1>9. CASE RefArg BY <1>7, <1>9 DEF RefArg
<1> QED BY <1>5, <1>6, <1>8, <1>9

(* A literal, or a name with the entry the table has or is given for it.   *)
LEMMA LiteralData ==
  ASSUME IInv, IInv', TreeInv, DataInv, Literal
  PROVE  DataInv'
<1>1. Running("Literal") /\ UNCHANGED status /\ "Literal" \notin Building
  BY DEF Literal, Sees, Building
<1>2. /\ NewNode("LITERAL") \in Node /\ NewNode("IDENTIFIER") \in Node
      /\ NewNode("LITERAL").kind = "LITERAL" /\ NewNode("IDENTIFIER").kind = "IDENTIFIER"
      /\ NewNode("LITERAL").name = NoName
  BY NewNodeFields, NewNodeBegun DEF NodeKind, ExpressionKind
<1>3. Yields("Literal") = "lit" BY YieldsTable
<1>4. ASSUME Kind(At) \in LiteralTokens, Add(<<LiteralNode(At)>>), UNCHANGED idents, Return(New)
      PROVE  DataInv'
  <2> DEFINE ty == [value |-> TypeOfLiteral[Kind(At)], ptr |-> FALSE]
             rp == IF Kind(At) = "T_FLOAT" THEN "float" ELSE "int"
  <2>1. ty \in AstType /\ (ty.value = "FLOAT" <=> rp = "float") /\ ~ty.ptr
    <3>1. /\ TypeOfLiteral[Kind(At)] \in ValueType
          /\ TypeOfLiteral[Kind(At)] = "FLOAT" <=> Kind(At) = "T_FLOAT"
      BY <1>4 DEF LiteralTokens, TypeOfLiteral, ValueType
    <3> QED BY <3>1 DEF AstType
  <2>2. rp \in Encoding /\ rp \in {"float", "int"} BY DEF Encoding
  <2>3. LiteralNode(At) = [NewNode("LITERAL") EXCEPT !.type = ty, !.ev = ty, !.rep = rp]
    BY Zenon DEF LiteralNode
  <2> HIDE DEF ty, rp
  <2>4. PICK nd : nd = LiteralNode(At) OBVIOUS
  <2>5. /\ nd \in Node /\ nd.kind = "LITERAL" /\ nd.type = ty /\ nd.ev = ty /\ nd.rep = rp
        /\ nd.name = NoName
    BY <1>2, <2>1, <2>2, <2>3, <2>4 DEF Node
  <2>6. Plain(idents', nd) /\ Foldable(nd)
    BY <2>1, <2>2, <2>5 DEF Plain, Named, Encoded, Foldable
  <2>7. EntriesKept /\ Tabled(idents') BY <1>4 DEF EntriesKept, DataInv, DataOf
  <2>8. Whole(nodes', nd) BY <2>5 DEF Whole, Aggregate
  <2>9. Add(<<nd>>) BY <1>4, <2>4
  <2>10. /\ Going("Literal") /\ Wrote({}) /\ Done({}, 0)
         /\ nodes'[New] = nd /\ New \in DOMAIN nodes'
    BY <1>1, <2>5, <2>6, <2>7, <2>8, <2>9, AddsOne
  <2>11. Fits(nodes', "lit", New)
    BY <2>1, <2>5, <2>6, <2>10 DEF Fits, Operand, Expr, ExpressionKind
  <2> QED BY <1>3, <1>4, <2>10, <2>11, DataReturns
<1>5. ASSUME idents' = Accessed(idents, Lexeme(At)),
             Add(<<NewNode("LITERAL"), IdentifierNode(idents'[Lexeme(At)])>>), Return(New + 1)
      PROVE  DataInv'
  <2>1. PICK z : z = Lexeme(At) OBVIOUS
  <2>2. idents' = Emplace(idents, z, ZeroIdentifier) BY <1>5, <2>1 DEF Accessed
  <2>3. Tabled(idents) BY DEF DataInv, DataOf
  <2>4. EntriesKept /\ Tabled(idents') BY <2>2, <2>3, TabledEmplace, EntriesEmplaced
  <2>5. idents' \in [DOMAIN idents' -> AstIdentifier] /\ DOMAIN idents' \subseteq Name
    BY DEF IInv, TypeOK
  <2>6. z \in DOMAIN idents' BY <2>2 DEF Emplace
  <2>7. PICK nd : nd = IdentifierNode(idents'[z]) OBVIOUS
  <2>8. /\ nd \in Node /\ nd.kind = "IDENTIFIER" /\ nd.name = idents'[z].name
        /\ nd.type = idents'[z].type /\ nd.ev = idents'[z].type
    <3>1. idents'[z] \in AstIdentifier BY <2>5, <2>6
    <3>2. PICK entry \in AstIdentifier : entry = idents'[z] BY <3>1
    <3> QED BY <1>2, <2>7, <3>2 DEF IdentifierNode, AstIdentifier, Node
  <2>9. Named(idents', nd) BY <2>4, <2>5, <2>6, <2>8, NamedEntry
  <2>10. Plain(idents', nd) /\ Foldable(nd) /\ Whole(nodes', nd)
    BY <2>8, <2>9 DEF Plain, Encoded, Foldable, Whole, Aggregate
  <2>11. Plain(idents', NewNode("LITERAL")) /\ Whole(nodes', NewNode("LITERAL"))
    <3>1. NewNode("LITERAL").type = ZeroType /\ NewNode("LITERAL").rep = "int" BY DEF NewNode
    <3> QED BY <1>2, <3>1 DEF Plain, Named, Encoded, ZeroType, Whole, Aggregate
  <2>12. Add(<<NewNode("LITERAL"), nd>>) BY <1>5, <2>1, <2>7
  <2>13. /\ Going("Literal") /\ Wrote({}) /\ Done({}, 0)
         /\ nodes'[New + 1] = nd /\ New + 1 \in DOMAIN nodes'
    BY <1>1, <1>2, <2>4, <2>8, <2>10, <2>11, <2>12, AddsTwo
  <2>14. Fits(nodes', "lit", New + 1)
    BY <2>8, <2>10, <2>13 DEF Fits, Operand, Expr, ExpressionKind
  <2> QED BY <1>3, <1>5, <2>13, <2>14, DataReturns
<1> QED BY <1>4, <1>5 DEF Literal

-----------------------------------------------------------------------------
(* Every step keeps what the nodes say.                                    *)

LEMMA StepData ==
  ASSUME IInv, IInv', TreeInv, DataInv, Step
  PROVE  DataInv'
<1>1. CASE Statement BY <1>1, StatementData
<1>2. CASE IfOpen \/ IfCond \/ IfThen \/ IfElse BY <1>2, IfData
<1>3. CASE Block \/ BlockLoop \/ BlockPush \/ BlockClose BY <1>3, BlockData
<1>4. CASE DefName \/ Params \/ FuncType BY <1>4, DefNameData, ParamsData, FuncTypeData
<1>5. CASE FuncOpen \/ AggOpen \/ MemberSemi \/ AggClose \/ FuncClose \/ FuncColon \/ ExprSemi
  BY <1>5, InsistingData
<1>6. CASE FuncBody BY <1>6, FuncBodyData
<1>7. CASE Decl \/ DeclType \/ DeclEq \/ DeclRhs BY <1>7, DeclData
<1>8. CASE Assignment \/ AssignRhs BY <1>8, AssignmentData
<1>9. CASE LogicRest \/ LogicRhs \/ FactorRest \/ FactorRhs BY <1>9, LogicData
<1>10. CASE CmpRest \/ CmpRhs BY <1>10, ComparisonData
<1>11. CASE TermFirst \/ TermLoop \/ TermRhs BY <1>11, TermData
<1>12. CASE Unary \/ NegRhs \/ NotRhs BY <1>12, UnaryData
<1>13. CASE Deref \/ DerefArg \/ Ref \/ RefArg BY <1>13, PointerData
<1>14. CASE Literal BY <1>14, LiteralData
<1> QED BY <1>1, <1>2, <1>3, <1>4, <1>5, <1>6, <1>7, <1>8, <1>9, <1>10, <1>11, <1>12, <1>13,
           <1>14 DEF Step

LEMMA DataKeeps == IInv /\ TreeInv /\ DataInv /\ [Next]_vars => DataInv'
<1> SUFFICES ASSUME IInv, TreeInv, DataInv, [Next]_vars PROVE DataInv'
  OBVIOUS
<1>1. IInv' BY NextKeeps
<1>2. CASE Step BY <1>1, <1>2, StepData
<1>3. ASSUME NEW how, NEW i, StopAt(how, i) PROVE DataInv'
  BY <1>3 DEF StopAt, DataInv, Pending, Top
<1>4. CASE Failure
  BY <1>3, <1>4 DEF Failure, NotAParameter, Undeclared, TwoPointers, Negative, OperandFails,
                    LiteralFails, RunOff, ExpectFails, MatchFails, AssertFails, Stop
<1>5. CASE Accept BY <1>3, <1>5 DEF Accept, Stop
<1>6. CASE UNCHANGED vars BY <1>6 DEF vars, DataInv, Pending, Top
<1> QED BY <1>2, <1>4, <1>5, <1>6 DEF Next

LEMMA InitData == Init => DataInv
<1> SUFFICES ASSUME Init PROVE DataInv
  OBVIOUS
<1>1. nodes = <<>> /\ stack = <<Fr("Statement")>> /\ DOMAIN idents = {} BY DEF Init
<1>2. DOMAIN nodes = {} BY <1>1
<1>3. /\ Fr("Statement") \in Frame /\ Blank(Fr("Statement")) /\ Fr("Statement").at = "Statement"
      /\ "Statement" \notin Resumptions \cup Building
  BY BareFrame DEF Labels, Building, Resumptions
<1>4. /\ DOMAIN stack = {1} /\ stack[1] = Fr("Statement") /\ Top = Fr("Statement")
      /\ stack # <<>> /\ 1 .. Len(stack) - 1 = {}
  BY <1>1 DEF Top
<1>5. Pending = {} BY <1>3, <1>4 DEF Pending
<1>6. Half(nodes, stack[1]) BY <1>3, <1>4 DEF Half, Blank
<1>7. Chained(stack) BY <1>4 DEF Chained
<1>8. Tabled(idents) BY <1>1 DEF Tabled
<1> QED BY <1>2, <1>4, <1>5, <1>6, <1>7, <1>8 DEF DataInv, DataOf

LEMMA DataStands == Spec => [](IInv /\ TreeInv /\ DataInv)
BY InitKeeps, InitTree, InitData, NextKeeps, TreeKeeps, DataKeeps, PTL DEF Spec

LEMMA Everywhere ==
  ASSUME IInv, DataInv, NEW i \in DOMAIN nodes
  PROVE  Plain(idents, nodes[i]) /\ nodes[i] \in Node /\ nodes[i].kind \in NodeKind
<1>1. nodes[i] \in Node BY LenProperties, ElementOfSeq DEF IInv, TypeOK
<1> QED BY <1>1 DEF DataInv, DataOf, Node

LEMMA IdentsTyped ==
  ASSUME IInv, DataInv
  PROVE  IdentTypesAgree
<1>1. ASSUME NEW i \in DOMAIN nodes, nodes[i].kind = "IDENTIFIER", nodes[i].name # NoName
      PROVE  /\ nodes[i].name \in DOMAIN idents
             /\ idents[nodes[i].name] = [name |-> nodes[i].name, type |-> nodes[i].type]
  BY <1>1, Everywhere DEF Plain, Named
<1> QED BY <1>1 DEF IdentTypesAgree

(* However often a name is declared, read or assigned, whatever the        *)
(* program: each node for it has the type of the entry the table holds.    *)
THEOREM IdentsStayTyped == Spec => []IdentTypesAgree
<1>1. IInv /\ DataInv => IdentTypesAgree BY IdentsTyped
<1> QED BY <1>1, DataStands, PTL

LEMMA LiteralsEncoded ==
  ASSUME IInv, DataInv
  PROVE  LiteralEncoding
BY Everywhere DEF Plain, Encoded, LiteralEncoding

(* Whatever is folded into it: no literal is said to be a float without    *)
(* float bits, and float bits are announced by its type or by what it      *)
(* evaluates to.                                                           *)
THEOREM LiteralsStayEncoded == Spec => []LiteralEncoding
<1>1. IInv /\ DataInv => LiteralEncoding BY LiteralsEncoded
<1> QED BY <1>1, DataStands, PTL

LEMMA PointersDeclared ==
  ASSUME IInv, TreeInv, DataInv
  PROVE  PointerOperands
<1> SUFFICES ASSUME NEW i \in Built, nodes[i].kind = "UNARY", NEW e, e = nodes[nodes[i].kids[1]]
             PROVE  /\ nodes[i].op = "DEREF" =>
                         e.name \in DOMAIN idents /\ idents[e.name].type.ptr
                    /\ nodes[i].op = "GET_PTR" =>
                         ~(e.name \in DOMAIN idents /\ idents[e.name].type.ptr)
  BY DEF PointerOperands
<1>1. i \in DOMAIN nodes /\ \A j \in DOMAIN stack : i # stack[j].node BY DEF Built, Held
<1>2. Whole(nodes, nodes[i]) BY <1>1 DEF DataInv, DataOf
<1>3. Expr(nodes, nodes[i].kids[1]) /\ Pointed(nodes, nodes[i]) BY <1>2 DEF Whole
<1>4. Plain(idents, e) BY <1>3, Everywhere DEF Expr
<1>5. NoName \notin DOMAIN idents BY NameAssumption DEF IInv, TypeOK
<1>6. ASSUME nodes[i].op = "DEREF" PROVE e.name \in DOMAIN idents /\ idents[e.name].type.ptr
  <2>1. e.kind = "IDENTIFIER" /\ e.type.ptr BY <1>3, <1>6 DEF Pointed, NameAt
  <2> QED BY <1>4, <2>1 DEF Plain, Named
<1>7. ASSUME nodes[i].op = "GET_PTR", e.name \in DOMAIN idents PROVE ~idents[e.name].type.ptr
  <2>1. e.name # NoName BY <1>5, <1>7
  <2>2. e.kind # "LITERAL" BY <1>4, <2>1 DEF Plain
  <2>3. e.kind = "IDENTIFIER" /\ ~e.type.ptr BY <1>3, <1>7, <2>2 DEF Pointed, NameAt
  <2> QED BY <1>4, <2>1, <2>3 DEF Plain, Named
<1> QED BY <1>6, <1>7

(* What a finished * is applied to is a name declared as a pointer, and    *)
(* what a finished & is applied to is not, by the table as it is now.      *)
THEOREM PointersStayDeclared == Spec => []PointerOperands
<1>1. IInv /\ TreeInv /\ DataInv => PointerOperands BY PointersDeclared
<1> QED BY <1>1, DataStands, PTL

LEMMA AstIsComplete ==
  ASSUME IInv, TreeInv, DataInv
  PROVE  AstComplete
<1> SUFFICES ASSUME NEW i \in Built PROVE Complete(nodes[i])
  BY DEF AstComplete
<1>1. i \in DOMAIN nodes /\ \A j \in DOMAIN stack : i # stack[j].node BY DEF Built, Held
<1>2. Whole(nodes, nodes[i]) BY <1>1 DEF DataInv, DataOf
<1>3. nodes[i] \in Node /\ Sized(nodes[i])
  BY <1>1, Everywhere DEF TreeInv, TreeOf
<1>4. 0 \notin DOMAIN nodes BY LenProperties DEF IInv, TypeOK
<1>5. ASSUME NEW k \in DOMAIN nodes[i].kids, nodes[i].kids[k] # 0
      PROVE  nodes[i].kids[k] \in Built
  <2>1. PICK c : c = nodes[i].kids[k] OBVIOUS
  <2>2. c \in KidsOf(nodes, i) BY <1>1, <1>5, <2>1, KidIn
  <2>3. c \in DOMAIN nodes /\ c \notin Loose(stack, Pending)
    BY <1>1, <2>2 DEF TreeInv, TreeOf, Orphans
  <2>4. ASSUME NEW j \in DOMAIN stack, c = stack[j].node PROVE FALSE
    <3>1. c \in Own(stack[j]) BY <1>5, <2>1, <2>4 DEF Own
    <3> QED BY <2>3, <3>1 DEF Loose
  <2> QED BY <2>1, <2>3, <2>4 DEF Built, Held
<1>6. ASSUME NEW k \in DOMAIN nodes[i].kids
      PROVE  /\ Expr(nodes, nodes[i].kids[k]) => IsExpr(nodes[i].kids[k])
             /\ BlockAt(nodes, nodes[i].kids[k]) => IsBlock(nodes[i].kids[k])
  BY <1>4, <1>5 DEF Expr, BlockAt, IsExpr, IsBlock
<1>7. CASE nodes[i].kind = "BINARY"
  BY <1>2, <1>3, <1>6, <1>7, Places DEF Whole, Complete, NameAt
<1>8. CASE nodes[i].kind = "UNARY" BY <1>2, <1>3, <1>6, <1>8, Places DEF Whole, Complete
<1>9. CASE nodes[i].kind = "IF" BY <1>2, <1>3, <1>6, <1>9, Places DEF Whole, Complete
<1>10. CASE nodes[i].kind = "FUNC"
  BY <1>2, <1>3, <1>6, <1>10, Places DEF Whole, Complete, Aggregate
<1>11. CASE nodes[i].kind = "BLOCK" BY <1>2, <1>5, <1>11 DEF Whole, Complete
<1>12. CASE nodes[i].kind \notin {"BINARY", "UNARY", "IF", "FUNC", "BLOCK"}
  BY <1>2, <1>12 DEF Whole, Complete, Aggregate
<1> QED BY <1>7, <1>8, <1>9, <1>10, <1>11, <1>12

(* Every node no function still works on is complete, whatever the program *)
(* read: its children are there, done themselves, and of the kind the      *)
(* printer and the code generator take them for without a test.            *)
THEOREM AstStaysComplete == Spec => []AstComplete
<1>1. IInv /\ TreeInv /\ DataInv => AstComplete BY AstIsComplete
<1> QED BY <1>1, DataStands, PTL

-----------------------------------------------------------------------------
(* Nothing is lost on the way: the inductive invariant of what becomes of  *)
(* the nodes.                                                              *)

(* No chain of parents goes round, ...                                     *)
Founded(ns) ==
  \A S \in SUBSET DOMAIN ns : S # {} => \E i \in S : \A j \in S : i \notin KidsOf(ns, j)

(* ... what no function holds has a parent, or is a literal, ...           *)
Adopted(ns, loose) ==
  \A c \in DOMAIN ns : \/ c \in loose \/ ns[c].kind = "LITERAL"
                       \/ \E j \in DOMAIN ns : c \in KidsOf(ns, j)

(* ... and no child is put where there is one already: these are the       *)
(* places that a function has still to fill.                               *)
Later(at) ==
  CASE at \in {"IfOpen", "IfCond"} -> {1, 2, 3}
    [] at \in {"IfThen", "LogicRhs", "FactorRhs", "NegRhs"} -> {1, 2}
    [] at \in {"IfElse", "DeclRhs", "AssignRhs", "CmpRhs", "TermRhs"} -> {2}
    [] at \in {"DefName", "Params", "NotRhs", "DerefArg", "RefArg"}
              \cup FuncPoints \cup AggPoints -> {1}
    [] OTHER -> {}

Open(at, nd) == \A k \in Later(at) \cap DOMAIN nd.kids : nd.kids[k] = 0

Unfilled(ns, f) == /\ f.at \notin HoldingLeft => f.left = 0
                   /\ f.at \in Building => Open(f.at, ns[f.node])
                   /\ f.at = "TermRhs" => ns[f.node].kids = <<f.left, 0>>

KeptInv == /\ Founded(nodes) /\ Adopted(nodes, Loose(stack, Pending))
           /\ \A j \in DOMAIN stack : Unfilled(nodes, stack[j])

(* One step: b is given children, everything else keeps what it has.  What *)
(* the running function held it keeps, or gives to b, or it is a literal.  *)
Accounts(b, kept) ==
  /\ b = 0 \/ b \in kept \cap ({Top.node} \cup Fresh)
  /\ \A i \in DOMAIN nodes :
       /\ i # b => nodes'[i].kids = nodes[i].kids
       /\ nodes[i].kind = "LITERAL" => nodes'[i].kind = "LITERAL"
  /\ \A i \in Fresh : i # b => KidsOf(nodes', i) = {}
  /\ \A c \in Free \cup KidsOf(nodes, b) :
       c \in kept \cup KidsOf(nodes', b) \/ nodes'[c].kind = "LITERAL"

LEMMA SameKids ==
  ASSUME NEW label, Going(label), NEW b, NEW kept, Accounts(b, kept),
         NEW i \in DOMAIN nodes, i # b
  PROVE  KidsOf(nodes', i) = KidsOf(nodes, i) /\ i \in DOMAIN nodes'
<1>1. i \in DOMAIN nodes' BY Around
<1>2. nodes'[i].kids = nodes[i].kids BY DEF Accounts
<1> QED BY <1>1, <1>2 DEF KidsOf

LEMMA AccountsAdopt ==
  ASSUME NEW label, Going(label), KeptInv, NEW b, NEW kept, Accounts(b, kept),
         NEW loose, kept \subseteq loose,
         \A i \in DOMAIN stack : i # 1 => Own(stack[i]) \subseteq loose
  PROVE  Adopted(nodes', loose)
<1> SUFFICES ASSUME NEW c \in DOMAIN nodes'
             PROVE  \/ c \in loose \/ nodes'[c].kind = "LITERAL"
                    \/ \E j \in DOMAIN nodes' : c \in KidsOf(nodes', j)
  BY DEF Adopted
<1>1. stack \in Seq(Frame) /\ stack # <<>> BY DEF Going, IInv, TypeOK, Running
<1>2. Head(stack) = stack[1] /\ 1 \in DOMAIN stack BY <1>1, LenProperties, EmptySeq
<1>3. CASE c \in Free \cup KidsOf(nodes, b)
  <2>1. CASE c \in KidsOf(nodes', b) BY <2>1, KidOf
  <2> QED BY <1>3, <2>1 DEF Accounts
<1>4. CASE c \notin DOMAIN nodes
  <2>1. c \in Free BY <1>4, Around DEF Fresh
  <2> QED BY <1>3, <2>1
<1>5. CASE c \in DOMAIN nodes
  <2>1. CASE c \in Loose(stack, Pending)
    <3>1. CASE c \in Pending BY <1>3, <3>1 DEF Free, Spare
    <3>2. ASSUME NEW i \in DOMAIN stack, c \in Own(stack[i]) PROVE c \in Free \/ c \in loose
      BY <1>2, <3>2 DEF Free, Spare
    <3> QED BY <1>3, <2>1, <3>1, <3>2, FromLoose
  <2>2. CASE nodes[c].kind = "LITERAL" BY <1>5, <2>2 DEF Accounts
  <2>3. ASSUME NEW j \in DOMAIN nodes, c \in KidsOf(nodes, j)
        PROVE  \/ c \in loose \/ nodes'[c].kind = "LITERAL"
               \/ \E k \in DOMAIN nodes' : c \in KidsOf(nodes', k)
    <3>1. CASE j = b BY <1>3, <2>3, <3>1
    <3>2. CASE j # b BY <2>3, <3>2, SameKids
    <3> QED BY <3>1, <3>2
  <2> QED BY <1>5, <2>1, <2>2, <2>3 DEF KeptInv, Adopted
<1> QED BY <1>4, <1>5

LEMMA AccountsFound ==
  ASSUME NEW label, Going(label), KeptInv, NEW b, NEW kept, Accounts(b, kept),
         NEW loose, kept \subseteq loose, Orphans(nodes', loose)
  PROVE  Founded(nodes')
<1> SUFFICES ASSUME NEW S \in SUBSET DOMAIN nodes', S # {}
             PROVE  \E i \in S : \A j \in S : i \notin KidsOf(nodes', j)
  BY DEF Founded
<1>1. CASE b \in S
  <2>1. b \in loose BY <1>1, Around DEF Accounts
  <2> QED BY <1>1, <2>1 DEF Orphans
<1>2. CASE b \notin S
  <2>1. \A j \in S : j \in DOMAIN nodes \/ KidsOf(nodes', j) = {}
    BY <1>2 DEF Accounts, Fresh
  <2>2. \A j \in S : j \in DOMAIN nodes => KidsOf(nodes', j) = KidsOf(nodes, j)
    BY <1>2, SameKids
  <2>3. CASE S \cap DOMAIN nodes = {} BY <2>1, <2>3
  <2>4. CASE S \cap DOMAIN nodes # {}
    <3>1. S \cap DOMAIN nodes \in SUBSET DOMAIN nodes OBVIOUS
    <3>2. PICK i \in S \cap DOMAIN nodes : \A j \in S \cap DOMAIN nodes : i \notin KidsOf(nodes, j)
      BY <2>4, <3>1 DEF KeptInv, Founded
    <3> QED BY <2>1, <2>2, <3>2
  <2> QED BY <2>3, <2>4
<1> QED BY <1>1, <1>2

(* Below the running function nothing is filled.                           *)
LEMMA LowerUnfilled ==
  ASSUME NEW label, Going(label), KeptInv, NEW b, NEW kept, Accounts(b, kept),
         NEW j \in DOMAIN stack, j # 1
  PROVE  Unfilled(nodes', stack[j])
<1>1. nodes \in Seq(Node) /\ nodes' \in Seq(Node) /\ stack \in Seq(Frame) /\ stack # <<>>
      /\ Len(nodes) <= Len(nodes') /\ Ordered(nodes, stack, Pending) /\ Suits(nodes, stack[j])
  BY DEF Going, IInv, TypeOK, Running, TreeInv, TreeOf
<1>2. Unfilled(nodes, stack[j]) BY DEF KeptInv
<1>3. ASSUME stack[j].at \in Building PROVE nodes'[stack[j].node].kids = nodes[stack[j].node].kids
  <2>1. stack[j].node \in DOMAIN nodes BY <1>1, <1>3 DEF Suits
  <2>2. stack[j].node \in Grasp(nodes, stack[j]) /\ stack[j].node \in Nat
    BY <1>1, <2>1, Indices DEF Grasp
  <2>3. stack[j].node # b
    <3> SUFFICES ASSUME stack[j].node = b PROVE FALSE
      OBVIOUS
    <3>1. b # 0 /\ b \notin Fresh BY <1>1, <2>1, Indices DEF Fresh
    <3>2. b = Top.node BY <3>1 DEF Accounts
    <3>3. b \in Near BY <3>1, <3>2, Around
    <3>4. b < b BY <1>1, <2>2, <3>3, Beneath DEF Near
    <3> QED BY <2>2, <3>4
  <2> QED BY <2>1, <2>3 DEF Accounts
<1>4. "TermRhs" \in Building BY DEF Building
<1> QED BY <1>2, <1>3, <1>4 DEF Unfilled, Open


(* A call: what the last new frame has, and what the callers have, stays.  *)
LEMMA StillHeld ==
  ASSUME NEW s \in Seq(Frame), s # <<>>, NEW fs, NEW g, Closes(fs, g), NEW q
  PROVE  /\ Own(g) \subseteq Loose(fs \o Tail(s), q)
         /\ \A i \in DOMAIN s : i # 1 => Own(s[i]) \subseteq Loose(fs \o Tail(s), q)
<1>1. PICK t : t = fs \o Tail(s) OBVIOUS
<1>2. Stays(t, s, g) BY <1>1, StillThere
<1>3. \A k \in DOMAIN t : Own(t[k]) \subseteq Loose(t, q) BY InLoose
<1>4. /\ Own(g) \subseteq Loose(t, q)
      /\ \A i \in DOMAIN s : i # 1 => Own(s[i]) \subseteq Loose(t, q)
  BY <1>2, <1>3 DEF Stays
<1> QED BY <1>1, <1>4

LEMMA BlankUnfilled ==
  ASSUME NEW ns, NEW f, Blank(f)
  PROVE  Unfilled(ns, f)
BY DEF Blank, Unfilled, Building

(* A frame after a call is a new blank one, the last new one or a caller's. *)
Known(f, s, g) == Blank(f) \/ f = g \/ \E i \in DOMAIN s : i # 1 /\ f = s[i]

LEMMA AfterCall ==
  ASSUME NEW s \in Seq(Frame), s # <<>>, NEW fs, NEW g, Closes(fs, g),
         NEW j \in DOMAIN (fs \o Tail(s))
  PROVE  Known((fs \o Tail(s))[j], s, g)
<1>1. /\ Len(fs) \in Nat /\ j \in Nat
      /\ \/ j < Len(fs) /\ Blank((fs \o Tail(s))[j])
         \/ j = Len(fs) /\ (fs \o Tail(s))[j] = g
         \/ /\ j > Len(fs) /\ j - Len(fs) + 1 \in DOMAIN s /\ j - Len(fs) + 1 # 1
            /\ (fs \o Tail(s))[j] = s[j - Len(fs) + 1]
  BY Called, Zenon
<1> QED BY <1>1, Zenon DEF Known

LEMMA KeptCalls ==
  ASSUME NEW label, Going(label), TreeInv', KeptInv, NEW fs, NEW g, Closes(fs, g), Call(fs),
         NEW b, Accounts(b, Own(g)), Unfilled(nodes', g)
  PROVE  KeptInv'
<1>1. stack \in Seq(Frame) /\ stack # <<>> BY DEF Going, IInv, TypeOK, Running
<1>2. stack' = fs \o Tail(stack) BY DEF Call
<1>3. /\ Own(g) \subseteq Loose(stack', Pending')
      /\ \A i \in DOMAIN stack : i # 1 => Own(stack[i]) \subseteq Loose(stack', Pending')
  BY <1>1, <1>2, StillHeld
<1>4. Orphans(nodes', Loose(stack', Pending')) BY DEF TreeInv, TreeOf
<1>5. Founded(nodes') BY <1>3, <1>4, AccountsFound
<1>6. Adopted(nodes', Loose(stack', Pending')) BY <1>3, AccountsAdopt
<1>7. ASSUME NEW j \in DOMAIN stack' PROVE Unfilled(nodes', stack'[j])
  <2>1. CASE Blank(stack'[j]) BY <2>1, BlankUnfilled
  <2>2. CASE stack'[j] = g BY <2>2
  <2>3. ASSUME NEW i \in DOMAIN stack, i # 1, stack'[j] = stack[i]
        PROVE  Unfilled(nodes', stack'[j])
    BY <2>3, LowerUnfilled
  <2>4. j \in DOMAIN (fs \o Tail(stack)) BY <1>2
  <2>5. Known((fs \o Tail(stack))[j], stack, g) BY <1>1, <2>4, AfterCall, Zenon
  <2>6. Known(stack'[j], stack, g) BY <1>2, <2>5, Zenon
  <2> QED BY <2>1, <2>2, <2>3, <2>6 DEF Known
<1> QED BY <1>5, <1>6, <1>7 DEF KeptInv

LEMMA KeptReturns ==
  ASSUME NEW label, Going(label), TreeInv', DataInv, KeptInv, NEW r, Return(r),
         NEW b, Accounts(b, {r})
  PROVE  KeptInv'
<1>1. stack \in Seq(Frame) /\ stack # <<>> BY DEF Going, IInv, TypeOK, Running
<1>2. stack' = Tail(stack) /\ ret' = r BY DEF Return
<1>3. /\ Tail(stack) \in Seq(Frame) /\ Len(Tail(stack)) = Len(stack) - 1
      /\ \A k \in 1 .. Len(Tail(stack)) : Tail(stack)[k] = stack[k + 1]
      /\ DOMAIN stack = 1 .. Len(stack) /\ Len(stack) \in Nat
      /\ DOMAIN stack' = 1 .. Len(Tail(stack))
  BY <1>1, <1>2, HeadTailProperties, LenProperties
<1>4. Pending' = {r}
  <2>1. stack' # <<>> => stack'[1].at \in Resumptions
    BY <1>1, <1>2, ChainedReturn DEF DataInv, DataOf
  <2>2. stack' # <<>> => Head(stack') = stack'[1] BY <1>2, <1>3
  <2> QED BY <1>2, <2>1, <2>2 DEF Pending, Top
<1>5. {r} \subseteq Loose(stack', Pending') BY <1>4, PendingIsLoose
<1>6. ASSUME NEW i \in DOMAIN stack, i # 1 PROVE Own(stack[i]) \subseteq Loose(stack', Pending')
  <2>1. PICK m \in Nat : m = i - 1 /\ m >= 1 /\ m + 1 = i /\ m <= Len(Tail(stack))
    BY <1>3, <1>6
  <2>2. m \in DOMAIN stack' /\ stack'[m] = stack[i] BY <1>2, <1>3, <2>1
  <2>3. Own(stack'[m]) \subseteq Loose(stack', Pending') BY <2>2, InLoose
  <2> QED BY <2>2, <2>3
<1>7. Orphans(nodes', Loose(stack', Pending')) BY DEF TreeInv, TreeOf
<1>8. Founded(nodes') BY <1>5, <1>7, AccountsFound
<1>9. Adopted(nodes', Loose(stack', Pending')) BY <1>5, <1>6, AccountsAdopt
<1>10. ASSUME NEW j \in DOMAIN stack' PROVE Unfilled(nodes', stack'[j])
  <2>1. j + 1 \in DOMAIN stack /\ j + 1 # 1 /\ stack'[j] = stack[j + 1]
    BY <1>1, <1>2, Returned
  <2> QED BY <2>1, LowerUnfilled
<1> QED BY <1>8, <1>9, <1>10 DEF KeptInv

(* The calls of functions that begin, and of one that goes on.             *)
LEMMA KeptBare ==
  ASSUME NEW label, Going(label), TreeInv', KeptInv, NEW fs, Bare(fs), Call(fs),
         NEW b, Accounts(b, {})
  PROVE  KeptInv'
<1>1. PICK g : Closes(fs, g) /\ Blank(g) BY EndsBare
<1>2. Own(g) = {} BY <1>1 DEF Own, Blank
<1> QED BY <1>1, <1>2, BlankUnfilled, KeptCalls

(* What the running function has is its node, its left operand or the      *)
(* result, as its label says.                                              *)
LEMMA HasFree ==
  ASSUME NEW label, Going(label), DataInv, KeptInv
  PROVE  /\ \A c \in Free : \/ c \in Fresh
                            \/ c = Top.node /\ label \in Building
                            \/ c = Top.left /\ label \in HoldingLeft \ {"TermRhs"}
                            \/ c = ret /\ label \in Resumptions
         /\ label \in Building => Open(label, Here)
         /\ label = "TermRhs" => Here.kids = <<Top.left, 0>>
         /\ KidsOf(nodes, 0) = {}
<1>1. stack \in Seq(Frame) /\ stack # <<>> BY DEF Going, IInv, TypeOK, Running
<1>2. Top = stack[1] /\ 1 \in DOMAIN stack /\ Top.at = label /\ Head(stack) = Top
  BY <1>1, LenProperties, EmptySeq DEF Top, Going, Running
<1>3. Unfilled(nodes, Top) BY <1>2 DEF KeptInv
<1>4. label \notin Building => Top.node = 0 BY Found
<1>5. label \notin HoldingLeft => Top.left = 0 BY <1>2, <1>3 DEF Unfilled
<1>6. ASSUME NEW c \in Free
      PROVE  \/ c \in Fresh
             \/ c = Top.node /\ label \in Building
             \/ c = Top.left /\ label \in HoldingLeft \ {"TermRhs"}
             \/ c = ret /\ label \in Resumptions
  <2>1. CASE c \in Fresh BY <2>1
  <2>2. CASE c \in Own(Top) BY <1>2, <1>4, <1>5, <2>2 DEF Own
  <2>3. CASE c \in Pending BY <1>1, <1>2, <2>3 DEF Pending
  <2> QED BY <1>2, <2>1, <2>2, <2>3 DEF Free, Spare, Fresh
<1>7. /\ label \in Building => Open(label, Here)
      /\ label = "TermRhs" => Here.kids = <<Top.left, 0>>
  BY <1>2, <1>3 DEF Unfilled, Here
<1>8. 0 \notin DOMAIN nodes BY Around
<1>9. KidsOf(nodes, 0) = {} BY <1>8 DEF KidsOf
<1> QED BY <1>6, <1>7, <1>9


(* A step of the function at `label`, with all that is known.              *)
Steps(label) == Going(label) /\ TreeInv' /\ DataInv /\ KeptInv
Steady == IInv /\ IInv' /\ TreeInv /\ TreeInv' /\ DataInv /\ KeptInv

LEMMA StepsSame ==
  ASSUME Steady, NEW label, Running(label), UNCHANGED status, UNCHANGED nodes
  PROVE  Steps(label)
BY GoesOnSame DEF Steady, Steps

LEMMA StepsSet ==
  ASSUME Steady, NEW label \in Building, Running(label), UNCHANGED status,
         NEW nd \in Node, Update(nd)
  PROVE  /\ Steps(label) /\ Sets(nd) /\ nodes'[Top.node] = nd
         /\ \A i \in DOMAIN nodes \ {Top.node} : nodes'[i] = nodes[i]
<1>1. /\ Sets(nd) /\ Len(nodes) <= Len(nodes')
      /\ \A i \in DOMAIN nodes \ {Top.node} : nodes'[i] = nodes[i]
  BY Updates DEF Steady
<1>2. Going(label) BY <1>1, GoesOn DEF Steady
<1> QED BY <1>1, <1>2 DEF Steady, Steps, Sets

LEMMA StepsOne ==
  ASSUME Steady, NEW label, Running(label), UNCHANGED status, NEW nd \in Node, Add(<<nd>>)
  PROVE  /\ Steps(label) /\ Fresh = {New} /\ New \in DOMAIN nodes' /\ nodes'[New] = nd
         /\ New \in Nat /\ New # 0
<1>1. /\ Fresh = {New} /\ New \in DOMAIN nodes' /\ nodes'[New] = nd
      /\ Len(nodes) <= Len(nodes') /\ New \in Nat
  BY OneNew DEF Steady
<1>2. Going(label) BY <1>1, GoesOn DEF Steady
<1>3. New # 0 BY <1>1, <1>2, Around
<1> QED BY <1>1, <1>2, <1>3 DEF Steady, Steps

LEMMA StepsTwo ==
  ASSUME Steady, NEW label, Running(label), UNCHANGED status,
         NEW nd \in Node, NEW md \in Node, Add(<<nd, md>>)
  PROVE  /\ Steps(label) /\ Fresh = {New, New + 1}
         /\ New \in DOMAIN nodes' /\ nodes'[New] = nd /\ New \in Nat /\ New # 0
         /\ New + 1 \in DOMAIN nodes' /\ nodes'[New + 1] = md /\ New + 1 # 0
<1>1. /\ Fresh = {New, New + 1} /\ New \in DOMAIN nodes' /\ New + 1 \in DOMAIN nodes'
      /\ nodes'[New] = nd /\ nodes'[New + 1] = md
      /\ Len(nodes) <= Len(nodes') /\ New \in Nat
  BY TwoNew DEF Steady
<1>2. Going(label) BY <1>1, GoesOn DEF Steady
<1>3. New # 0 /\ New + 1 # 0 BY <1>1, <1>2, Around
<1> QED BY <1>1, <1>2, <1>3 DEF Steady, Steps

(* The accounts of a step that changes no node, ...                        *)
LEMMA SameAccounts ==
  ASSUME NEW label, Steps(label), UNCHANGED nodes
  PROVE  /\ Fresh = {} /\ \A kept : Free \subseteq kept => Accounts(0, kept)
<1>1. Fresh = {} BY DEF Fresh
<1>2. KidsOf(nodes, 0) = {} BY HasFree DEF Steps
<1> QED BY <1>1, <1>2 DEF Accounts

(* ... of one that changes a node's other fields, ...                      *)
LEMMA FieldAccounts ==
  ASSUME NEW label \in Building \ (HoldingLeft \cup Resumptions), Steps(label),
         NEW nd, Sets(nd), nd.kids = Here.kids, nd.kind = Here.kind
  PROVE  Accounts(0, {Top.node})
<1>1. Fresh = {} /\ \A i \in DOMAIN nodes : nodes'[i].kids = nodes[i].kids /\ nodes'[i].kind = nodes[i].kind
  BY DEF Sets, Here
<1>2. KidsOf(nodes, 0) = {} /\ \A c \in Free : c = Top.node
  BY <1>1, HasFree DEF Steps
<1> QED BY <1>1, <1>2 DEF Accounts

(* ... of one that gives it children, ...                                  *)
LEMMA ChildAccounts ==
  ASSUME NEW label \in Building \cap Resumptions, Steps(label), NEW nd, Sets(nd),
         ret \in ChildSet(nd.kids) \/ nodes'[ret].kind = "LITERAL",
         label \in HoldingLeft \ {"TermRhs"} => Top.left \in ChildSet(nd.kids),
         \A c \in KidsOf(nodes, Top.node) :
           c \in ChildSet(nd.kids) \/ nodes'[c].kind = "LITERAL"
  PROVE  Accounts(Top.node, {Top.node})
<1>1. /\ nodes'[Top.node] = nd /\ Fresh = {}
      /\ \A i \in DOMAIN nodes \ {Top.node} :
           nodes'[i].kids = nodes[i].kids /\ nodes'[i].kind = nodes[i].kind
  BY DEF Sets
<1>2. /\ Top.node \in DOMAIN nodes /\ Top.node \in DOMAIN nodes' /\ Here.kind # "LITERAL"
  BY Builds, Around, KindsBuilt DEF Steps
<1>3. KidsOf(nodes', Top.node) = ChildSet(nd.kids) BY <1>1, <1>2, KidsAreChildren
<1>4. \A c \in Free : \/ c = Top.node \/ c = ret
                      \/ c = Top.left /\ label \in HoldingLeft \ {"TermRhs"}
  BY <1>1, HasFree DEF Steps
<1>5. ASSUME NEW c \in Free \cup KidsOf(nodes, Top.node)
      PROVE  c \in {Top.node} \cup KidsOf(nodes', Top.node) \/ nodes'[c].kind = "LITERAL"
  BY <1>3, <1>4
<1>6. \A i \in DOMAIN nodes :
        /\ i # Top.node => nodes'[i].kids = nodes[i].kids
        /\ nodes[i].kind = "LITERAL" => nodes'[i].kind = "LITERAL"
  BY <1>1, <1>2 DEF Here
<1> QED BY <1>1, <1>5, <1>6 DEF Accounts

(* ... and of those that make nodes.                                       *)
LEMMA OneAccounts ==
  ASSUME Steady, NEW label, Running(label), UNCHANGED status, NEW nd \in Node, Add(<<nd>>),
         NEW kept, New \in kept, \A c \in Free \ {New} : c \in kept \cup ChildSet(nd.kids)
  PROVE  Accounts(New, kept)
<1>1. /\ Steps(label) /\ Fresh = {New} /\ New \in DOMAIN nodes' /\ nodes'[New] = nd
      /\ New \notin DOMAIN nodes /\ \A i \in DOMAIN nodes : nodes'[i] = nodes[i]
  BY StepsOne, OneNew DEF Steady
<1>2. KidsOf(nodes', New) = ChildSet(nd.kids) /\ KidsOf(nodes, New) = {}
  BY <1>1, KidsAreChildren DEF KidsOf
<1> QED BY <1>1, <1>2 DEF Accounts

LEMMA TwoAccounts ==
  ASSUME Steady, NEW label, Running(label), UNCHANGED status,
         NEW nd \in Node, NEW md \in Node, Add(<<nd, md>>), ChildSet(md.kids) = {},
         NEW kept, New \in kept,
         \A c \in Free \ {New} : c \in kept \cup ChildSet(nd.kids)
  PROVE  Accounts(New, kept)
<1>1. /\ Steps(label) /\ Fresh = {New, New + 1} /\ New \in DOMAIN nodes' /\ nodes'[New] = nd
      /\ New \notin DOMAIN nodes /\ \A i \in DOMAIN nodes : nodes'[i] = nodes[i]
      /\ New + 1 \in DOMAIN nodes' /\ nodes'[New + 1] = md
  BY StepsTwo, TwoNew DEF Steady
<1>2. KidsOf(nodes', New) = ChildSet(nd.kids) /\ KidsOf(nodes, New) = {}
      /\ KidsOf(nodes', New + 1) = {}
  BY <1>1, KidsAreChildren DEF KidsOf
<1> QED BY <1>1, <1>2 DEF Accounts


(* The steps: those that call or return and change no node, ...            *)
LEMMA BareKept ==
  ASSUME Steady, NEW label, label \notin Building \cup HoldingLeft \cup Resumptions,
         Running(label), UNCHANGED status, UNCHANGED nodes, NEW fs, Bare(fs), Call(fs)
  PROVE  KeptInv'
<1>1. Steps(label) BY StepsSame
<1>2. Fresh = {} BY <1>1, SameAccounts
<1>3. Free \subseteq {} BY <1>1, <1>2, HasFree DEF Steps
<1> QED BY <1>1, <1>3, SameAccounts, KeptBare DEF Steps

LEMMA BackKept ==
  ASSUME Steady, NEW label \in Resumptions, label \notin Building \cup HoldingLeft,
         Running(label), UNCHANGED status, UNCHANGED nodes, Return(ret)
  PROVE  KeptInv'
<1>1. Steps(label) BY StepsSame
<1>2. Fresh = {} BY <1>1, SameAccounts
<1>3. Free \subseteq {ret} BY <1>1, <1>2, HasFree DEF Steps
<1> QED BY <1>1, <1>3, SameAccounts, KeptReturns DEF Steps

(* ... those after which a function goes on with its node, ...             *)
LEMMA NodeUnfilled ==
  ASSUME NEW ns, NEW at \in Building \ HoldingLeft, NEW n \in Nat, n # 0, Open(at, ns[n])
  PROVE  /\ FrNode(at, n) \in Frame /\ Own(FrNode(at, n)) = {n} /\ Unfilled(ns, FrNode(at, n))
<1>1. /\ FrNode(at, n) \in Frame /\ FrNode(at, n).at = at
      /\ FrNode(at, n).node = n /\ FrNode(at, n).left = 0
  BY NodeInFrame
<1>2. at # "TermRhs" BY DEF HoldingLeft
<1> QED BY <1>1, <1>2 DEF Own, Unfilled

LEMMA NodeOne ==
  ASSUME NEW label, Steps(label), NEW at \in Building \ HoldingLeft,
         NEW n \in Nat, n # 0, Open(at, nodes'[n]), Call(<<FrNode(at, n)>>),
         NEW b, Accounts(b, {n})
  PROVE  KeptInv'
<1>1. /\ FrNode(at, n) \in Frame /\ Own(FrNode(at, n)) = {n}
      /\ Unfilled(nodes', FrNode(at, n))
  BY NodeUnfilled
<1> QED BY <1>1, EndsOne, KeptCalls DEF Steps

LEMMA NodeMore ==
  ASSUME NEW label, Steps(label), NEW at \in Building \ HoldingLeft,
         NEW n \in Nat, n # 0, Open(at, nodes'[n]),
         NEW fs, Bare(fs), Call(fs \o <<FrNode(at, n)>>), NEW b, Accounts(b, {n})
  PROVE  KeptInv'
<1>1. /\ FrNode(at, n) \in Frame /\ Own(FrNode(at, n)) = {n}
      /\ Unfilled(nodes', FrNode(at, n))
  BY NodeUnfilled
<1> QED BY <1>1, EndsMore, KeptCalls DEF Steps

(* What is open for a function stays so for what it does next.             *)
LEMMA StillOpen ==
  ASSUME NEW label \in Building, Steps(label), NEW at, Later(at) \subseteq Later(label),
         nodes'[Top.node].kids = Here.kids
  PROVE  Open(at, nodes'[Top.node]) /\ Top.node \in Nat /\ Top.node # 0
<1>1. Open(label, Here) BY HasFree DEF Steps
<1>2. Top.node \in Nat BY BuildingNode DEF Steps, Going
<1>3. Top.node # 0 BY Builds DEF Steps
<1> QED BY <1>1, <1>2, <1>3 DEF Open

LEMMA OnlyNode ==
  ASSUME Steady, NEW label \in Building \ (HoldingLeft \cup Resumptions), Running(label),
         UNCHANGED status, UNCHANGED nodes
  PROVE  Steps(label) /\ Accounts(0, {Top.node}) /\ nodes'[Top.node].kids = Here.kids
<1>1. Steps(label) BY StepsSame
<1>2. Fresh = {} BY <1>1, SameAccounts
<1>3. Free \subseteq {Top.node} BY <1>1, <1>2, HasFree DEF Steps
<1> QED BY <1>1, <1>3, SameAccounts DEF Here

LEMMA GotoKept ==
  ASSUME Steady, NEW label \in Building \ (HoldingLeft \cup Resumptions), Running(label),
         UNCHANGED status, UNCHANGED nodes,
         NEW at \in Building \ HoldingLeft, Later(at) \subseteq Later(label), Goto(at)
  PROVE  KeptInv'
BY OnlyNode, StillOpen, NodeOne DEF Goto

LEMMA CallKept ==
  ASSUME Steady, NEW label \in Building \ (HoldingLeft \cup Resumptions), Running(label),
         UNCHANGED status, UNCHANGED nodes,
         NEW at \in Building \ HoldingLeft, Later(at) \subseteq Later(label),
         NEW fs, Bare(fs), Call(fs \o <<FrNode(at, Top.node)>>)
  PROVE  KeptInv'
BY OnlyNode, StillOpen, NodeMore

LEMMA ReturnKept ==
  ASSUME Steady, NEW label \in Building \ (HoldingLeft \cup Resumptions), Running(label),
         UNCHANGED status, UNCHANGED nodes, Return(Top.node)
  PROVE  KeptInv'
BY OnlyNode, KeptReturns DEF Steps

(* ... those that make a node and go on with it, ...                       *)
LEMMA BuildKept ==
  ASSUME Steady, NEW label, Running(label), label \notin Building \cup HoldingLeft \cup Resumptions,
         UNCHANGED status, NEW nd \in Node, Add(<<nd>>)
  PROVE  /\ Steps(label) /\ Accounts(New, {New}) /\ New \in Nat /\ New # 0
         /\ nodes'[New] = nd
<1>1. /\ Steps(label) /\ Fresh = {New} /\ nodes'[New] = nd /\ New \in Nat /\ New # 0
  BY StepsOne
<1>2. Free \ {New} = {} BY <1>1, HasFree DEF Steps
<1>3. Accounts(New, {New}) BY <1>2, OneAccounts
<1> QED BY <1>1, <1>3

(* ... and those that store the result of a call.                          *)
LEMMA StoreKept ==
  ASSUME Steady, NEW label \in (Building \cap Resumptions) \ (HoldingLeft \ {"TermRhs"}),
         Running(label), UNCHANGED status, NEW k \in DOMAIN Here.kids \cap Later(label),
         NEW nd \in Node, nd.kids = [Here.kids EXCEPT ![k] = ret], Update(nd)
  PROVE  Steps(label) /\ Accounts(Top.node, {Top.node}) /\ nodes'[Top.node] = nd
<1>1. Steps(label) /\ Sets(nd) /\ nodes'[Top.node] = nd BY StepsSet
<1>2. Open(label, Here) /\ ret # 0 /\ Top.node \in DOMAIN nodes
  BY <1>1, HasFree, Given, Builds DEF Steps
<1>3. Here.kids[k] = 0 BY <1>2 DEF Open
<1>4. DOMAIN nd.kids = DOMAIN Here.kids /\ nd.kids[k] = ret
      /\ \A m \in DOMAIN Here.kids : m # k => nd.kids[m] = Here.kids[m]
  OBVIOUS
<1>5. ret \in ChildSet(nd.kids) BY <1>2, <1>4 DEF ChildSet
<1>6. ASSUME NEW c \in KidsOf(nodes, Top.node) PROVE c \in ChildSet(nd.kids)
  <2>1. c # 0 /\ \E m \in DOMAIN Here.kids : c = Here.kids[m] BY KidOf DEF Here
  <2> QED BY <1>3, <1>4, <2>1 DEF ChildSet
<1>7. Accounts(Top.node, {Top.node}) BY <1>1, <1>5, <1>6, ChildAccounts
<1> QED BY <1>1, <1>7

LEMMA AttachKept ==
  ASSUME Steady, NEW label \in (Building \cap Resumptions) \ HoldingLeft,
         NEW k \in DOMAIN Here.kids \cap Later(label), Attach(label, k)
  PROVE  KeptInv'
<1>1. /\ Running(label) /\ UNCHANGED status /\ Update(WithKid(Here, k, ret)) /\ Return(Top.node)
  BY DEF Attach, Resumes
<1>2. Here \in Node /\ ret \in Nat BY <1>1, BuildingNode DEF Steady, IInv, TypeOK
<1>3. WithKid(Here, k, ret) \in Node /\ WithKid(Here, k, ret).kids = [Here.kids EXCEPT ![k] = ret]
  BY <1>2, WithKidFields DEF WithKid, Node
<1>4. Steps(label) /\ Accounts(Top.node, {Top.node}) BY <1>1, <1>3, StoreKept
<1> QED BY <1>1, <1>4, KeptReturns DEF Steps


LEMMA LaterTable ==
  /\ \A at \in {"IfOpen", "IfCond"} : Later(at) = {1, 2, 3}
  /\ \A at \in {"IfThen", "LogicRhs", "FactorRhs", "NegRhs"} : Later(at) = {1, 2}
  /\ \A at \in {"IfElse", "DeclRhs", "AssignRhs", "CmpRhs", "TermRhs"} : Later(at) = {2}
  /\ \A at \in {"DefName", "Params", "NotRhs", "DerefArg", "RefArg"} \cup FuncPoints \cup AggPoints :
       Later(at) = {1}
  /\ \A at \in BlockPoints : Later(at) = {}
BY DEF Later, FuncPoints, AggPoints, BlockPoints

(* A new node has every place open.                                        *)
LEMMA FreshOpen ==
  ASSUME NEW kind, NEW nd, nd.kids = FreshKids(kind), NEW at
  PROVE  Open(at, nd)
<1>1. \A k \in DOMAIN FreshKids(kind) : FreshKids(kind)[k] = 0 BY DEF FreshKids
<1> QED BY <1>1 DEF Open

LEMMA BuiltOne ==
  ASSUME Steady, NEW label, Running(label), label \notin Building \cup HoldingLeft \cup Resumptions,
         UNCHANGED status, NEW nd \in Node, Add(<<nd>>),
         NEW at \in Building \ HoldingLeft, Open(at, nd), Call(<<FrNode(at, New)>>)
  PROVE  KeptInv'
<1>1. /\ Steps(label) /\ Accounts(New, {New}) /\ New \in Nat /\ New # 0
      /\ nodes'[New] = nd
  BY BuildKept
<1> QED BY <1>1, NodeOne

LEMMA BuiltMore ==
  ASSUME Steady, NEW label, Running(label), label \notin Building \cup HoldingLeft \cup Resumptions,
         UNCHANGED status, NEW nd \in Node, Add(<<nd>>),
         NEW at \in Building \ HoldingLeft, Open(at, nd),
         NEW fs, Bare(fs), Call(fs \o <<FrNode(at, New)>>)
  PROVE  KeptInv'
<1>1. /\ Steps(label) /\ Accounts(New, {New}) /\ New \in Nat /\ New # 0
      /\ nodes'[New] = nd
  BY BuildKept
<1> QED BY <1>1, NodeMore

LEMMA StatementKept ==
  ASSUME Steady, Statement
  PROVE  KeptInv'
<1>1. /\ Running("Statement") /\ UNCHANGED status
      /\ "Statement" \notin Building \cup HoldingLeft \cup Resumptions
  BY DEF Statement, Reads, Sees, Building, HoldingLeft, Resumptions
<1>2. CASE HandOn(<<Fr("Block")>>) BY <1>1, <1>2, BareCalls, BareKept DEF HandOn
<1>3. ASSUME NEW kind \in NodeKind, NEW at \in {"IfOpen", "DefName"},
             Add(<<NewNode(kind)>>), Call(<<FrNode(at, New)>>)
      PROVE  KeptInv'
  <2>1. at \in Building \ HoldingLeft BY DEF Building, HoldingLeft
  <2>2. NewNode(kind) \in Node /\ NewNode(kind).kids = FreshKids(kind) BY NewNodeFields
  <2>3. Open(at, NewNode(kind)) BY <2>2, FreshOpen
  <2> QED BY <1>1, <1>3, <2>1, <2>2, <2>3, BuiltOne
<1>4. CASE Call(<<FrNode("IfOpen", New)>>) /\ Add(<<NewNode("IF")>>)
  BY <1>3, <1>4 DEF NodeKind, StatementKind
<1>5. CASE /\ Kind(At) \in DefinitionTokens /\ Call(<<FrNode("DefName", New)>>)
           /\ Add(<<NewNode(KindOfKeyword[Kind(At)])>>)
  <2>1. KindOfKeyword[Kind(At)] \in NodeKind
    BY <1>5 DEF DefinitionTokens, KindOfKeyword, NodeKind, StatementKind
  <2> QED BY <1>3, <1>5, <2>1
<1>6. CASE HandOn(<<Fr("Decl"), Fr("ExprSemi")>>) BY <1>1, <1>6, BareCalls, BareKept DEF HandOn
<1> QED BY <1>2, <1>4, <1>5, <1>6 DEF Statement

(* The node keeps the places open that are still to be filled.             *)
LEMMA StoredOpen ==
  ASSUME NEW label \in Building, Steps(label), NEW k, NEW nd,
         nd.kids = [Here.kids EXCEPT ![k] = ret], nodes'[Top.node] = nd,
         NEW at, Later(at) \subseteq Later(label) \ {k}
  PROVE  Open(at, nodes'[Top.node]) /\ Top.node \in Nat /\ Top.node # 0
<1>1. Open(label, Here) BY HasFree DEF Steps
<1>2. Top.node \in Nat BY BuildingNode DEF Steps, Going
<1>3. Top.node # 0 BY Builds DEF Steps
<1>4. DOMAIN nd.kids = DOMAIN Here.kids
      /\ \A m \in DOMAIN Here.kids : m # k => nd.kids[m] = Here.kids[m]
  OBVIOUS
<1> QED BY <1>1, <1>2, <1>3, <1>4 DEF Open

LEMMA StoreCallKept ==
  ASSUME Steady, NEW label \in (Building \cap Resumptions) \ HoldingLeft,
         Running(label), UNCHANGED status, NEW k \in DOMAIN Here.kids \cap Later(label),
         Update(WithKid(Here, k, ret)),
         NEW at \in Building \ HoldingLeft, Later(at) \subseteq Later(label) \ {k},
         NEW fs, Bare(fs), Call(fs \o <<FrNode(at, Top.node)>>)
  PROVE  KeptInv'
<1>1. Here \in Node /\ ret \in Nat BY BuildingNode DEF Steady, IInv, TypeOK
<1>2. WithKid(Here, k, ret) \in Node /\ WithKid(Here, k, ret).kids = [Here.kids EXCEPT ![k] = ret]
  BY <1>1, WithKidFields DEF WithKid, Node
<1>3. /\ Steps(label) /\ Accounts(Top.node, {Top.node})
      /\ nodes'[Top.node] = WithKid(Here, k, ret)
  BY <1>2, StoreKept
<1>4. Open(at, nodes'[Top.node]) /\ Top.node \in Nat /\ Top.node # 0
  BY <1>2, <1>3, StoredOpen
<1> QED BY <1>3, <1>4, NodeMore


(* Where a node under construction has its children.                       *)
LEMMA HerePlaces ==
  ASSUME Steady, NEW label \in Building, Running(label)
  PROVE  /\ label \in IfPoints => {1, 2, 3} \subseteq DOMAIN Here.kids
         /\ label \in FuncPoints => 1 \in DOMAIN Here.kids
         /\ KindsAt(label) = {"BINARY"} => 2 \in DOMAIN Here.kids
         /\ KindsAt(label) = {"UNARY"} => 1 \in DOMAIN Here.kids
<1>1. Top.node \in DOMAIN nodes /\ Here.kind \in KindsAt(label)
  <2>1. stack \in Seq(Frame) /\ stack # <<>> BY DEF Steady, IInv, TypeOK, Running
  <2>2. Top = stack[1] /\ 1 \in DOMAIN stack /\ Top.at = label
    BY <2>1, LenProperties, EmptySeq DEF Top, Running
  <2> QED BY <2>2 DEF Steady, TreeInv, TreeOf, Suits, Here
<1>2. Sized(Here) BY <1>1 DEF Steady, TreeInv, TreeOf, Here
<1>3. Here \in Node BY BuildingNode DEF Steady
<1> QED BY <1>1, <1>2, <1>3, Places, KindsTable

LEMMA PlacedAttach ==
  ASSUME Steady, NEW label, NEW k, Attach(label, k),
         \/ label = "IfElse" /\ k = 2
         \/ label = "FuncBody" /\ k = 1
         \/ label \in {"DeclRhs", "CmpRhs"} /\ k = 2
         \/ label \in {"DerefArg", "RefArg"} /\ k = 1
  PROVE  KeptInv'
<1>1. label \in (Building \cap Resumptions) \ HoldingLeft
  BY DEF Building, Resumptions, HoldingLeft
<1>2. Running(label) BY DEF Attach, Resumes
<1>3. k \in Later(label) BY LaterTable DEF FuncPoints
<1>4. k \in DOMAIN Here.kids
  BY <1>1, <1>2, HerePlaces, KindsTable DEF IfPoints, FuncPoints
<1> QED BY <1>1, <1>3, <1>4, AttachKept

LEMMA IfKept ==
  ASSUME Steady, IfOpen \/ IfCond \/ IfThen \/ IfElse
  PROVE  KeptInv'
<1>1. /\ {"IfOpen", "IfCond", "IfThen", "IfElse"} \subseteq Building \ HoldingLeft
      /\ {"IfCond", "IfThen", "IfElse"} \subseteq Resumptions /\ "IfOpen" \notin Resumptions
      /\ Later("IfOpen") = {1, 2, 3} /\ Later("IfCond") = {1, 2, 3}
      /\ Later("IfThen") = {1, 2} /\ Later("IfElse") = {2}
  BY LaterTable DEF Building, Resumptions, HoldingLeft
<1>2. ASSUME NEW label \in {"IfOpen", "IfCond", "IfThen"}, Running(label),
             NEW at \in {"IfCond", "IfThen", "IfElse"}
      PROVE  FrNode(at, Top.node) \in Frame /\ {1, 2, 3} \subseteq DOMAIN Here.kids
  <2>1. Top.node \in Nat BY <1>1, <1>2, BuildingNode DEF Steady
  <2> QED BY <1>1, <1>2, <2>1, NodeInFrame, HerePlaces DEF IfPoints
<1>3. CASE IfOpen
  <2>1. /\ Running("IfOpen") /\ UNCHANGED status /\ UNCHANGED nodes
        /\ Call(<<Fr("Decl"), FrNode("IfCond", Top.node)>>)
    BY <1>3 DEF IfOpen, Reads, Sees
  <2>2. Bare(<<Fr("Decl")>>) /\ Call(<<Fr("Decl")>> \o <<FrNode("IfCond", Top.node)>>)
    BY <1>2, <2>1, PairCall
  <2> QED BY <1>1, <2>1, <2>2, CallKept
<1>4. CASE IfCond
  <2>1. /\ Running("IfCond") /\ UNCHANGED status /\ Update(WithKid(Here, 3, ret))
        /\ Call(<<Fr("Block"), FrNode("IfThen", Top.node)>>)
    BY <1>4 DEF IfCond, Reads, Sees
  <2>2. Bare(<<Fr("Block")>>) /\ Call(<<Fr("Block")>> \o <<FrNode("IfThen", Top.node)>>)
    BY <1>2, <2>1, PairCall
  <2>3. 3 \in DOMAIN Here.kids \cap Later("IfCond") /\ Later("IfThen") \subseteq Later("IfCond") \ {3}
    BY <1>1, <1>2, <2>1
  <2> QED BY <1>1, <2>1, <2>2, <2>3, StoreCallKept
<1>5. CASE IfThen
  <2>1. /\ Running("IfThen") /\ UNCHANGED status /\ Update(WithKid(Here, 1, ret))
        /\ Call(<<Fr("Block"), FrNode("IfElse", Top.node)>>) \/ Return(Top.node)
    BY <1>5 DEF IfThen, Reads, Sees
  <2>2. 1 \in DOMAIN Here.kids \cap Later("IfThen") /\ Later("IfElse") \subseteq Later("IfThen") \ {1}
    BY <1>1, <1>2, <2>1
  <2>3. CASE Call(<<Fr("Block"), FrNode("IfElse", Top.node)>>)
    <3>1. Bare(<<Fr("Block")>>) /\ Call(<<Fr("Block")>> \o <<FrNode("IfElse", Top.node)>>)
      BY <1>2, <2>1, <2>3, PairCall
    <3> QED BY <1>1, <2>1, <2>2, <3>1, StoreCallKept
  <2>4. CASE Return(Top.node)
    <3>1. Here \in Node /\ ret \in Nat BY <1>1, <2>1, BuildingNode DEF Steady, IInv, TypeOK
    <3>2. /\ WithKid(Here, 1, ret) \in Node
          /\ WithKid(Here, 1, ret).kids = [Here.kids EXCEPT ![1] = ret]
      BY <3>1, WithKidFields DEF WithKid, Node
    <3>3. Steps("IfThen") /\ Accounts(Top.node, {Top.node})
      BY <1>1, <2>1, <2>2, <3>2, StoreKept
    <3> QED BY <2>4, <3>3, KeptReturns DEF Steps
  <2> QED BY <2>1, <2>3, <2>4
<1>6. CASE IfElse BY <1>6, PlacedAttach DEF IfElse
<1> QED BY <1>3, <1>4, <1>5, <1>6

LEMMA BlockKept ==
  ASSUME Steady, Block \/ BlockLoop \/ BlockPush \/ BlockClose
  PROVE  KeptInv'
<1>1. /\ {"BlockLoop", "BlockPush", "BlockClose"} \subseteq Building \ HoldingLeft
      /\ {"BlockLoop", "BlockClose"} \cap Resumptions = {} /\ "BlockPush" \in Resumptions
      /\ \A at \in {"BlockLoop", "BlockPush", "BlockClose"} : Later(at) = {}
      /\ "BLOCK" \in NodeKind /\ "Block" \notin Building \cup HoldingLeft \cup Resumptions
  BY LaterTable DEF Building, Resumptions, BlockPoints, NodeKind, StatementKind, HoldingLeft
<1>2. CASE Block
  <2>1. /\ Running("Block") /\ UNCHANGED status
        /\ Add(<<NewNode("BLOCK")>>) /\ Call(<<FrNode("BlockLoop", New)>>)
    BY <1>2 DEF Block, Reads, Sees
  <2>2. NewNode("BLOCK") \in Node /\ NewNode("BLOCK").kids = FreshKids("BLOCK")
    BY <1>1, NewNodeFields
  <2>3. Open("BlockLoop", NewNode("BLOCK")) BY <2>2, FreshOpen
  <2> QED BY <1>1, <2>1, <2>2, <2>3, BuiltOne
<1>3. CASE BlockLoop
  <2>1. /\ Running("BlockLoop") /\ UNCHANGED status /\ UNCHANGED nodes
        /\ Goto("BlockClose") \/ Call(<<Fr("Statement"), FrNode("BlockPush", Top.node)>>)
    BY <1>3 DEF BlockLoop, Reads, Sees
  <2>2. CASE Goto("BlockClose") BY <1>1, <2>1, <2>2, GotoKept
  <2>3. CASE Call(<<Fr("Statement"), FrNode("BlockPush", Top.node)>>)
    <3>1. Top.node \in Nat BY <1>1, <2>1, BuildingNode DEF Steady
    <3>2. FrNode("BlockPush", Top.node) \in Frame BY <1>1, <3>1, NodeInFrame
    <3>3. /\ Bare(<<Fr("Statement")>>)
          /\ Call(<<Fr("Statement")>> \o <<FrNode("BlockPush", Top.node)>>)
      BY <2>3, <3>2, PairCall
    <3> QED BY <1>1, <2>1, <3>3, CallKept
  <2> QED BY <2>1, <2>2, <2>3
<1>4. CASE BlockPush
  <2> DEFINE nd == [Here EXCEPT !.kids = Append(@, ret)]
  <2>1. /\ Running("BlockPush") /\ UNCHANGED status /\ Update(nd)
        /\ Call(<<FrNode("BlockLoop", Top.node)>>)
    BY <1>4 DEF BlockPush, Resumes, Goto
  <2>2. Here \in Node /\ ret \in Nat BY <1>1, <2>1, BuildingNode DEF Steady, IInv, TypeOK
  <2>3. /\ Here.kids \in Seq(Nat) /\ Append(Here.kids, ret) \in Seq(Nat)
        /\ Len(Here.kids) \in Nat /\ Len(Append(Here.kids, ret)) = Len(Here.kids) + 1
        /\ \A i \in 1 .. Len(Here.kids) : Append(Here.kids, ret)[i] = Here.kids[i]
        /\ Append(Here.kids, ret)[Len(Here.kids) + 1] = ret
    BY <2>2, AppendProperties, LenProperties DEF Node
  <2>4. nd \in Node /\ nd.kids = Append(Here.kids, ret) BY <2>2, <2>3 DEF Node
  <2> HIDE DEF nd
  <2>5. Steps("BlockPush") /\ Sets(nd) /\ nodes'[Top.node] = nd BY <1>1, <2>1, <2>4, StepsSet
  <2>6. ret # 0 /\ Top.node \in Nat /\ Top.node # 0
    BY <1>1, <2>1, <2>5, Given, Builds, BuildingNode DEF Steps, Steady
  <2>7. /\ DOMAIN Here.kids = 1 .. Len(Here.kids)
        /\ DOMAIN nd.kids = 1 .. Len(Here.kids) + 1
    BY <2>3, <2>4, LenProperties
  <2>8. ret \in ChildSet(nd.kids)
    <3>1. Len(Here.kids) + 1 \in DOMAIN nd.kids BY <2>3, <2>7
    <3> QED BY <2>3, <2>4, <2>6, <3>1 DEF ChildSet
  <2>9. ASSUME NEW c \in KidsOf(nodes, Top.node) PROVE c \in ChildSet(nd.kids)
    <3>1. c # 0 /\ \E m \in DOMAIN Here.kids : c = Here.kids[m] BY KidOf DEF Here
    <3>2. PICK m \in DOMAIN Here.kids : c = Here.kids[m] BY <3>1
    <3>3. m \in DOMAIN nd.kids /\ nd.kids[m] = c BY <2>3, <2>4, <2>7, <3>2
    <3> QED BY <3>1, <3>3 DEF ChildSet
  <2>10. Accounts(Top.node, {Top.node}) BY <1>1, <2>5, <2>8, <2>9, ChildAccounts
  <2>11. Open("BlockLoop", nodes'[Top.node]) BY <1>1 DEF Open
  <2> QED BY <1>1, <2>1, <2>5, <2>6, <2>10, <2>11, NodeOne
<1>5. CASE BlockClose
  <2>1. /\ Running("BlockClose") /\ UNCHANGED status /\ UNCHANGED nodes /\ Return(Top.node)
    BY <1>5 DEF BlockClose, Insists, Reads, Sees
  <2> QED BY <1>1, <2>1, ReturnKept
<1> QED BY <1>2, <1>3, <1>4, <1>5


(* A field of the node other than its children is written.                 *)
LEMMA FieldKept ==
  ASSUME Steady, NEW label \in Building \ (HoldingLeft \cup Resumptions), Running(label),
         UNCHANGED status, NEW nd \in Node, Update(nd), nd.kids = Here.kids, nd.kind = Here.kind
  PROVE  /\ Steps(label) /\ Accounts(0, {Top.node})
         /\ \A at : Later(at) \subseteq Later(label) => Open(at, nodes'[Top.node])
         /\ Top.node \in Nat /\ Top.node # 0
<1>1. Steps(label) /\ Sets(nd) /\ nodes'[Top.node] = nd BY StepsSet
<1>2. Accounts(0, {Top.node}) BY <1>1, FieldAccounts
<1>3. ASSUME NEW at, Later(at) \subseteq Later(label) PROVE Open(at, nodes'[Top.node])
  BY <1>1, <1>3, StillOpen
<1>4. Top.node \in Nat /\ Top.node # 0 BY <1>1, BuildingNode, Builds DEF Steps, Steady
<1> QED BY <1>1, <1>2, <1>3, <1>4

LEMMA DefNameKept ==
  ASSUME Steady, DefName
  PROVE  KeptInv'
<1> DEFINE nd == [Here EXCEPT !.name = Lexeme(At)]
<1>1. Running("DefName") /\ UNCHANGED status /\ Update(nd) BY DEF DefName, Reads, Sees
<1>2. "DefName" \in Building \ (HoldingLeft \cup Resumptions)
  BY DEF Building, HoldingLeft, Resumptions
<1>3. Here \in Node /\ Lexeme(At) \in Name
  BY <1>1, <1>2, BuildingNode, Looking DEF DefName, Reads, Sees, Steady
<1>4. nd \in Node /\ nd.kids = Here.kids /\ nd.kind = Here.kind BY <1>3 DEF Node
<1> HIDE DEF nd
<1>5. PICK at \in {"FuncOpen", "AggOpen"} : Call(<<FrNode(at, Top.node)>>) BY DEF DefName
<1>6. at \in Building \ HoldingLeft /\ Later(at) \subseteq Later("DefName")
  BY LaterTable DEF Building, HoldingLeft, FuncPoints, AggPoints
<1>7. /\ Steps("DefName") /\ Accounts(0, {Top.node}) /\ Open(at, nodes'[Top.node])
      /\ Top.node \in Nat /\ Top.node # 0
  BY <1>1, <1>2, <1>4, <1>6, FieldKept
<1> QED BY <1>5, <1>6, <1>7, NodeOne

LEMMA ParamsKept ==
  ASSUME Steady, Params
  PROVE  KeptInv'
<1>1. Running("Params") /\ UNCHANGED status /\ At < NTokens BY DEF Params, Reads, Sees
<1>2. /\ "Params" \in Building \ (HoldingLeft \cup Resumptions)
      /\ {"MemberSemi", "FuncClose", "AggClose"} \subseteq Building \ HoldingLeft
      /\ \A at \in {"MemberSemi", "FuncClose", "AggClose"} : Later(at) \subseteq Later("Params")
  BY LaterTable DEF Building, HoldingLeft, Resumptions, FuncPoints, AggPoints
<1>3. ASSUME NEW m \in AstIdentifier, AddMember(m)
      PROVE  /\ Steps("Params") /\ Accounts(0, {Top.node})
             /\ \A at : Later(at) \subseteq Later("Params") => Open(at, nodes'[Top.node])
             /\ Top.node \in Nat /\ Top.node # 0
  <2> DEFINE nd == [Here EXCEPT !.members = Append(@, m)]
  <2>1. Here \in Node BY <1>1, <1>2, BuildingNode DEF Steady
  <2>2. Append(Here.members, m) \in Seq(AstIdentifier) BY <2>1, AppendProperties DEF Node
  <2>3. nd \in Node /\ nd.kids = Here.kids /\ nd.kind = Here.kind BY <2>1, <2>2 DEF Node
  <2>4. Update(nd) BY <1>3 DEF AddMember
  <2> HIDE DEF nd
  <2> QED BY <1>1, <1>2, <2>3, <2>4, FieldKept
<1>4. CASE AddMember(Parameter) /\ Identifier(At) /\ IsParameter /\ UNCHANGED <<stack, ret>>
  <2>1. /\ Steps("Params") /\ Accounts(0, {Top.node})
        /\ Open("Params", nodes'[Top.node]) /\ Top.node # 0
    BY <1>1, <1>3, <1>4, ParameterType DEF Steady
  <2>2. /\ stack \in Seq(Frame) /\ stack # <<>> /\ Top.at = "Params"
        /\ Top = Head(stack) /\ Top \in Frame /\ Top = stack[1] /\ 1 \in DOMAIN stack
    <3>1. stack \in Seq(Frame) /\ stack # <<>> BY <1>1 DEF Steady, IInv, TypeOK, Running
    <3> QED BY <1>1, <3>1, HeadTailProperties, LenProperties, EmptySeq DEF Running, Top
  <2>3. Call(<<Top>>) BY <1>4, <2>2, HeadAndTail DEF Call
  <2>4. Top.left = 0 BY <1>2, <2>2 DEF Steady, KeptInv, Unfilled
  <2>5. Own(Top) = {Top.node} BY <2>1, <2>4 DEF Own
  <2>6. "Params" # "TermRhs" OBVIOUS
  <2>7. Unfilled(nodes', Top) BY <2>1, <2>2, <2>4, <2>6 DEF Unfilled
  <2> QED BY <2>1, <2>2, <2>3, <2>5, <2>7, EndsOne, KeptCalls DEF Steps
<1>5. ASSUME NEW m \in AstIdentifier, AddMember(m), Goto("MemberSemi")
      PROVE  KeptInv'
  BY <1>2, <1>3, <1>5, NodeOne DEF Goto
<1>6. CASE Identifier(At) /\ IsParameter /\ AddMember(Parameter) /\ Goto("MemberSemi")
  BY <1>1, <1>5, <1>6, ParameterType DEF Steady
<1>7. CASE /\ Identifier(At) /\ Goto("MemberSemi")
           /\ AddMember([name |-> Lexeme(At), type |-> ZeroType])
  <2>1. ZeroType \in AstType BY DEF ZeroType, AstType, ValueType
  <2>2. [name |-> Lexeme(At), type |-> ZeroType] \in AstIdentifier
    BY <1>1, <1>7, <2>1, Looking DEF Steady, AstIdentifier
  <2> QED BY <1>5, <1>7, <2>2
<1>8. CASE /\ UNCHANGED nodes
           /\ Call(<<FrNode(IF Here.kind = "FUNC" THEN "FuncClose" ELSE "AggClose", Top.node)>>)
  <2>1. PICK at \in {"FuncClose", "AggClose"} : Goto(at) BY <1>8 DEF Goto
  <2> QED BY <1>1, <1>2, <1>8, <2>1, GotoKept
<1> QED BY <1>4, <1>6, <1>7, <1>8 DEF Params

LEMMA InsistingKept ==
  ASSUME Steady, FuncOpen \/ AggOpen \/ MemberSemi \/ AggClose
                 \/ FuncClose \/ FuncColon \/ ExprSemi
  PROVE  KeptInv'
<1>1. /\ {"FuncOpen", "FuncClose", "FuncColon", "FuncType", "Params", "AggOpen", "MemberSemi", "AggClose"}
           \subseteq Building \ (HoldingLeft \cup Resumptions)
      /\ "ExprSemi" \in Resumptions /\ "ExprSemi" \notin Building \cup HoldingLeft
  BY DEF Building, HoldingLeft, Resumptions
<1>2. ASSUME NEW label, Insists(label)
      PROVE  Running(label) /\ UNCHANGED status /\ UNCHANGED nodes
  BY <1>2, InsistsTree
<1>3. \A at \in {"FuncOpen", "FuncClose", "FuncColon", "FuncType", "Params", "AggOpen", "MemberSemi", "AggClose"} :
        Later(at) = {1}
  BY LaterTable DEF FuncPoints, AggPoints
<1>4. CASE FuncOpen BY <1>1, <1>2, <1>3, <1>4, GotoKept DEF FuncOpen
<1>5. CASE AggOpen BY <1>1, <1>2, <1>3, <1>5, GotoKept DEF AggOpen
<1>10. CASE MemberSemi BY <1>1, <1>2, <1>3, <1>10, GotoKept DEF MemberSemi
<1>6. CASE AggClose BY <1>1, <1>2, <1>6, ReturnKept DEF AggClose
<1>7. CASE FuncClose BY <1>1, <1>2, <1>3, <1>7, GotoKept DEF FuncClose
<1>8. CASE FuncColon BY <1>1, <1>2, <1>3, <1>8, GotoKept DEF FuncColon
<1>9. CASE ExprSemi BY <1>1, <1>2, <1>9, BackKept DEF ExprSemi
<1> QED BY <1>4, <1>5, <1>6, <1>7, <1>8, <1>9, <1>10


LEMMA FuncTypeKept ==
  ASSUME Steady, FuncType
  PROVE  KeptInv'
<1>1. Running("FuncType") /\ UNCHANGED status BY DEF FuncType, Reads, Sees
<1>2. /\ "FuncType" \in Building \ (HoldingLeft \cup Resumptions)
      /\ "FuncBody" \in Building \ HoldingLeft
      /\ Later("FuncBody") \subseteq Later("FuncType")
  BY LaterTable DEF Building, HoldingLeft, Resumptions, FuncPoints
<1>3. Here \in Node BY <1>1, <1>2, BuildingNode DEF Steady
<1>4. [value |-> TypeOfId[Kind(At)], ptr |-> Kind(At) = "T_STAR"] \in AstType
  <2>1. TypeOfId[Kind(At)] \in ValueType BY DEF FuncType, TypeIds, TypeOfId, ValueType
  <2>2. (Kind(At) = "T_STAR") \in BOOLEAN OBVIOUS
  <2> QED BY <2>1, <2>2, Zenon DEF AstType
<1> DEFINE ty == [value |-> TypeOfId[Kind(At)], ptr |-> Kind(At) = "T_STAR"]
           nd == [Here EXCEPT !.type = ty]
<1>5. Update(nd) /\ Call(<<Fr("Block"), FrNode("FuncBody", Top.node)>>) BY DEF FuncType
<1>6. ty \in AstType BY <1>4
<1> HIDE DEF ty
<1>7. nd \in Node /\ nd.kids = Here.kids /\ nd.kind = Here.kind BY <1>3, <1>6 DEF Node
<1> HIDE DEF nd
<1>8. /\ Steps("FuncType") /\ Accounts(0, {Top.node}) /\ Open("FuncBody", nodes'[Top.node])
      /\ Top.node \in Nat /\ Top.node # 0
  BY <1>1, <1>2, <1>5, <1>7, FieldKept
<1>9. FrNode("FuncBody", Top.node) \in Frame BY <1>2, <1>8, NodeInFrame
<1>10. Bare(<<Fr("Block")>>) /\ Call(<<Fr("Block")>> \o <<FrNode("FuncBody", Top.node)>>)
  BY <1>5, <1>9, PairCall
<1> QED BY <1>2, <1>8, <1>10, NodeMore

(* The node of an assignment, made with the node of the name it assigns.   *)
LEMMA AssignKept ==
  ASSUME Steady, NEW label, Running(label), UNCHANGED status,
         label \notin Building \cup HoldingLeft \cup Resumptions,
         NEW table, NEW z \in DOMAIN table, table \in [DOMAIN table -> AstIdentifier],
         CreateAssign(z, table), NEW at \in {"DeclRhs", "AssignRhs"},
         NEW fs, Bare(fs), Call(fs \o <<FrNode(at, New)>>)
  PROVE  KeptInv'
<1> DEFINE nd == [NewNode("BINARY") EXCEPT !.op = "DECL", !.kids = <<New + 1, 0>>]
           md == [NewNode("IDENTIFIER") EXCEPT !.name = table[z].name, !.type = table[z].type]
<1>1. /\ "BINARY" \in NodeKind /\ "IDENTIFIER" \in NodeKind /\ at \in Building \ HoldingLeft
      /\ Later(at) = {2}
  BY LaterTable DEF NodeKind, ExpressionKind, Building, HoldingLeft
<1>2. nd \in Node /\ nd.kids = <<New + 1, 0>>
  <2>1. ZeroType \in AstType /\ "DECL" \in BinaryOp
    BY DEF ZeroType, AstType, ValueType, BinaryOp
  <2>2. New + 1 \in Nat /\ 0 \in Nat BY NewIsNat DEF Steady
  <2>3. NewNode("BINARY") \in Node /\ NewNode("BINARY").kind = "BINARY" BY <1>1, NewNodeFields
  <2>4. nd \in Node BY <2>1, <2>2, <2>3, BinaryNode
  <2> QED BY <2>3, <2>4 DEF Node
<1>3. md \in Node /\ md.kind = "IDENTIFIER" /\ md.kids = FreshKids("IDENTIFIER")
  <2>1. table[z].name \in Name \cup {NoName} /\ table[z].type \in AstType BY DEF AstIdentifier
  <2>2. /\ NewNode("IDENTIFIER") \in Node /\ NewNode("IDENTIFIER").kind = "IDENTIFIER"
        /\ NewNode("IDENTIFIER").kids = FreshKids("IDENTIFIER")
    BY <1>1, NewNodeFields
  <2> QED BY <2>1, <2>2 DEF Node
<1>4. Add(<<nd, md>>) BY DEF CreateAssign
<1> HIDE DEF nd, md
<1>5. ChildSet(md.kids) = {} BY <1>1, <1>3, FreshNode
<1>6. /\ Steps(label) /\ Fresh = {New, New + 1} /\ nodes'[New] = nd
      /\ New \in Nat /\ New # 0 /\ New + 1 # 0
  BY <1>2, <1>3, <1>4, StepsTwo
<1>7. \A c \in Free \ {New} : c \in {New} \cup ChildSet(nd.kids)
  <2>1. nd.kids[1] = New + 1 /\ 1 \in DOMAIN nd.kids BY <1>2
  <2>2. New + 1 \in ChildSet(nd.kids) BY <1>6, <2>1 DEF ChildSet
  <2>3. \A c \in Free : c \in Fresh BY <1>6, HasFree DEF Steps
  <2> QED BY <1>6, <2>2, <2>3
<1>8. Accounts(New, {New}) BY <1>2, <1>3, <1>4, <1>5, <1>7, TwoAccounts
<1>9. Open(at, nodes'[New])
  <2>1. nd.kids[2] = 0 BY <1>2
  <2> QED BY <1>1, <1>6, <2>1 DEF Open
<1> QED BY <1>1, <1>6, <1>8, <1>9, NodeMore

LEMMA DeclKept ==
  ASSUME Steady, Decl \/ DeclType \/ DeclEq \/ DeclRhs
  PROVE  KeptInv'
<1>1. /\ {"DeclType", "DeclEq"} \subseteq Labels \ (Building \cup Resumptions)
      /\ {"DeclType", "DeclEq"} \subseteq Declaring
      /\ {"Decl", "DeclType", "DeclEq"} \cap (Building \cup HoldingLeft \cup Resumptions) = {}
  BY DEF Labels, Building, Resumptions, Declaring, HoldingLeft
<1>2. ASSUME NEW at \in {"DeclType", "DeclEq"}
      PROVE  Fr(at) \in Frame /\ Fr(at).at = at /\ Fr(at).node = 0 /\ Fr(at).left = 0
  <2>1. Fr(at) \in Frame /\ Blank(Fr(at)) BY <1>1, BareFrame
  <2> QED BY <2>1 DEF Fr
<1>3. CASE Decl
  <2> DEFINE fr == [Fr("DeclType") EXCEPT !.name = Lexeme(At)]
  <2>1. Running("Decl") /\ UNCHANGED status /\ UNCHANGED nodes /\ At < NTokens
    BY <1>3 DEF Decl, Reads, Sees
  <2>2. ASSUME Identifier(At), Call(<<fr>>) PROVE KeptInv'
    <3>1. Lexeme(At) \in Name BY <2>1, <2>2, Looking DEF Steady
    <3>2. fr \in Frame /\ fr.at = "DeclType" /\ fr.node = 0 /\ fr.left = 0
      BY <1>2, <3>1 DEF Frame
    <3> HIDE DEF fr
    <3>3. Bare(<<fr>>) BY <1>1, <3>2, BareOne DEF Blank
    <3> QED BY <1>1, <2>1, <2>2, <3>3, BareKept
  <2>3. CASE Call(LogicCall) BY <1>1, <2>1, <2>3, BareCalls, BareKept
  <2> QED BY <1>3, <2>2, <2>3 DEF Decl
<1>4. CASE DeclType
  <2>1. Running("DeclType") /\ UNCHANGED status /\ UNCHANGED nodes
    BY <1>4 DEF DeclType, Reads, Sees
  <2>2. Top.name \in Name BY <1>1, <2>1, TopFrame DEF FrameOK, Steady
  <2>3. ASSUME NEW star \in BOOLEAN, Kind(At) \in TypeIds,
               Call(<<[Fr("DeclEq") EXCEPT
                         !.name = Top.name,
                         !.type = [value |-> TypeOfId[Kind(At)], ptr |-> star]]>>)
        PROVE  KeptInv'
    <3> DEFINE ty == [value |-> TypeOfId[Kind(At)], ptr |-> star]
               fr == [Fr("DeclEq") EXCEPT !.name = Top.name, !.type = ty]
    <3>1. ty \in AstType
      <4>1. TypeOfId[Kind(At)] \in ValueType BY <2>3 DEF TypeIds, TypeOfId, ValueType
      <4> QED BY <4>1 DEF AstType
    <3>2. Call(<<fr>>) BY <2>3
    <3> HIDE DEF ty
    <3>3. fr \in Frame /\ fr.at = "DeclEq" /\ fr.node = 0 /\ fr.left = 0
      BY <1>2, <2>2, <3>1 DEF Frame
    <3> HIDE DEF fr
    <3>4. Bare(<<fr>>) BY <1>1, <3>3, BareOne DEF Blank
    <3> QED BY <1>1, <2>1, <3>2, <3>4, BareKept
  <2>4. CASE Call(LogicCall) BY <1>1, <2>1, <2>4, BareCalls, BareKept
  <2>5. (Kind(SkipLf(At + 1)) = "T_STAR") \in BOOLEAN OBVIOUS
  <2> QED BY <1>4, <2>3, <2>4, <2>5 DEF DeclType
<1>5. CASE DeclEq
  <2> DEFINE entry == [name |-> Top.name, type |-> Top.type]
  <2>1. /\ Running("DeclEq") /\ UNCHANGED status
        /\ idents' = Emplace(idents, Top.name, entry)
        /\ CreateAssign(Top.name, idents')
        /\ Call(LogicCall \o <<FrNode("DeclRhs", New)>>)
    BY <1>5 DEF DeclEq, Sees
  <2>2. Top.name \in DOMAIN idents' BY <2>1 DEF Emplace
  <2>3. idents' \in [DOMAIN idents' -> AstIdentifier] BY DEF Steady, IInv, TypeOK
  <2> QED BY <1>1, <2>1, <2>2, <2>3, BareCalls, AssignKept
<1>6. CASE DeclRhs BY <1>6, PlacedAttach DEF DeclRhs
<1> QED BY <1>3, <1>4, <1>5, <1>6

LEMMA AssignmentKept ==
  ASSUME Steady, Assignment \/ AssignRhs
  PROVE  KeptInv'
<1>1. CASE Assignment
  <2>1. /\ Running("Assignment") /\ UNCHANGED status
        /\ "Assignment" \notin Building \cup HoldingLeft \cup Resumptions
    BY <1>1 DEF Assignment, Reads, Sees, Building, HoldingLeft, Resumptions
  <2>2. CASE HandOn(TermCall) BY <2>1, <2>2, BareCalls, BareKept DEF HandOn
  <2>3. CASE /\ Lexeme(At) \in DOMAIN idents /\ CreateAssign(Lexeme(At), idents)
             /\ Call(TermCall \o <<FrNode("AssignRhs", New)>>)
    <3>1. idents \in [DOMAIN idents -> AstIdentifier] BY DEF Steady, IInv, TypeOK
    <3> QED BY <2>1, <2>3, <3>1, BareCalls, AssignKept
  <2> QED BY <1>1, <2>2, <2>3 DEF Assignment
<1>2. CASE AssignRhs
  <2> DEFINE nd == [WithKid(Here, 2, ret) EXCEPT !.ev = nodes[ret].ev]
  <2>1. Running("AssignRhs") /\ UNCHANGED status /\ Update(nd) /\ Return(Top.node)
    BY <1>2 DEF AssignRhs, Resumes
  <2>2. /\ "AssignRhs" \in (Building \cap Resumptions) \ HoldingLeft
        /\ KindsAt("AssignRhs") = {"BINARY"} /\ Later("AssignRhs") = {2}
    BY KindsTable, LaterTable DEF Building, Resumptions, HoldingLeft
  <2>3. Here \in Node /\ nodes[ret] \in Node /\ ret \in Nat
    BY <2>1, <2>2, TopFrame, BuildingNode DEF Steady, IInv, TypeOK
  <2>4. WithKid(Here, 2, ret) \in Node /\ WithKid(Here, 2, ret).kids = [Here.kids EXCEPT ![2] = ret]
    BY <2>3, WithKidFields DEF WithKid, Node
  <2>5. nodes[ret].ev \in AstType BY <2>3 DEF Node
  <2>6. nd \in Node /\ nd.kids = [Here.kids EXCEPT ![2] = ret] BY <2>4, <2>5 DEF Node
  <2> HIDE DEF nd
  <2>7. 2 \in DOMAIN Here.kids \cap Later("AssignRhs") BY <2>1, <2>2, HerePlaces
  <2>8. Steps("AssignRhs") /\ Accounts(Top.node, {Top.node})
    BY <2>1, <2>2, <2>6, <2>7, StoreKept
  <2> QED BY <2>1, <2>8, KeptReturns DEF Steps
<1> QED BY <1>1, <1>2


LEMMA WaitsKept ==
  ASSUME Steady, NEW label \in {"LogicRest", "FactorRest"}, Running(label), UNCHANGED status,
         Add(<<NewNode("BINARY")>>), NEW at \in {"LogicRhs", "FactorRhs"},
         NEW op \in BinaryOp, NEW g, g = [FrNode(at, New) EXCEPT !.left = ret, !.op = op],
         NEW fs, Bare(fs), Call(fs \o <<g>>)
  PROVE  KeptInv'
<1>1. "BINARY" \in NodeKind /\ label \in Resumptions /\ label \notin Building \cup HoldingLeft
  BY DEF NodeKind, ExpressionKind, Resumptions, Building, HoldingLeft
<1>2. NewNode("BINARY") \in Node /\ NewNode("BINARY").kids = FreshKids("BINARY")
  BY <1>1, NewNodeFields
<1>3. /\ Steps(label) /\ Fresh = {New} /\ nodes'[New] = NewNode("BINARY")
      /\ New \in Nat /\ New # 0
  BY <1>2, StepsOne
<1>4. \A c \in Free \ {New} : c = ret BY <1>1, <1>3, HasFree DEF Steps
<1>5. Accounts(New, {New, ret}) BY <1>2, <1>4, OneAccounts
<1>6. ret \in Nat /\ ret # 0 BY <1>1, <1>3, Given DEF Steps
<1>7. Open(at, nodes'[New]) BY <1>2, <1>3, FreshOpen
<1>8. g \in Frame /\ g.at = at /\ g.node = New /\ g.left = ret
  <2>1. at \in Building BY DEF Building
  <2>2. FrNode(at, New) \in Frame /\ FrNode(at, New).at = at /\ FrNode(at, New).node = New
    BY <1>3, <2>1, NodeInFrame
  <2> QED BY <1>6, <2>2 DEF Frame
<1>9. Own(g) = {New, ret} /\ Unfilled(nodes', g)
  <2>1. g.at \in HoldingLeft /\ g.at # "TermRhs" BY <1>8 DEF HoldingLeft
  <2> QED BY <1>3, <1>6, <1>7, <1>8, <2>1 DEF Own, Unfilled
<1> QED BY <1>3, <1>5, <1>8, <1>9, EndsMore, KeptCalls DEF Steps

LEMMA HandBackKept ==
  ASSUME Steady, NEW label \in Resumptions, label \notin Building \cup HoldingLeft,
         Running(label), UNCHANGED status, HandBack(ret)
  PROVE  KeptInv'
BY BackKept DEF HandBack

(* Both places of the node are open, and both are filled.                  *)
LEMMA BothKept ==
  ASSUME Steady, NEW label \in {"LogicRhs", "FactorRhs", "NegRhs"}, Steps(label),
         NEW nd, Sets(nd), nd.kids = <<Top.left, ret>>
  PROVE  Accounts(Top.node, {Top.node})
<1>1. /\ label \in Building \cap Resumptions /\ label \in HoldingLeft
      /\ KindsAt(label) = {"BINARY"} /\ Later(label) = {1, 2}
  BY KindsTable, LaterTable DEF Building, Resumptions, HoldingLeft
<1>2. /\ Here.kind = "BINARY" /\ Sized(Here) /\ Here \in Node /\ Open(label, Here)
      /\ Top.node \in DOMAIN nodes /\ ret # 0
  BY <1>1, Builds, HasFree, Given DEF Steps
<1>3. Top.left # 0
  <2>1. Top.left \in 1 .. Len(nodes) BY <1>1, TopFrame DEF Steps, Going, FrameOK
  <2>2. Len(nodes) \in Nat BY Around DEF Steps
  <2> QED BY <2>1, <2>2
<1>4. nd.kids[1] = Top.left /\ nd.kids[2] = ret /\ 1 \in DOMAIN nd.kids /\ 2 \in DOMAIN nd.kids
  OBVIOUS
<1>5. ret \in ChildSet(nd.kids) /\ Top.left \in ChildSet(nd.kids)
  BY <1>2, <1>3, <1>4 DEF ChildSet
<1>6. \A k \in DOMAIN Here.kids : Here.kids[k] = 0
  <2>1. Here.kids \in Seq(Nat) BY <1>2 DEF Node
  <2>2. Len(Here.kids) = 2
    <3>1. Len(FreshKids("BINARY")) = 2 BY DEF FreshKids
    <3> QED BY <1>2, <3>1 DEF Sized
  <2>3. DOMAIN Here.kids = 1 .. 2 BY <2>1, <2>2, LenProperties
  <2> QED BY <1>1, <1>2, <2>3 DEF Open
<1>7. KidsOf(nodes, Top.node) = {} BY <1>6, KidOf DEF Here
<1> QED BY <1>1, <1>5, <1>7, ChildAccounts

LEMMA LogicKept ==
  ASSUME Steady, LogicRest \/ LogicRhs \/ FactorRest \/ FactorRhs
  PROVE  KeptInv'
<1>1. /\ {"LogicRest", "FactorRest"} \subseteq Resumptions
      /\ {"LogicRest", "FactorRest"} \cap (Building \cup HoldingLeft) = {}
      /\ {"LogicRhs", "FactorRhs"} \subseteq Building \cap Resumptions \cap HoldingLeft
      /\ {"AND", "OR", "MULT", "DIV"} \subseteq BinaryOp
  BY DEF Resumptions, Building, HoldingLeft, BinaryOp
<1>2. CASE LogicRest
  <2>1. Running("LogicRest") /\ UNCHANGED status BY <1>2 DEF LogicRest, Reads, Sees
  <2>2. CASE HandBack(ret) BY <1>1, <2>1, <2>2, HandBackKept
  <2>3. ASSUME NEW op \in {"AND", "OR"}, Add(<<NewNode("BINARY")>>),
               Call(LogicCall \o <<[FrNode("LogicRhs", New) EXCEPT !.left = ret, !.op = op]>>)
        PROVE  KeptInv'
    <3>1. op \in BinaryOp BY <1>1
    <3> QED BY <2>1, <2>3, <3>1, BareCalls, WaitsKept
  <2> QED BY <1>2, <2>2, <2>3 DEF LogicRest
<1>3. CASE FactorRest
  <2>1. Running("FactorRest") /\ UNCHANGED status BY <1>3 DEF FactorRest, Reads, Sees
  <2>2. CASE HandBack(ret) BY <1>1, <2>1, <2>2, HandBackKept
  <2>3. ASSUME NEW op \in {"MULT", "DIV"}, Add(<<NewNode("BINARY")>>),
               Call(<<Fr("Unary"), [FrNode("FactorRhs", New) EXCEPT !.left = ret, !.op = op]>>)
        PROVE  KeptInv'
    <3> DEFINE g == [FrNode("FactorRhs", New) EXCEPT !.left = ret, !.op = op]
    <3>1. op \in BinaryOp BY <1>1
    <3>2. g \in Frame
      <4>1. "FactorRhs" \in Building /\ New \in Nat /\ ret \in Nat
        BY <1>1, NewIsNat DEF Steady, IInv, TypeOK
      <4>2. FrNode("FactorRhs", New) \in Frame BY <4>1, NodeInFrame
      <4> QED BY <3>1, <4>1, <4>2 DEF Frame
    <3>3. Call(<<Fr("Unary"), g>>) /\ g = [FrNode("FactorRhs", New) EXCEPT !.left = ret, !.op = op]
      BY <2>3
    <3> HIDE DEF g
    <3>4. Bare(<<Fr("Unary")>>) /\ Call(<<Fr("Unary")>> \o <<g>>) BY <3>2, <3>3, PairCall
    <3> QED BY <2>1, <2>3, <3>1, <3>3, <3>4, WaitsKept
  <2> QED BY <1>3, <2>2, <2>3 DEF FactorRest
<1>4. ASSUME NEW label \in {"LogicRhs", "FactorRhs"}, Running(label), UNCHANGED status,
             NEW nd \in Node, Update(nd), nd.kids = <<Top.left, ret>>, Return(Top.node)
      PROVE  KeptInv'
  <2>1. Steps(label) /\ Sets(nd) BY <1>1, <1>4, StepsSet
  <2>2. Accounts(Top.node, {Top.node}) BY <1>4, <2>1, BothKept
  <2> QED BY <1>4, <2>1, <2>2, KeptReturns DEF Steps
<1>5. ZeroType \in AstType BY DEF ZeroType, AstType, ValueType
<1>6. CASE LogicRhs
  <2> DEFINE nd == [Here EXCEPT !.kids = <<Top.left, ret>>, !.op = Top.op]
  <2>1. Running("LogicRhs") /\ UNCHANGED status /\ Update(nd) /\ Return(Top.node)
    BY <1>6 DEF LogicRhs, Resumes
  <2>2. Here \in Node /\ Top.left \in Nat /\ ret \in Nat /\ Top.op \in BinaryOp \cup {"NONE"}
    BY <1>1, <2>1, BuildingNode, TopFrame, SMTT(30) DEF Frame, Steady, IInv, TypeOK
  <2>3. nd \in Node BY <1>5, <2>2, BinaryNode
  <2>4. nd.kids = <<Top.left, ret>> BY <2>2 DEF Node
  <2> HIDE DEF nd
  <2> QED BY <1>4, <2>1, <2>3, <2>4
<1>7. CASE FactorRhs
  <2> DEFINE nd == [Here EXCEPT !.kids = <<Top.left, ret>>, !.op = Top.op, !.ev = nodes[Top.left].ev]
  <2>1. Running("FactorRhs") /\ UNCHANGED status /\ Update(nd) /\ Return(Top.node)
    BY <1>7 DEF FactorRhs, Resumes
  <2>2. /\ Here \in Node /\ ret \in Nat /\ Top.op \in BinaryOp \cup {"NONE"}
        /\ Top.left \in 1 .. Len(nodes)
    BY <1>1, <2>1, BuildingNode, TopFrame DEF Frame, FrameOK, Steady, IInv, TypeOK
  <2>3. nodes[Top.left].ev \in AstType /\ Top.left \in Nat
    BY <2>2, TypesOfLengths, SMTT(30) DEF Node, Steady
  <2>4. nd \in Node BY <2>2, <2>3, BinaryNode
  <2>5. nd.kids = <<Top.left, ret>> BY <2>2 DEF Node
  <2> HIDE DEF nd
  <2> QED BY <1>4, <2>1, <2>4, <2>5
<1> QED BY <1>2, <1>3, <1>6, <1>7

LEMMA ComparisonKept ==
  ASSUME Steady, CmpRest \/ CmpRhs
  PROVE  KeptInv'
<1>1. /\ "BINARY" \in NodeKind /\ "CmpRest" \in Resumptions
      /\ "CmpRest" \notin Building \cup HoldingLeft
      /\ "CmpRhs" \in Building \ HoldingLeft /\ Later("CmpRhs") = {2}
  BY LaterTable DEF NodeKind, ExpressionKind, Resumptions, Building, HoldingLeft
<1>2. CASE CmpRest
  <2>1. Running("CmpRest") /\ UNCHANGED status BY <1>2 DEF CmpRest, Reads, Sees
  <2>2. CASE HandBack(ret) BY <1>1, <2>1, <2>2, HandBackKept
  <2>3. ASSUME Kind(At) \in ComparisonTokens,
               Add(<<[NewNode("BINARY") EXCEPT !.ev = [value |-> "BOOL", ptr |-> FALSE],
                                               !.kids = <<ret, 0>>,
                                               !.op = OpOfComparison[Kind(At)]]>>),
               Call(CmpCall \o <<FrNode("CmpRhs", New)>>)
        PROVE  KeptInv'
    <3> DEFINE nd == [NewNode("BINARY") EXCEPT !.ev = [value |-> "BOOL", ptr |-> FALSE],
                                               !.kids = <<ret, 0>>,
                                               !.op = OpOfComparison[Kind(At)]]
    <3>1. OpOfComparison[Kind(At)] \in BinaryOp
      BY <2>3 DEF ComparisonTokens, OpOfComparison, BinaryOp
    <3>2. [value |-> "BOOL", ptr |-> FALSE] \in AstType BY DEF AstType, ValueType
    <3>3. ret \in Nat /\ 0 \in Nat BY SMTT(30) DEF Steady, IInv, TypeOK
    <3>4. nd \in Node BY <1>1, <3>1, <3>2, <3>3, NewNodeType, BinaryNode
    <3>5. nd.kids = <<ret, 0>>
      <4>1. NewNode("BINARY") \in Node BY <1>1, NewNodeFields
      <4> QED BY <4>1 DEF Node
    <3>6. Add(<<nd>>) BY <2>3
    <3> HIDE DEF nd
    <3>7. /\ Steps("CmpRest") /\ Fresh = {New} /\ nodes'[New] = nd /\ New \in Nat /\ New # 0
      BY <2>1, <3>4, <3>6, StepsOne
    <3>8. ret # 0 BY <1>1, <3>7, Given DEF Steps
    <3>9. nd.kids[1] = ret /\ nd.kids[2] = 0 /\ 1 \in DOMAIN nd.kids BY <3>5
    <3>10. ret \in ChildSet(nd.kids) BY <3>8, <3>9 DEF ChildSet
    <3>11. \A c \in Free \ {New} : c = ret BY <1>1, <3>7, HasFree DEF Steps
    <3>12. Accounts(New, {New}) BY <2>1, <3>4, <3>6, <3>10, <3>11, OneAccounts
    <3>13. Open("CmpRhs", nodes'[New]) BY <1>1, <3>7, <3>9 DEF Open
    <3> QED BY <1>1, <2>3, <3>7, <3>12, <3>13, BareCalls, NodeMore
  <2> QED BY <1>2, <2>2, <2>3 DEF CmpRest
<1>3. CASE CmpRhs BY <1>3, PlacedAttach DEF CmpRhs
<1> QED BY <1>2, <1>3


(* A sum: its left operand gets its parent before the right one is read,   *)
(* so that the place of the right one is all that is open.                 *)
LEMMA LoopUnfilled ==
  ASSUME NEW ns, NEW g, g.at = "TermLoop", g.node = 0, g.left # 0
  PROVE  Own(g) = {g.left} /\ Unfilled(ns, g)
BY DEF Own, Unfilled, HoldingLeft, Building

LEMMA TermRhsAccounts ==
  ASSUME Steady, Steps("TermRhs"), NEW nd, Sets(nd),
         \/ nd.kids = [Here.kids EXCEPT ![2] = ret]
         \/ nodes[Top.left].kind = "LITERAL" /\ nodes[ret].kind = "LITERAL"
  PROVE  Accounts(Top.node, {Top.node})
<1>1. "TermRhs" \in Building \cap Resumptions \cap HoldingLeft
  BY DEF Building, Resumptions, HoldingLeft
<1>2. /\ Here.kids = <<Top.left, 0>> /\ ret # 0 /\ ret \in DOMAIN nodes
      /\ Top.node \in DOMAIN nodes /\ Top.node # ret /\ Top.node # Top.left /\ Top.left # 0
      /\ Top.left \in DOMAIN nodes
  <2>1. Here.kids = <<Top.left, 0>> BY HasFree DEF Steps
  <2>2. Top.node \in DOMAIN nodes /\ Top.node # 0 BY <1>1, Builds DEF Steps
  <2>3. Top.node \in Grasp(nodes, Top) BY <2>2 DEF Grasp
  <2>4. ret # 0 /\ ret \in DOMAIN nodes /\ Top.node # ret BY <1>1, <2>3, Given DEF Steps
  <2>5. Top.left \in 1 .. Len(nodes) BY <1>1, TopFrame DEF Steps, Going, FrameOK
  <2>6. DOMAIN nodes = 1 .. Len(nodes) /\ 0 \notin DOMAIN nodes BY Around DEF Steps
  <2>7. Top.node # Top.left BY <2>2, Around DEF Steps
  <2> QED BY <2>1, <2>2, <2>4, <2>5, <2>6, <2>7
<1>3. \A c \in KidsOf(nodes, Top.node) : c = Top.left
  BY <1>2, KidOf DEF Here
<1>4. CASE nd.kids = [Here.kids EXCEPT ![2] = ret]
  <2>1. nd.kids[1] = Top.left /\ nd.kids[2] = ret /\ 1 \in DOMAIN nd.kids /\ 2 \in DOMAIN nd.kids
    BY <1>2, <1>4
  <2>2. Top.left \in ChildSet(nd.kids) /\ ret \in ChildSet(nd.kids)
    BY <1>2, <2>1 DEF ChildSet
  <2> QED BY <1>1, <1>3, <2>2, ChildAccounts
<1>5. CASE nodes[Top.left].kind = "LITERAL" /\ nodes[ret].kind = "LITERAL"
  <2>1. nodes'[Top.left].kind = "LITERAL" /\ nodes'[ret].kind = "LITERAL"
    BY <1>2, <1>5 DEF Sets
  <2> QED BY <1>1, <1>3, <2>1, ChildAccounts
<1> QED BY <1>4, <1>5

LEMMA TermKept ==
  ASSUME Steady, TermFirst \/ TermLoop \/ TermRhs
  PROVE  KeptInv'
<1>1. /\ "BINARY" \in NodeKind /\ {"TermFirst", "TermRhs"} \subseteq Resumptions
      /\ "TermRhs" \in Building \cap HoldingLeft
      /\ "TermFirst" \notin Building \cup HoldingLeft
      /\ "TermLoop" \in HoldingLeft \ (Building \cup Resumptions)
      /\ {"TermLoop", "TermRhs"} \subseteq Labels /\ Later("TermRhs") = {2}
  BY LaterTable DEF NodeKind, ExpressionKind, Resumptions, Building, HoldingLeft, Labels
<1>2. CASE TermFirst
  <2> DEFINE fr == [Fr("TermLoop") EXCEPT !.left = ret, !.op = ChainOp]
  <2>1. /\ Running("TermFirst") /\ UNCHANGED status /\ UNCHANGED nodes /\ Call(<<fr>>)
    BY <1>2 DEF TermFirst, Reads, Sees
  <2>2. Steps("TermFirst") BY <2>1, StepsSame
  <2>3. ret \in Nat /\ ret # 0 BY <1>1, <2>2, Given DEF Steps
  <2>4. Fr("TermLoop") \in Frame /\ Fr("TermLoop").at = "TermLoop" /\ Fr("TermLoop").node = 0
    <3>1. Fr("TermLoop") \in Frame /\ Blank(Fr("TermLoop")) /\ Fr("TermLoop").at = "TermLoop"
      BY <1>1, BareFrame
    <3> QED BY <3>1 DEF Blank
  <2>5. ChainOp \in BinaryOp BY DEF ChainOp, BinaryOp
  <2>6. fr \in Frame /\ fr.at = "TermLoop" /\ fr.left = ret /\ fr.node = 0
    BY <2>3, <2>4, <2>5 DEF Frame
  <2> HIDE DEF fr
  <2>7. Own(fr) = {ret} /\ Unfilled(nodes', fr) BY <2>3, <2>6, LoopUnfilled
  <2>8. Fresh = {} BY <2>1, <2>2, SameAccounts
  <2>9. Free \subseteq {ret} BY <1>1, <2>2, <2>8, HasFree DEF Steps
  <2>10. Accounts(0, Own(fr)) BY <2>1, <2>2, <2>7, <2>9, SameAccounts
  <2> QED BY <2>1, <2>2, <2>6, <2>7, <2>10, EndsOne, KeptCalls DEF Steps
<1>3. CASE TermLoop
  <2> DEFINE nd == [NewNode("BINARY") EXCEPT !.kids = <<Top.left, 0>>, !.op = Top.op]
             fr == [Top EXCEPT !.at = "TermRhs", !.node = New]
  <2>1. Running("TermLoop") /\ UNCHANGED status BY <1>3 DEF TermLoop, Reads, Sees
  <2>2. Top \in Frame /\ Top.left \in 1 .. Len(nodes)
    BY <1>1, <2>1, TopFrame DEF FrameOK, Steady
  <2>3. ASSUME Add(<<nd>>), Call(FactorCall \o <<fr>>) PROVE KeptInv'
    <3>1. nd \in Node /\ nd.kids = <<Top.left, 0>>
      <4>1. ZeroType \in AstType BY DEF ZeroType, AstType, ValueType
      <4>2. Top.left \in Nat /\ 0 \in Nat /\ Top.op \in BinaryOp \cup {"NONE"} BY <2>2 DEF Frame
      <4>3. NewNode("BINARY") \in Node BY <1>1, NewNodeFields
      <4>4. nd \in Node BY <4>1, <4>2, <4>3, BinaryNode
      <4> QED BY <4>3, <4>4 DEF Node
    <3>2. New \in Nat BY NewIsNat DEF Steady
    <3>3. fr \in Frame /\ fr.at = "TermRhs" /\ fr.node = New /\ fr.left = Top.left
      BY <1>1, <2>2, <3>2 DEF Frame
    <3> HIDE DEF fr, nd
    <3>4. /\ Steps("TermLoop") /\ Fresh = {New} /\ nodes'[New] = nd /\ New # 0
      BY <2>1, <2>3, <3>1, StepsOne
    <3>5. Top.left # 0
      <4>1. Len(nodes) \in Nat BY <3>4, Around DEF Steps
      <4> QED BY <2>2, <4>1
    <3>6. nd.kids[1] = Top.left /\ nd.kids[2] = 0 /\ 1 \in DOMAIN nd.kids BY <3>1
    <3>7. Top.left \in ChildSet(nd.kids) BY <3>5, <3>6 DEF ChildSet
    <3>8. \A c \in Free \ {New} : c = Top.left BY <1>1, <3>4, HasFree DEF Steps
    <3>9. Accounts(New, {New}) BY <2>1, <2>3, <3>1, <3>7, <3>8, OneAccounts
    <3>10. Own(fr) = {New} BY <3>3, <3>4 DEF Own
    <3>11. Open("TermRhs", nodes'[New]) BY <1>1, <3>4, <3>6 DEF Open
    <3>12. Unfilled(nodes', fr) BY <1>1, <3>1, <3>3, <3>4, <3>11 DEF Unfilled
    <3> QED BY <2>3, <3>3, <3>4, <3>9, <3>10, <3>12, BareCalls, EndsMore, KeptCalls DEF Steps
  <2>4. CASE HandBack(Top.left)
    <3>1. Steps("TermLoop") /\ UNCHANGED nodes BY <2>1, <2>4, StepsSame DEF HandBack
    <3>2. Fresh = {} BY <3>1, SameAccounts
    <3>3. Free \subseteq {Top.left} BY <1>1, <3>1, <3>2, HasFree DEF Steps
    <3>4. Accounts(0, {Top.left}) BY <3>1, <3>3, SameAccounts
    <3> QED BY <2>4, <3>1, <3>4, KeptReturns DEF HandBack, Steps
  <2> QED BY <1>3, <2>3, <2>4 DEF TermLoop
<1>4. CASE TermRhs
  <2> DEFINE fr == [Top EXCEPT !.at = "TermLoop", !.node = 0, !.left = Top.node]
             l == nodes[Top.left]
             r == nodes[ret]
  <2>1. Running("TermRhs") /\ UNCHANGED status /\ Call(<<fr>>)
    BY <1>4 DEF TermRhs, Resumes
  <2>2. /\ Top \in Frame /\ Top.left \in 1 .. Len(nodes) /\ Top.node \in 1 .. Len(nodes)
        /\ Here \in Node /\ l \in Node /\ r \in Node /\ ret \in Nat
    BY <1>1, <2>1, TopFrame, BuildingNode, TypesOfLengths DEF FrameOK, Steady, IInv, TypeOK
  <2>3. PICK garbage \in BOOLEAN :
          Update(Fold([WithKid(Here, 2, ret) EXCEPT !.ev = BinaryEval(l.ev, r.ev, garbage)], l, r))
    BY <1>4 DEF TermRhs
  <2> DEFINE bin == [WithKid(Here, 2, ret) EXCEPT !.ev = BinaryEval(l.ev, r.ev, garbage)]
             nd == Fold(bin, l, r)
  <2>4. BinaryEval(l.ev, r.ev, garbage) \in AstType BY <2>2, BinaryEvalType DEF Node
  <2>5. WithKid(Here, 2, ret) \in Node /\ WithKid(Here, 2, ret).kids = [Here.kids EXCEPT ![2] = ret]
    BY <2>2, WithKidFields DEF WithKid, Node
  <2>6. bin \in Node /\ bin.kids = [Here.kids EXCEPT ![2] = ret] BY <2>4, <2>5 DEF Node
  <2> HIDE DEF bin
  <2>7. nd \in Node BY <2>2, <2>6, FoldType
  <2>8. nd = bin \/ (l.kind = "LITERAL" /\ r.kind = "LITERAL") BY DEF Fold
  <2>9. Update(nd) BY <2>3 DEF bin
  <2> HIDE DEF nd
  <2>10. fr \in Frame /\ fr.at = "TermLoop" /\ fr.left = Top.node /\ fr.node = 0
    BY <1>1, <2>2 DEF Frame
  <2> HIDE DEF fr
  <2>11. Steps("TermRhs") /\ Sets(nd) BY <1>1, <2>1, <2>7, <2>9, StepsSet
  <2>12. Accounts(Top.node, {Top.node}) BY <2>6, <2>8, <2>11, TermRhsAccounts
  <2>13. Top.node # 0 BY <1>1, <2>11, Builds DEF Steps
  <2>14. Own(fr) = {Top.node} /\ Unfilled(nodes', fr) BY <2>10, <2>13, LoopUnfilled
  <2> QED BY <2>1, <2>10, <2>11, <2>12, <2>14, EndsOne, KeptCalls DEF Steps
<1> QED BY <1>2, <1>3, <1>4


LEMMA UnaryKept ==
  ASSUME Steady, Unary \/ NegRhs \/ NotRhs
  PROVE  KeptInv'
<1>1. /\ {"BINARY", "LITERAL", "UNARY"} \subseteq NodeKind
      /\ {"NegRhs", "NotRhs"} \subseteq Building \cap Resumptions
      /\ "NegRhs" \in HoldingLeft \ {"TermRhs"} /\ "NotRhs" \notin HoldingLeft
      /\ KindsAt("NotRhs") = {"UNARY"} /\ Later("NotRhs") = {1}
      /\ "Unary" \notin Building \cup HoldingLeft \cup Resumptions
  BY KindsTable, LaterTable DEF NodeKind, ExpressionKind, Resumptions, Building, HoldingLeft
<1>2. CASE Unary
  <2>1. Running("Unary") /\ UNCHANGED status BY <1>2 DEF Unary, Reads, Sees
  <2>2. ASSUME Add(<<NewNode("BINARY"), NewNode("LITERAL")>>),
               Call(<<Fr("Deref"), [FrNode("NegRhs", New) EXCEPT !.left = New + 1]>>)
        PROVE  KeptInv'
    <3> DEFINE g == [FrNode("NegRhs", New) EXCEPT !.left = New + 1]
    <3>1. /\ NewNode("BINARY") \in Node /\ NewNode("BINARY").kids = FreshKids("BINARY")
          /\ NewNode("LITERAL") \in Node /\ NewNode("LITERAL").kind = "LITERAL"
          /\ NewNode("LITERAL").kids = FreshKids("LITERAL")
      BY <1>1, NewNodeFields
    <3>2. /\ Steps("Unary") /\ Fresh = {New, New + 1}
          /\ nodes'[New] = NewNode("BINARY") /\ New \in Nat /\ New # 0 /\ New + 1 # 0
      BY <2>1, <2>2, <3>1, StepsTwo
    <3>3. ChildSet(NewNode("LITERAL").kids) = {} BY <1>1, <3>1, FreshNode
    <3>4. \A c \in Free : c \in {New, New + 1} BY <1>1, <3>2, HasFree DEF Steps
    <3>5. Accounts(New, {New, New + 1}) BY <2>1, <2>2, <3>1, <3>3, <3>4, TwoAccounts
    <3>6. Call(<<Fr("Deref"), g>>) BY <2>2
    <3>7. PICK n \in Nat, left \in Nat : n = New /\ left = New + 1 BY <3>2
    <3>8. g \in Frame /\ g.at = "NegRhs" /\ g.node = New /\ g.left = New + 1
      <4>1. FrNode("NegRhs", n) \in Frame /\ FrNode("NegRhs", n).at = "NegRhs" /\ FrNode("NegRhs", n).node = n
        BY <1>1, <3>7, NodeInFrame
      <4>2. g = [FrNode("NegRhs", n) EXCEPT !.left = left] BY <3>7
      <4> HIDE DEF g
      <4>3. g \in Frame /\ g.at = "NegRhs" /\ g.node = n /\ g.left = left
        BY <3>7, <4>1, <4>2 DEF Frame
      <4> QED BY <3>7, <4>3
    <3> HIDE DEF g
    <3>9. Own(g) = {New, New + 1} BY <3>2, <3>8 DEF Own
    <3>10. Open("NegRhs", nodes'[New]) BY <3>1, <3>2, FreshOpen
    <3>11. Unfilled(nodes', g) BY <1>1, <3>8, <3>10 DEF Unfilled
    <3>12. Bare(<<Fr("Deref")>>) /\ Call(<<Fr("Deref")>> \o <<g>>) BY <3>6, <3>8, PairCall
    <3> QED BY <3>2, <3>5, <3>8, <3>9, <3>11, <3>12, EndsMore, KeptCalls DEF Steps
  <2>3. ASSUME Add(<<NewNode("UNARY")>>), Call(<<Fr("Deref"), FrNode("NotRhs", New)>>)
        PROVE  KeptInv'
    <3>1. NewNode("UNARY") \in Node /\ NewNode("UNARY").kids = FreshKids("UNARY")
      BY <1>1, NewNodeFields
    <3>2. New \in Nat BY NewIsNat DEF Steady
    <3>3. FrNode("NotRhs", New) \in Frame BY <1>1, <3>2, NodeInFrame
    <3>4. Bare(<<Fr("Deref")>>) /\ Call(<<Fr("Deref")>> \o <<FrNode("NotRhs", New)>>)
      BY <2>3, <3>3, PairCall
    <3>5. Open("NotRhs", NewNode("UNARY")) BY <3>1, FreshOpen
    <3> QED BY <1>1, <2>1, <2>3, <3>1, <3>4, <3>5, BuiltMore
  <2>4. CASE HandOn(<<Fr("Deref")>>)
    BY <1>1, <2>1, <2>4, BareCalls, BareKept DEF HandOn
  <2> QED BY <1>2, <2>2, <2>3, <2>4 DEF Unary
<1>3. CASE NegRhs
  <2> DEFINE ev == nodes[ret].ev
             minus == [Here EXCEPT !.kids = <<Top.left, ret>>, !.op = "SUB", !.ev = ev]
             zero == [nodes[Top.left] EXCEPT
                        !.type = [value |-> ev.value, ptr |-> FALSE],
                        !.rep = IF ev.value = "FLOAT" THEN "float" ELSE "int"]
  <2>1. /\ Running("NegRhs") /\ UNCHANGED status
        /\ nodes' = [nodes EXCEPT ![Top.node] = minus, ![Top.left] = zero] /\ Return(Top.node)
    BY <1>3 DEF NegRhs, Resumes
  <2>2. /\ Top.left \in 1 .. Len(nodes) /\ Top.node \in 1 .. Len(nodes)
        /\ Here \in Node /\ ret \in Nat /\ nodes \in Seq(Node) /\ nodes' \in Seq(Node)
    BY <1>1, <2>1, TopFrame, BuildingNode, TypesOfLengths, SMTT(30)
    DEF FrameOK, Steady, IInv, TypeOK
  <2>3. nodes[Top.left] \in Node BY <2>2, ElementOfSeq
  <2>4. minus.kids = <<Top.left, ret>> BY <2>2 DEF Node
  <2>5. zero.kids = nodes[Top.left].kids /\ zero.kind = nodes[Top.left].kind BY <2>3 DEF Node
  <2> HIDE DEF minus, zero, ev
  <2>6. DOMAIN nodes = 1 .. Len(nodes) BY <2>2, LenProperties
  <2>7. DOMAIN nodes' = DOMAIN nodes BY <2>1
  <2>8. Len(nodes) <= Len(nodes')
    <3>1. Len(nodes') = Len(nodes) BY <2>2, <2>6, <2>7, LenProperties
    <3> QED BY <2>2, <3>1, LenProperties
  <2>9. Steps("NegRhs") BY <2>1, <2>8, GoesOn DEF Steady, Steps
  <2>10. Top.node # Top.left
    <3>1. Top.node # 0 BY <1>1, <2>9, Builds DEF Steps
    <3> QED BY <2>9, <3>1, Around DEF Steps
  <2>11. /\ nodes'[Top.node] = minus /\ nodes'[Top.left] = zero
         /\ \A i \in DOMAIN nodes \ {Top.node, Top.left} : nodes'[i] = nodes[i]
    BY <2>1, <2>2, <2>6, <2>10
  <2>12. Sets(minus)
    <3>1. Fresh = {} BY <2>7 DEF Fresh
    <3>2. \A i \in DOMAIN nodes \ {Top.node} :
            nodes'[i].kids = nodes[i].kids /\ nodes'[i].kind = nodes[i].kind
      BY <2>5, <2>11
    <3> QED BY <2>11, <3>1, <3>2 DEF Sets
  <2>13. Accounts(Top.node, {Top.node}) BY <2>4, <2>9, <2>12, BothKept
  <2> QED BY <2>1, <2>9, <2>13, KeptReturns DEF Steps
<1>4. CASE NotRhs
  <2> DEFINE nd == [Here EXCEPT !.kids = <<ret>>, !.op = "NEGATE", !.ev = nodes[ret].ev]
  <2>1. Running("NotRhs") /\ UNCHANGED status /\ Update(nd) /\ Return(Top.node)
    BY <1>4 DEF NotRhs, Resumes
  <2>2. Here \in Node /\ nodes[ret] \in Node /\ ret \in Nat
    BY <1>1, <2>1, TopFrame, BuildingNode DEF Steady, IInv, TypeOK
  <2>3. <<ret>> \in Seq(Nat) /\ nodes[ret].ev \in AstType BY <2>2 DEF Node
  <2>4. nd \in Node BY <2>2, <2>3 DEF Node, UnaryOp
  <2>5. nd.kids = <<ret>> BY <2>2 DEF Node
  <2> HIDE DEF nd
  <2>6. Steps("NotRhs") /\ Sets(nd) BY <1>1, <2>1, <2>4, StepsSet
  <2>7. /\ Here.kind = "UNARY" /\ Sized(Here) /\ Here \in Node /\ Open("NotRhs", Here) /\ ret # 0
    BY <1>1, <2>6, Builds, HasFree, Given DEF Steps
  <2>8. KidsOf(nodes, Top.node) = {}
    <3>1. Here.kids \in Seq(Nat) BY <2>7 DEF Node
    <3>2. Len(Here.kids) = 1
      <4>1. Len(FreshKids("UNARY")) = 1 BY DEF FreshKids
      <4> QED BY <2>7, <4>1 DEF Sized
    <3>3. DOMAIN Here.kids = 1 .. 1 BY <3>1, <3>2, LenProperties
    <3>4. \A k \in DOMAIN Here.kids : Here.kids[k] = 0 BY <1>1, <2>7, <3>3 DEF Open
    <3> QED BY <3>4, KidOf DEF Here
  <2>9. ret \in ChildSet(nd.kids)
    <3>1. nd.kids[1] = ret /\ 1 \in DOMAIN nd.kids BY <2>5
    <3> QED BY <2>7, <3>1 DEF ChildSet
  <2>10. Accounts(Top.node, {Top.node}) BY <1>1, <2>6, <2>8, <2>9, ChildAccounts
  <2> QED BY <2>1, <2>6, <2>10, KeptReturns DEF Steps
<1> QED BY <1>2, <1>3, <1>4

LEMMA PointerKept ==
  ASSUME Steady, Deref \/ DerefArg \/ Ref \/ RefArg
  PROVE  KeptInv'
<1>1. /\ {"DerefArg", "RefArg"} \subseteq Building \ HoldingLeft /\ "UNARY" \in NodeKind
      /\ {"Deref", "Ref"} \cap (Building \cup HoldingLeft \cup Resumptions) = {}
      /\ "DEREF" \in UnaryOp /\ "GET_PTR" \in UnaryOp
  BY DEF Building, HoldingLeft, Resumptions, NodeKind, ExpressionKind, UnaryOp
<1>2. ASSUME NEW label \in {"Deref", "Ref"}, Running(label), UNCHANGED status,
             NEW op \in UnaryOp, NEW at \in {"DerefArg", "RefArg"}, NEW callee \in {"Ref", "Literal"},
             Add(<<[NewNode("UNARY") EXCEPT !.op = op]>>), Call(<<Fr(callee), FrNode(at, New)>>)
      PROVE  KeptInv'
  <2> DEFINE nd == [NewNode("UNARY") EXCEPT !.op = op]
  <2>1. NewNode("UNARY") \in Node /\ NewNode("UNARY").kids = FreshKids("UNARY")
    BY <1>1, NewNodeFields
  <2>2. nd \in Node /\ nd.kids = FreshKids("UNARY") BY <2>1 DEF Node
  <2>3. Add(<<nd>>) BY <1>2
  <2> HIDE DEF nd
  <2>4. New \in Nat BY NewIsNat DEF Steady
  <2>5. FrNode(at, New) \in Frame BY <1>1, <2>4, NodeInFrame
  <2>6. Bare(<<Fr(callee)>>) /\ Call(<<Fr(callee)>> \o <<FrNode(at, New)>>)
    BY <1>2, <2>5, PairCall
  <2>7. Open(at, nd) BY <2>2, FreshOpen
  <2> QED BY <1>1, <1>2, <2>2, <2>3, <2>6, <2>7, BuiltMore
<1>3. CASE Deref
  <2>1. Running("Deref") /\ UNCHANGED status BY <1>3 DEF Deref, Reads, Sees
  <2>2. CASE HandOn(<<Fr("Ref")>>) BY <1>1, <2>1, <2>2, BareCalls, BareKept DEF HandOn
  <2>3. CASE Add(<<[NewNode("UNARY") EXCEPT !.op = "DEREF"]>>) /\ Call(<<Fr("Ref"), FrNode("DerefArg", New)>>)
    BY <1>1, <1>2, <2>1, <2>3
  <2> QED BY <1>3, <2>2, <2>3 DEF Deref
<1>4. CASE Ref
  <2>1. Running("Ref") /\ UNCHANGED status BY <1>4 DEF Ref, Reads, Sees
  <2>2. CASE HandOn(<<Fr("Literal")>>) BY <1>1, <2>1, <2>2, BareCalls, BareKept DEF HandOn
  <2>3. CASE Add(<<[NewNode("UNARY") EXCEPT !.op = "GET_PTR"]>>) /\ Call(<<Fr("Literal"), FrNode("RefArg", New)>>)
    BY <1>1, <1>2, <2>1, <2>3
  <2> QED BY <1>4, <2>2, <2>3 DEF Ref
<1>5. CASE DerefArg BY <1>5, PlacedAttach DEF DerefArg
<1>6. CASE RefArg BY <1>6, PlacedAttach DEF RefArg
<1> QED BY <1>3, <1>4, <1>5, <1>6


(* A literal is made and returned, or the node of a name, and then the     *)
(* literal that was made for it is dropped.                                *)
LEMMA LiteralKept ==
  ASSUME Steady, Literal
  PROVE  KeptInv'
<1>1. Running("Literal") /\ UNCHANGED status /\ At < NTokens BY DEF Literal, Sees
<1>2. /\ NewNode("LITERAL") \in Node /\ NewNode("IDENTIFIER") \in Node
      /\ NewNode("LITERAL").kind = "LITERAL"
      /\ NewNode("LITERAL").kids = FreshKids("LITERAL")
      /\ NewNode("IDENTIFIER").kind = "IDENTIFIER"
      /\ NewNode("IDENTIFIER").kids = FreshKids("IDENTIFIER")
      /\ "LITERAL" \in NodeKind /\ "IDENTIFIER" \in NodeKind
      /\ "Literal" \notin Building \cup HoldingLeft \cup Resumptions
  BY NewNodeFields DEF NodeKind, ExpressionKind, Building, HoldingLeft, Resumptions
<1>3. ASSUME Kind(At) \in LiteralTokens, Add(<<LiteralNode(At)>>), Return(New)
      PROVE  KeptInv'
  <2> DEFINE ty == [value |-> TypeOfLiteral[Kind(At)], ptr |-> FALSE]
             rp == IF Kind(At) = "T_FLOAT" THEN "float" ELSE "int"
  <2>1. ty \in AstType
    <3>1. TypeOfLiteral[Kind(At)] \in ValueType
      BY <1>3 DEF LiteralTokens, TypeOfLiteral, ValueType
    <3> QED BY <3>1 DEF AstType
  <2>2. rp \in Encoding BY DEF Encoding
  <2>3. LiteralNode(At) = [NewNode("LITERAL") EXCEPT !.type = ty, !.ev = ty, !.rep = rp]
    BY Zenon DEF LiteralNode
  <2> HIDE DEF ty, rp
  <2>4. LiteralNode(At) \in Node BY <1>2, <2>1, <2>2, <2>3 DEF Node
  <2>5. Steps("Literal") /\ Accounts(New, {New}) BY <1>1, <1>2, <1>3, <2>4, BuildKept
  <2> QED BY <1>3, <2>5, KeptReturns DEF Steps
<1>4. ASSUME Identifier(At), idents' = Accessed(idents, Lexeme(At)),
             Add(<<NewNode("LITERAL"), IdentifierNode(idents'[Lexeme(At)])>>), Return(New + 1)
      PROVE  KeptInv'
  <2>1. idents' \in [DOMAIN idents' -> AstIdentifier] /\ Lexeme(At) \in DOMAIN idents'
    BY <1>4 DEF Steady, IInv, TypeOK, Accessed, Emplace
  <2>2. PICK entry \in AstIdentifier : entry = idents'[Lexeme(At)] BY <2>1
  <2> DEFINE nd == IdentifierNode(entry)
  <2>3. nd \in Node /\ nd.kind = "IDENTIFIER" /\ nd.kids = FreshKids("IDENTIFIER")
    BY <1>2 DEF IdentifierNode, AstIdentifier, Node
  <2>4. Add(<<NewNode("LITERAL"), nd>>) BY <1>4, <2>2
  <2> HIDE DEF nd
  <2>5. /\ Steps("Literal") /\ Fresh = {New, New + 1}
        /\ New \in DOMAIN nodes' /\ nodes'[New] = NewNode("LITERAL")
        /\ New + 1 \in DOMAIN nodes' /\ nodes'[New + 1] = nd
    BY <1>1, <1>2, <2>3, <2>4, StepsTwo
  <2>6. \A i \in DOMAIN nodes : nodes'[i] = nodes[i]
    BY <1>2, <2>3, <2>4, TwoNew DEF Steady
  <2>7. \A i \in Fresh : KidsOf(nodes', i) = {}
    <3>1. ChildSet(NewNode("LITERAL").kids) = {} /\ ChildSet(nd.kids) = {}
      BY <1>2, <2>3, FreshNode
    <3> QED BY <2>5, <3>1, KidsAreChildren
  <2>8. \A c \in Free : c = New + 1 \/ nodes'[c].kind = "LITERAL"
    <3>1. \A c \in Free : c \in Fresh BY <1>2, <2>5, HasFree DEF Steps
    <3> QED BY <1>2, <2>5, <3>1
  <2>9. KidsOf(nodes, 0) = {} BY <2>5, HasFree DEF Steps
  <2>10. PICK r : r = New + 1 OBVIOUS
  <2>11. \A c \in Free \cup KidsOf(nodes, 0) :
           c \in {r} \cup KidsOf(nodes', 0) \/ nodes'[c].kind = "LITERAL"
    BY <2>8, <2>9, <2>10
  <2>12. Accounts(0, {r}) BY <2>6, <2>7, <2>11 DEF Accounts
  <2> QED BY <1>4, <2>5, <2>10, <2>12, KeptReturns DEF Steps
<1> QED BY <1>3, <1>4 DEF Literal

LEMMA StepKept ==
  ASSUME Steady, Step
  PROVE  KeptInv'
<1>1. CASE Statement BY <1>1, StatementKept
<1>2. CASE IfOpen \/ IfCond \/ IfThen \/ IfElse BY <1>2, IfKept
<1>3. CASE Block \/ BlockLoop \/ BlockPush \/ BlockClose BY <1>3, BlockKept
<1>4. CASE DefName \/ Params \/ FuncType BY <1>4, DefNameKept, ParamsKept, FuncTypeKept
<1>5. CASE FuncOpen \/ AggOpen \/ MemberSemi \/ AggClose \/ FuncClose \/ FuncColon \/ ExprSemi
  BY <1>5, InsistingKept
<1>6. CASE FuncBody BY <1>6, PlacedAttach DEF FuncBody
<1>7. CASE Decl \/ DeclType \/ DeclEq \/ DeclRhs BY <1>7, DeclKept
<1>8. CASE Assignment \/ AssignRhs BY <1>8, AssignmentKept
<1>9. CASE LogicRest \/ LogicRhs \/ FactorRest \/ FactorRhs BY <1>9, LogicKept
<1>10. CASE CmpRest \/ CmpRhs BY <1>10, ComparisonKept
<1>11. CASE TermFirst \/ TermLoop \/ TermRhs BY <1>11, TermKept
<1>12. CASE Unary \/ NegRhs \/ NotRhs BY <1>12, UnaryKept
<1>13. CASE Deref \/ DerefArg \/ Ref \/ RefArg BY <1>13, PointerKept
<1>14. CASE Literal BY <1>14, LiteralKept
<1> QED BY <1>1, <1>2, <1>3, <1>4, <1>5, <1>6, <1>7, <1>8, <1>9, <1>10, <1>11, <1>12, <1>13,
           <1>14 DEF Step

LEMMA KeptKeeps == IInv /\ TreeInv /\ DataInv /\ KeptInv /\ [Next]_vars => KeptInv'
<1> SUFFICES ASSUME IInv, TreeInv, DataInv, KeptInv, [Next]_vars PROVE KeptInv'
  OBVIOUS
<1>1. IInv' /\ TreeInv' BY NextKeeps, TreeKeeps
<1>2. CASE Step BY <1>1, <1>2, StepKept DEF Steady
<1>3. ASSUME NEW how, how # "accepted", NEW i, StopAt(how, i) PROVE KeptInv'
  BY <1>3 DEF StopAt, KeptInv, Pending, Top
<1>4. CASE Failure
  BY <1>3, <1>4 DEF Failure, NotAParameter, Undeclared, TwoPointers, Negative, OperandFails,
                    LiteralFails, RunOff, ExpectFails, MatchFails, AssertFails, Stop
<1>5. CASE Accept BY <1>5 DEF Accept, Stop, StopAt, KeptInv, Pending, Top
<1>6. CASE UNCHANGED vars BY <1>6 DEF vars, KeptInv, Pending, Top
<1> QED BY <1>2, <1>4, <1>5, <1>6 DEF Next

LEMMA InitKept == Init => KeptInv
<1> SUFFICES ASSUME Init PROVE KeptInv
  OBVIOUS
<1>1. nodes = <<>> /\ stack = <<Fr("Statement")>> BY DEF Init
<1>2. DOMAIN nodes = {} BY <1>1
<1>3. Blank(Fr("Statement")) BY BareFrame DEF Labels, Building
<1>4. \A j \in DOMAIN stack : stack[j] = Fr("Statement") BY <1>1
<1>5. \A j \in DOMAIN stack : Unfilled(nodes, stack[j]) BY <1>3, <1>4, BlankUnfilled
<1> QED BY <1>2, <1>5 DEF KeptInv, Founded, Adopted

-----------------------------------------------------------------------------
(* The printer: what it has printed, and what it still has to.             *)

Piece == {ItemOf(i) : i \in Nat}
         \cup {WordOf(i, n, x) : i \in Nat, n \in Nat, x \in Name \cup {NoName}}

NodesIn(s) == {i \in Nat : \E k \in DOMAIN s : s[k] = ItemOf(i)}

Single(s) == \A j, k \in DOMAIN s : s[j].what = "node" /\ s[j] = s[k] => j = k

(* Of the nodes that are printed, or will be, each was reached from its    *)
(* parent, and none has been left out.                                     *)
PrintInv ==
  /\ todo \in Seq(Piece) /\ shown \in Seq(Piece)
  /\ status # "accepted" => todo = <<>> /\ shown = <<>>
  /\ Single(todo) /\ Single(shown) /\ NodesIn(todo) \cap NodesIn(shown) = {}
  /\ NodesIn(todo) \cup NodesIn(shown) \subseteq DOMAIN nodes
  /\ \A c \in NodesIn(todo) \cup NodesIn(shown) :
       c = ret \/ \E i \in NodesIn(shown) : c \in KidsOf(nodes, i)
  /\ status = "accepted" => ret \in NodesIn(todo) \cup NodesIn(shown)
  /\ \A i \in NodesIn(shown) : KidsOf(nodes, i) \subseteq NodesIn(todo) \cup NodesIn(shown)

LEMMA NodePiece ==
  ASSUME NEW s \in Seq(Piece), NEW k \in DOMAIN s
  PROVE  /\ s[k] \in Piece
         /\ s[k].what = "node" => s[k].node \in NodesIn(s) /\ s[k] = ItemOf(s[k].node)
         /\ \A i : s[k] = ItemOf(i) => s[k].what = "node" /\ s[k].node = i
<1>1. s[k] \in Piece BY LenProperties, ElementOfSeq
<1>2. \A i : ItemOf(i).what = "node" /\ ItemOf(i).node = i BY DEF ItemOf
<1>3. \A i, n, x : WordOf(i, n, x).what = "word" BY DEF WordOf
<1>4. ASSUME s[k].what = "node" PROVE s[k].node \in NodesIn(s) /\ s[k] = ItemOf(s[k].node)
  <2>1. PICK i \in Nat : s[k] = ItemOf(i) BY <1>1, <1>3, <1>4 DEF Piece
  <2> QED BY <1>2, <2>1 DEF NodesIn
<1> QED BY <1>1, <1>2, <1>4

LEMMA NodesInConcat ==
  ASSUME NEW s \in Seq(Piece), NEW t \in Seq(Piece)
  PROVE  /\ NodesIn(s \o t) = NodesIn(s) \cup NodesIn(t)
         /\ Single(s) /\ Single(t) /\ NodesIn(s) \cap NodesIn(t) = {} => Single(s \o t)
         /\ Single(s \o t) => Single(t) /\ NodesIn(s) \cap NodesIn(t) = {}
<1> DEFINE u == s \o t
<1>1. /\ u \in Seq(Piece) /\ Len(u) = Len(s) + Len(t)
      /\ \A k \in 1 .. Len(s) + Len(t) : u[k] = IF k <= Len(s) THEN s[k] ELSE t[k - Len(s)]
  BY ConcatProperties
<1>2. /\ DOMAIN s = 1 .. Len(s) /\ DOMAIN t = 1 .. Len(t) /\ DOMAIN u = 1 .. Len(u)
      /\ Len(s) \in Nat /\ Len(t) \in Nat
  BY <1>1, LenProperties
<1> HIDE DEF u
<1>3. ASSUME NEW k \in DOMAIN s PROVE k \in DOMAIN u /\ u[k] = s[k]
  BY <1>1, <1>2
<1>4. ASSUME NEW k \in DOMAIN t PROVE Len(s) + k \in DOMAIN u /\ u[Len(s) + k] = t[k]
  <2>1. PICK j : j = Len(s) + k OBVIOUS
  <2>2. j \in 1 .. Len(s) + Len(t) /\ ~(j <= Len(s)) /\ j - Len(s) = k BY <1>2, <2>1
  <2>3. u[j] = t[k] BY <1>1, <2>2
  <2> QED BY <1>1, <1>2, <2>1, <2>2, <2>3
<1>5. ASSUME NEW k \in DOMAIN u
      PROVE  \/ k \in DOMAIN s /\ u[k] = s[k]
             \/ k - Len(s) \in DOMAIN t /\ u[k] = t[k - Len(s)] /\ k \in Nat
  BY <1>1, <1>2
<1>6. NodesIn(u) = NodesIn(s) \cup NodesIn(t)
  <2>1. ASSUME NEW i \in NodesIn(u) PROVE i \in NodesIn(s) \cup NodesIn(t)
    BY <1>5 DEF NodesIn
  <2>2. ASSUME NEW i \in NodesIn(s) PROVE i \in NodesIn(u) BY <1>3 DEF NodesIn
  <2>3. ASSUME NEW i \in NodesIn(t) PROVE i \in NodesIn(u) BY <1>4 DEF NodesIn
  <2> QED BY <2>1, <2>2, <2>3
<1>7. ASSUME Single(s), Single(t), NodesIn(s) \cap NodesIn(t) = {} PROVE Single(u)
  <2> SUFFICES ASSUME NEW j \in DOMAIN u, NEW k \in DOMAIN u, u[j].what = "node", u[j] = u[k]
               PROVE  j = k
    BY DEF Single
  <2>1. CASE j \in DOMAIN s /\ u[j] = s[j] /\ k \in DOMAIN s /\ u[k] = s[k]
    BY <1>7, <2>1 DEF Single
  <2>2. CASE j - Len(s) \in DOMAIN t /\ u[j] = t[j - Len(s)] /\ k - Len(s) \in DOMAIN t /\ u[k] = t[k - Len(s)]
    <3>1. j - Len(s) = k - Len(s) BY <1>7, <2>2 DEF Single
    <3>2. j \in Nat /\ k \in Nat BY <1>2
    <3> QED BY <1>2, <3>1, <3>2
  <2>3. ASSUME NEW a \in DOMAIN s, NEW b \in DOMAIN t, s[a] = t[b], s[a].what = "node" PROVE FALSE
    BY <1>7, <2>3, NodePiece
  <2> QED BY <1>5, <2>1, <2>2, <2>3
<1>8. ASSUME Single(u) PROVE Single(t) /\ NodesIn(s) \cap NodesIn(t) = {}
  <2>1. ASSUME NEW j \in DOMAIN t, NEW k \in DOMAIN t, t[j].what = "node", t[j] = t[k]
        PROVE  j = k
    <3>1. Len(s) + j = Len(s) + k BY <1>4, <1>8, <2>1 DEF Single
    <3> QED BY <1>2, <3>1
  <2>2. ASSUME NEW i \in NodesIn(s) \cap NodesIn(t) PROVE FALSE
    <3>1. PICK j \in DOMAIN s : s[j] = ItemOf(i) BY DEF NodesIn
    <3>2. PICK k \in DOMAIN t : t[k] = ItemOf(i) BY DEF NodesIn
    <3>3. s[j].what = "node" BY <3>1, NodePiece
    <3>4. j = Len(s) + k BY <1>3, <1>4, <1>8, <3>1, <3>2, <3>3 DEF Single
    <3> QED BY <1>2, <3>4
  <2> QED BY <2>1, <2>2 DEF Single
<1> QED BY <1>6, <1>7, <1>8 DEF u

LEMMA OnePiece ==
  ASSUME NEW p \in Piece
  PROVE  /\ <<p>> \in Seq(Piece) /\ Single(<<p>>)
         /\ \A i \in Nat : p = ItemOf(i) => NodesIn(<<p>>) = {i}
         /\ p.what # "node" => NodesIn(<<p>>) = {}
<1>1. <<p>> \in Seq(Piece) /\ DOMAIN <<p>> = {1} /\ <<p>>[1] = p OBVIOUS
<1>2. \A i : ItemOf(i).what = "node" /\ ItemOf(i).node = i BY DEF ItemOf
<1>3. Single(<<p>>) BY <1>1 DEF Single
<1>4. ASSUME NEW i \in Nat, p = ItemOf(i) PROVE NodesIn(<<p>>) = {i}
  <2>1. i \in NodesIn(<<p>>) BY <1>1, <1>4 DEF NodesIn
  <2>2. ASSUME NEW j \in NodesIn(<<p>>) PROVE j = i
    <3>1. ItemOf(j) = ItemOf(i) BY <1>1, <1>4, <2>2 DEF NodesIn
    <3> QED BY <1>2, <3>1
  <2> QED BY <2>1, <2>2
<1>5. ASSUME p.what # "node" PROVE NodesIn(<<p>>) = {}
  BY <1>1, <1>2, <1>5 DEF NodesIn
<1> QED BY <1>1, <1>3, <1>4, <1>5

LEMMA PieceFields ==
  /\ \A i \in Nat : ItemOf(i) \in Piece /\ ItemOf(i).what = "node" /\ ItemOf(i).node = i
  /\ \A i \in Nat, n \in Nat, x \in Name \cup {NoName} : WordOf(i, n, x) \in Piece
  /\ \A i, n, x : /\ WordOf(i, n, x).what = "word" /\ WordOf(i, n, x).node = i
                  /\ WordOf(i, n, x).nth = n /\ WordOf(i, n, x).word = x
<1>1. \A i \in Nat : ItemOf(i) \in Piece BY DEF Piece
<1>2. \A i : ItemOf(i).what = "node" /\ ItemOf(i).node = i BY DEF ItemOf
<1>3. \A i \in Nat, n \in Nat, x \in Name \cup {NoName} : WordOf(i, n, x) \in Piece
  BY DEF Piece
<1>4. \A i, n, x : /\ WordOf(i, n, x).what = "word" /\ WordOf(i, n, x).node = i
                  /\ WordOf(i, n, x).nth = n /\ WordOf(i, n, x).word = x
  BY DEF WordOf
<1> QED BY <1>1, <1>2, <1>3, <1>4

LEMMA NoPiece == <<>> \in Seq(Piece) /\ NodesIn(<<>>) = {} /\ Single(<<>>)
BY DEF NodesIn, Single

(* The pieces of a sequence of children, ...                               *)
LEMMA ItemsFacts ==
  ASSUME NEW kids \in Seq(Nat), \A k \in DOMAIN kids : kids[k] # 0,
         \A k, l \in DOMAIN kids : kids[k] = kids[l] => k = l
  PROVE  Items(kids) \in Seq(Piece) /\ NodesIn(Items(kids)) = ChildSet(kids) /\ Single(Items(kids))
<1>1. DOMAIN kids = 1 .. Len(kids) /\ Len(kids) \in Nat /\ \A k \in DOMAIN kids : kids[k] \in Nat
  BY LenProperties, ElementOfSeq
<1>2. /\ DOMAIN Items(kids) = DOMAIN kids
      /\ \A k \in DOMAIN kids : Items(kids)[k] = ItemOf(kids[k])
  BY DEF Items
<1>3. Items(kids) \in [1 .. Len(kids) -> Piece] BY <1>1, PieceFields DEF Items
<1>4. Items(kids) \in Seq(Piece) BY <1>1, <1>3, SeqDef
<1>5. NodesIn(Items(kids)) = ChildSet(kids)
  <2>1. ASSUME NEW i \in NodesIn(Items(kids)) PROVE i \in ChildSet(kids)
    <3>1. PICK k \in DOMAIN kids : ItemOf(kids[k]) = ItemOf(i) BY <1>2 DEF NodesIn
    <3>2. kids[k] = i BY <1>1, <3>1, PieceFields DEF NodesIn
    <3> QED BY <3>2 DEF ChildSet
  <2>2. ASSUME NEW i \in ChildSet(kids) PROVE i \in NodesIn(Items(kids))
    BY <1>1, <1>2 DEF ChildSet, NodesIn
  <2> QED BY <2>1, <2>2
<1>6. Single(Items(kids))
  <2> SUFFICES ASSUME NEW j \in DOMAIN kids, NEW k \in DOMAIN kids, ItemOf(kids[j]) = ItemOf(kids[k])
               PROVE  j = k
    BY <1>2 DEF Single
  <2>1. kids[j] = kids[k] BY <1>1, PieceFields
  <2> QED BY <2>1
<1> QED BY <1>4, <1>5, <1>6

(* ... and of the names of members.                                        *)
LEMMA WordsFacts ==
  ASSUME NEW i \in Nat, NEW members \in Seq(AstIdentifier)
  PROVE  /\ Words(i, members) \in Seq(Piece) /\ NodesIn(Words(i, members)) = {}
         /\ Single(Words(i, members)) /\ Len(Words(i, members)) = Len(members)
         /\ \A k \in 1 .. Len(members) : Words(i, members)[k] = WordOf(i, k + 1, members[k].name)
<1>1. /\ DOMAIN members = 1 .. Len(members) /\ Len(members) \in Nat
      /\ \A k \in DOMAIN members : members[k] \in AstIdentifier
  BY LenProperties, ElementOfSeq
<1>2. /\ DOMAIN Words(i, members) = DOMAIN members
      /\ \A k \in DOMAIN members : Words(i, members)[k] = WordOf(i, k + 1, members[k].name)
  BY DEF Words
<1>3. Words(i, members) \in [1 .. Len(members) -> Piece]
  <2>1. \A k \in DOMAIN members : members[k].name \in Name \cup {NoName}
    BY <1>1 DEF AstIdentifier
  <2> QED BY <1>1, <2>1, PieceFields DEF Words
<1>4. Words(i, members) \in Seq(Piece) BY <1>1, <1>3, SeqDef
<1>5. \A k \in DOMAIN Words(i, members) : Words(i, members)[k].what = "word" BY <1>2, PieceFields
<1>6. NodesIn(Words(i, members)) = {}
  <2>1. ASSUME NEW c \in NodesIn(Words(i, members)) PROVE FALSE
    <3>1. PICK k \in DOMAIN Words(i, members) : Words(i, members)[k] = ItemOf(c) BY DEF NodesIn
    <3> QED BY <1>5, <3>1, PieceFields DEF NodesIn
  <2> QED BY <2>1
<1>7. Single(Words(i, members)) BY <1>5 DEF Single
<1>8. Len(Words(i, members)) = Len(members) BY <1>1, <1>3, <1>4, LenProperties
<1> QED BY <1>1, <1>2, <1>4, <1>6, <1>7, <1>8

(* A list of pieces with each node of a set once.                          *)
Lists(s, set) == s \in Seq(Piece) /\ Single(s) /\ NodesIn(s) = set

LEMMA Joined ==
  ASSUME NEW s, NEW t, NEW S, NEW T, Lists(s, S), Lists(t, T), S \cap T = {}
  PROVE  Lists(s \o t, S \cup T)
<1>1. s \in Seq(Piece) /\ t \in Seq(Piece) BY DEF Lists
<1>2. s \o t \in Seq(Piece) BY <1>1, ConcatProperties
<1>3. Single(s) /\ Single(t) /\ NodesIn(s) = S /\ NodesIn(t) = T BY DEF Lists
<1>4. Single(s \o t) /\ NodesIn(s \o t) = S \cup T BY <1>1, <1>3, NodesInConcat
<1> QED BY <1>2, <1>4 DEF Lists

LEMMA Listed ==
  /\ Lists(<<>>, {})
  /\ \A i \in Nat : Lists(<<ItemOf(i)>>, {i})
  /\ \A i \in Nat, n \in Nat, x \in Name \cup {NoName} : Lists(<<WordOf(i, n, x)>>, {})
<1>1. Lists(<<>>, {}) BY NoPiece DEF Lists
<1>2. ASSUME NEW i \in Nat PROVE Lists(<<ItemOf(i)>>, {i})
  <2>1. PICK q \in Piece : q = ItemOf(i) BY PieceFields
  <2>2. Lists(<<q>>, {i}) BY <2>1, OnePiece DEF Lists
  <2> QED BY <2>1, <2>2
<1>3. ASSUME NEW i \in Nat, NEW n \in Nat, NEW x \in Name \cup {NoName}
      PROVE  Lists(<<WordOf(i, n, x)>>, {})
  <2>1. PICK q \in Piece : q = WordOf(i, n, x) BY PieceFields
  <2>2. q.what # "node" BY <2>1, PieceFields
  <2>3. Lists(<<q>>, {}) BY <2>2, OnePiece DEF Lists
  <2> QED BY <2>1, <2>3
<1> QED BY <1>1, <1>2, <1>3

(* What a piece is replaced by are the children of its node.               *)
Parts(parts) == Lists(parts, IF Item.what = "node" THEN KidsOf(nodes, Item.node) ELSE {})

LEMMA BecomesKeeps ==
  ASSUME IInv, TreeInv, PrintInv, Printing, NEW parts, Parts(parts), Becomes(parts)
  PROVE  PrintInv'
<1>1. /\ todo \in Seq(Piece) /\ todo # <<>> /\ shown \in Seq(Piece) /\ status = "accepted"
      /\ parts \in Seq(Piece)
  BY DEF PrintInv, Printing, Parts, Lists
<1>2. UNCHANGED <<nodes, ret, status>> BY DEF Becomes, vars
<1>3. PICK p \in Piece, rest \in Seq(Piece) :
        /\ p = Item /\ rest = Tail(todo) /\ todo = <<p>> \o rest
  <2>1. Head(todo) \in Piece /\ Tail(todo) \in Seq(Piece) BY <1>1, HeadTailProperties
  <2>2. todo = <<Head(todo)>> \o Tail(todo) BY <1>1, HeadAndTail
  <2> QED BY <2>1, <2>2 DEF Item
<1>4. todo' = parts \o rest /\ shown' = shown \o <<p>>
  <2>1. Append(shown, p) = shown \o <<p>> BY <1>1, <1>3, AppendIsConcat
  <2> QED BY <1>3, <2>1 DEF Becomes
<1>5. /\ <<p>> \in Seq(Piece) /\ Single(<<p>>)
      /\ \A i \in Nat : p = ItemOf(i) => NodesIn(<<p>>) = {i}
      /\ p.what # "node" => NodesIn(<<p>>) = {}
  BY OnePiece
<1>6. /\ NodesIn(todo) = NodesIn(<<p>>) \cup NodesIn(rest)
      /\ Single(rest) /\ NodesIn(<<p>>) \cap NodesIn(rest) = {}
  <2> HIDE DEF PrintInv
  <2>1. Single(<<p>> \o rest) BY <1>3 DEF PrintInv
  <2>2. PICK one \in Seq(Piece) : one = <<p>> BY <1>5
  <2> QED BY <1>3, <2>1, <2>2, NodesInConcat
<1> DEFINE new == NodesIn(parts)
           old == NodesIn(todo) \cup NodesIn(shown)
           was == NodesIn(<<p>>)
<1>7. (was = {} /\ new = {}) \/ \E i \in Nat : was = {i} /\ new = KidsOf(nodes, i)
  <2>1. CASE p.what # "node" BY <1>3, <1>5, <2>1 DEF Parts, Lists
  <2>2. CASE p.what = "node"
    <3>1. PICK i \in Nat : p = ItemOf(i) BY <2>2, PieceFields DEF Piece
    <3>2. p.node = i BY <3>1, PieceFields
    <3> QED BY <1>3, <1>5, <2>2, <3>1, <3>2 DEF Parts, Lists
  <2> QED BY <2>1, <2>2
<1>8. new \cap old = {}
  <2> SUFFICES ASSUME NEW c \in new, c \in old PROVE FALSE
    OBVIOUS
  <2>1. PICK i \in Nat : was = {i} /\ c \in KidsOf(nodes, i) BY <1>7
  <2>2. i \in DOMAIN nodes BY <2>1, KidOf
  <2>3. i \notin NodesIn(shown) BY <1>6, <2>1 DEF PrintInv
  <2>4. c # ret
    <3>1. Pending = {ret} BY <1>1 DEF TreeInv, Pending
    <3>2. ret \in Loose(stack, Pending) BY <3>1, PendingIsLoose
    <3> QED BY <2>1, <2>2, <3>2 DEF TreeInv, TreeOf, Orphans
  <2>5. PICK j \in NodesIn(shown) : c \in KidsOf(nodes, j) BY <2>4 DEF PrintInv
  <2>6. i = j BY <2>1, <2>5, KidOf DEF TreeInv, TreeOf, OneParent
  <2> QED BY <2>3, <2>5, <2>6
<1>9. new \subseteq DOMAIN nodes
  BY <1>7, KidOf DEF TreeInv, TreeOf, Orphans
<1>10. /\ NodesIn(todo') = new \cup NodesIn(rest) /\ Single(todo') /\ todo' \in Seq(Piece)
  <2>1. Single(parts) /\ Single(rest) /\ new \cap NodesIn(rest) = {}
    BY <1>6, <1>8 DEF Parts, Lists
  <2>2. parts \o rest \in Seq(Piece) BY <1>1, <1>3, ConcatProperties
  <2> QED BY <1>1, <1>3, <1>4, <2>1, <2>2, NodesInConcat
<1>11. NodesIn(shown') = NodesIn(shown) \cup was /\ Single(shown') /\ shown' \in Seq(Piece)
  <2>1. Single(shown) /\ NodesIn(shown) \cap was = {} BY <1>6 DEF PrintInv
  <2>2. PICK one \in Seq(Piece) : one = <<p>> BY <1>5
  <2>3. shown \o one \in Seq(Piece) BY <1>1, ConcatProperties
  <2> QED BY <1>1, <1>4, <1>5, <2>1, <2>2, <2>3, NodesInConcat
<1>12. NodesIn(todo)' = NodesIn(todo') /\ NodesIn(shown)' = NodesIn(shown')
       /\ Single(todo)' = Single(todo') /\ Single(shown)' = Single(shown')
       /\ \A i : KidsOf(nodes, i)' = KidsOf(nodes, i)
  BY <1>2 DEF NodesIn, Single, KidsOf
<1> HIDE DEF new, was, old
<1>13. NodesIn(todo') \cap NodesIn(shown') = {}
  BY <1>6, <1>8, <1>10, <1>11 DEF PrintInv, old, was
<1> DEFINE now == NodesIn(todo') \cup NodesIn(shown')
<1>14. now = old \cup new BY <1>6, <1>10, <1>11 DEF old, was
<1>15. now \subseteq DOMAIN nodes BY <1>9, <1>14 DEF PrintInv, old
<1>16. ASSUME NEW c \in now PROVE c = ret \/ \E i \in NodesIn(shown') : c \in KidsOf(nodes, i)
  <2>1. CASE c \in old BY <1>11, <2>1 DEF PrintInv, old
  <2>2. CASE c \in new BY <1>7, <1>11, <2>2
  <2> QED BY <1>14, <2>1, <2>2
<1>17. ret \in now BY <1>1, <1>14 DEF PrintInv, old
<1>18. ASSUME NEW i \in NodesIn(shown') PROVE KidsOf(nodes, i) \subseteq now
  <2>1. CASE i \in NodesIn(shown) BY <1>14, <2>1 DEF PrintInv, old
  <2>2. CASE i \in was BY <1>7, <1>14, <2>2
  <2> QED BY <1>11, <2>1, <2>2
<1> QED BY <1>1, <1>2, <1>10, <1>11, <1>12, <1>13, <1>15, <1>16, <1>17, <1>18 DEF PrintInv

(* Every node of the tree is done when the tree is printed.                *)
LEMMA AllDone ==
  ASSUME IInv, TreeInv, DataInv, PrintInv, Printing, Item.what = "node"
  PROVE  /\ Item.node \in DOMAIN nodes /\ It \in Node /\ Sized(It) /\ Whole(nodes, It)
         /\ ChildSet(It.kids) = KidsOf(nodes, Item.node)
         /\ \A k, l \in DOMAIN It.kids : It.kids[k] = It.kids[l] /\ It.kids[k] # 0 => k = l
         /\ It.kids \in Seq(Nat) /\ It.name \in Name \cup {NoName}
         /\ It.members \in Seq(AstIdentifier)
         /\ 0 \notin DOMAIN nodes /\ Item.node \in Nat
<1>1. Item \in Piece /\ Item = todo[1] /\ 1 \in DOMAIN todo
  BY HeadTailProperties, LenProperties, EmptySeq DEF PrintInv, Printing, Item
<1>2. Item.node \in NodesIn(todo) BY <1>1, NodePiece DEF PrintInv
<1>3. Item.node \in DOMAIN nodes BY <1>2 DEF PrintInv
<1>4. DOMAIN stack = {} BY DEF Printing, TreeInv
<1>5. Whole(nodes, It) BY <1>3, <1>4 DEF DataInv, DataOf, It
<1>6. It \in Node /\ Sized(It) BY <1>3, Everywhere DEF It, TreeInv, TreeOf
<1>7. ChildSet(It.kids) = KidsOf(nodes, Item.node) BY <1>3, KidsAreChildren DEF It
<1>8. \A k, l \in DOMAIN It.kids : It.kids[k] = It.kids[l] /\ It.kids[k] # 0 => k = l
  BY <1>3 DEF TreeInv, TreeOf, OneParent, It
<1>9. 0 \notin DOMAIN nodes /\ Item.node \in Nat BY <1>3, LenProperties DEF IInv, TypeOK
<1> QED BY <1>3, <1>5, <1>6, <1>7, <1>8, <1>9 DEF Node

(* The children of a node of each kind.                                    *)
LEMMA KidSet ==
  ASSUME NEW nd \in Node, Sized(nd)
  PROVE  /\ nd.kind = "BINARY" => DOMAIN nd.kids = {1, 2}
         /\ nd.kind \in {"UNARY", "FUNC"} => DOMAIN nd.kids = {1}
         /\ nd.kind = "IF" => DOMAIN nd.kids = {1, 2, 3}
         /\ nd.kind \notin {"BINARY", "UNARY", "FUNC", "IF", "BLOCK"} => DOMAIN nd.kids = {}
<1>1. nd.kids \in Seq(Nat) BY DEF Node
<1>2. Len(nd.kids) \in Nat /\ DOMAIN nd.kids = 1 .. Len(nd.kids) BY <1>1, LenProperties
<1>3. /\ Len(FreshKids("BINARY")) = 2 /\ Len(FreshKids("UNARY")) = 1
      /\ Len(FreshKids("FUNC")) = 1 /\ Len(FreshKids("IF")) = 3
      /\ \A kind : kind \notin {"BINARY", "UNARY", "FUNC", "IF"} => Len(FreshKids(kind)) = 0
  BY DEF FreshKids
<1>4. nd.kind # "BLOCK" => Len(nd.kids) = Len(FreshKids(nd.kind)) BY DEF Sized
<1>5. 1 .. 0 = {} /\ 1 .. 1 = {1} /\ 1 .. 2 = {1, 2} /\ 1 .. 3 = {1, 2, 3} OBVIOUS
<1> QED BY <1>2, <1>3, <1>4, <1>5

LEMMA OperationParts ==
  ASSUME IInv, TreeInv, DataInv, PrintInv, Shows({"UNARY", "BINARY", "BLOCK"})
  PROVE  Parts(Items(It.kids))
<1>1. Item.what = "node" /\ Printing /\ It.kind \in {"UNARY", "BINARY", "BLOCK"} BY DEF Shows
<1>2. \A k \in DOMAIN It.kids : It.kids[k] # 0
  BY <1>1, AllDone, KidSet DEF Whole, Expr
<1>3. \A k, l \in DOMAIN It.kids : It.kids[k] = It.kids[l] => k = l BY <1>1, <1>2, AllDone
<1>4. It.kids \in Seq(Nat) BY <1>1, AllDone
<1>5. /\ Items(It.kids) \in Seq(Piece) /\ NodesIn(Items(It.kids)) = ChildSet(It.kids)
      /\ Single(Items(It.kids))
  BY <1>2, <1>3, <1>4, ItemsFacts
<1> QED BY <1>1, <1>5, AllDone DEF Parts, Lists

(* Pieces one after the other.                                             *)
LEMMA TwoPieces ==
  ASSUME NEW p \in Piece, NEW q \in Piece
  PROVE  <<p, q>> = <<p>> \o <<q>>
<1>1. <<p, q>> = Append(<<p>>, q) OBVIOUS
<1>2. <<p>> \in Seq(Piece) OBVIOUS
<1> QED BY <1>1, <1>2, AppendIsConcat

LEMMA IfParts ==
  ASSUME IInv, TreeInv, DataInv, PrintInv, Shows({"IF"})
  PROVE  Parts(<<ItemOf(It.kids[3]), ItemOf(It.kids[1])>> \o Else)
<1>1. Item.what = "node" /\ Printing /\ It.kind = "IF" BY DEF Shows
<1>2. /\ DOMAIN It.kids = {1, 2, 3} /\ It.kids \in Seq(Nat)
      /\ ChildSet(It.kids) = KidsOf(nodes, Item.node)
      /\ \A k, l \in DOMAIN It.kids : It.kids[k] = It.kids[l] /\ It.kids[k] # 0 => k = l
      /\ 0 \notin DOMAIN nodes
  BY <1>1, AllDone, KidSet
<1>3. It.kids[1] # 0 /\ It.kids[3] # 0
  BY <1>1, <1>2, AllDone DEF Whole, BlockAt, Expr
<1>4. \A k \in {1, 2, 3} : It.kids[k] \in Nat BY <1>2, ElementOfSeq, LenProperties
<1> PICK a \in Nat, b \in Nat, c \in Nat : a = It.kids[1] /\ b = It.kids[2] /\ c = It.kids[3]
  BY <1>4
<1>5. a # 0 /\ c # 0 /\ a # c /\ (b # 0 => b # a /\ b # c) BY <1>2, <1>3
<1>6. KidsOf(nodes, Item.node) = {c, a} \cup (IF b # 0 THEN {b} ELSE {})
  BY <1>2, <1>5 DEF ChildSet
<1>7. Lists(<<ItemOf(c)>> \o <<ItemOf(a)>>, {c} \cup {a}) BY <1>5, Listed, Joined
<1>8. <<ItemOf(c), ItemOf(a)>> = <<ItemOf(c)>> \o <<ItemOf(a)>> BY PieceFields, TwoPieces
<1> PICK two : two = <<ItemOf(c), ItemOf(a)>> OBVIOUS
<1>9. Lists(two, {c} \cup {a}) BY <1>7, <1>8
<1> PICK else : else = Else OBVIOUS
<1> DEFINE rest == IF b # 0 THEN {b} ELSE {}
<1>10. Lists(else, rest)
  <2>1. CASE b = 0 BY <2>1, Listed DEF Else
  <2>2. CASE b # 0 BY <2>2, Listed DEF Else
  <2> QED BY <2>1, <2>2
<1>11. ({c} \cup {a}) \cap rest = {} /\ ({c} \cup {a}) \cup rest = KidsOf(nodes, Item.node)
  BY <1>5, <1>6
<1> HIDE DEF rest
<1>12. Lists(two \o else, KidsOf(nodes, Item.node)) BY <1>9, <1>10, <1>11, Joined
<1> QED BY <1>1, <1>12 DEF Parts

(* The name of a node and those of its members, as pieces.                 *)
LEMMA NameParts ==
  ASSUME IInv, TreeInv, DataInv, PrintInv, Printing, Item.what = "node"
  PROVE  /\ ItsName \in Piece /\ Lists(<<ItsName>>, {}) /\ Lists(ItsMembers, {})
         /\ ItsName.what = "word"
<1>1. /\ Item.node \in Nat /\ It.name \in Name \cup {NoName} /\ It.members \in Seq(AstIdentifier)
  BY AllDone
<1>2. ItsName \in Piece /\ Lists(<<ItsName>>, {}) /\ ItsName.what = "word"
  BY <1>1, Listed, PieceFields DEF ItsName
<1>3. Lists(ItsMembers, {}) BY <1>1, WordsFacts DEF Lists, ItsMembers
<1> QED BY <1>2, <1>3

LEMMA FuncParts ==
  ASSUME IInv, TreeInv, DataInv, PrintInv, Shows({"FUNC"})
  PROVE  Parts(ItsMembers \o <<ItsName, ItemOf(It.kids[1])>>)
<1>1. Item.what = "node" /\ Printing /\ It.kind = "FUNC" BY DEF Shows
<1>2. /\ DOMAIN It.kids = {1} /\ It.kids \in Seq(Nat)
      /\ ChildSet(It.kids) = KidsOf(nodes, Item.node) /\ 0 \notin DOMAIN nodes
  BY <1>1, AllDone, KidSet
<1>3. It.kids[1] # 0 BY <1>1, <1>2, AllDone DEF Whole, BlockAt
<1>4. It.kids[1] \in Nat BY <1>2, ElementOfSeq, LenProperties
<1> PICK a \in Nat : a = It.kids[1] BY <1>4
<1> PICK name \in Piece : name = ItsName BY <1>1, NameParts
<1> PICK words : words = ItsMembers OBVIOUS
<1>5. KidsOf(nodes, Item.node) = {a} BY <1>2, <1>3 DEF ChildSet
<1>6. Lists(words, {}) /\ Lists(<<name>>, {}) BY <1>1, NameParts
<1>7. Lists(<<name>> \o <<ItemOf(a)>>, {} \cup {a}) BY <1>6, Listed, Joined
<1>8. <<name, ItemOf(a)>> = <<name>> \o <<ItemOf(a)>> BY PieceFields, TwoPieces
<1> PICK two : two = <<name, ItemOf(a)>> OBVIOUS
<1>9. Lists(two, {} \cup {a}) BY <1>7, <1>8
<1>10. Lists(words \o two, {} \cup ({} \cup {a})) BY <1>6, <1>9, Joined
<1>11. {} \cup ({} \cup {a}) = {a} OBVIOUS
<1> QED BY <1>1, <1>5, <1>10, <1>11 DEF Parts

LEMMA MemberParts ==
  ASSUME IInv, TreeInv, DataInv, PrintInv, Shows({"STRUCT", "UNION", "ENUM"})
  PROVE  Parts(NameAndMembers)
<1>1. Item.what = "node" /\ Printing /\ It.kind \in {"STRUCT", "UNION", "ENUM"} BY DEF Shows
<1>2. DOMAIN It.kids = {} /\ ChildSet(It.kids) = KidsOf(nodes, Item.node)
  BY <1>1, AllDone, KidSet
<1>3. KidsOf(nodes, Item.node) = {} BY <1>2 DEF ChildSet
<1>4. Lists(ItsMembers, {}) /\ Lists(<<ItsName>>, {}) BY <1>1, NameParts
<1>5. Lists(<<ItsName>> \o ItsMembers, {} \cup {}) BY <1>4, Joined
<1> QED BY <1>1, <1>3, <1>5 DEF Parts, NameAndMembers

LEMMA PrintStepKeeps ==
  ASSUME IInv, TreeInv, DataInv, PrintInv, PrintStep
  PROVE  PrintInv'
<1>1. ASSUME NEW kinds, Shows(kinds), NEW parts, Parts(parts), Becomes(parts) PROVE PrintInv'
  BY <1>1, BecomesKeeps DEF Shows
<1>2. CASE PrintOperation
  <2>1. Shows({"UNARY", "BINARY", "BLOCK"}) BY <1>2 DEF PrintOperation, Shows
  <2> QED BY <1>1, <1>2, <2>1, OperationParts DEF PrintOperation
<1>3. CASE PrintBlock
  <2>1. Shows({"UNARY", "BINARY", "BLOCK"}) BY <1>3 DEF PrintBlock, Shows
  <2> QED BY <1>1, <1>3, <2>1, OperationParts DEF PrintBlock
<1>4. CASE PrintLiteral
  <2>1. Item.what = "node" /\ Printing /\ It.kind = "LITERAL" BY <1>4 DEF PrintLiteral, Shows
  <2>2. KidsOf(nodes, Item.node) = {}
    <3>1. DOMAIN It.kids = {} BY <2>1, AllDone, KidSet
    <3>2. ChildSet(It.kids) = {} BY <3>1 DEF ChildSet
    <3> QED BY <2>1, <3>2, AllDone
  <2>3. Parts(<<>>) BY <2>1, <2>2, NoPiece DEF Parts, Lists
  <2> QED BY <1>1, <1>4, <2>3 DEF PrintLiteral
<1>5. CASE PrintIdentifier
  <2>1. Item.what = "node" /\ Printing /\ It.kind = "IDENTIFIER" BY <1>5 DEF PrintIdentifier, Shows
  <2>2. KidsOf(nodes, Item.node) = {}
    <3>1. DOMAIN It.kids = {} BY <2>1, AllDone, KidSet
    <3>2. ChildSet(It.kids) = {} BY <3>1 DEF ChildSet
    <3> QED BY <2>1, <3>2, AllDone
  <2>3. Parts(<<ItsName>>) BY <2>1, <2>2, NameParts DEF Parts
  <2> QED BY <1>1, <1>5, <2>3 DEF PrintIdentifier
<1>6. CASE PrintIf BY <1>1, <1>6, IfParts DEF PrintIf
<1>7. CASE PrintFunc BY <1>1, <1>7, FuncParts DEF PrintFunc
<1>8. CASE PrintMembers BY <1>1, <1>8, MemberParts DEF PrintMembers
<1>9. CASE PrintWord
  <2>1. Parts(<<>>) BY <1>9, NoPiece DEF PrintWord, Parts, Lists, Shows
  <2> QED BY <1>9, <2>1, BecomesKeeps DEF PrintWord
<1> QED BY <1>2, <1>3, <1>4, <1>5, <1>6, <1>7, <1>8, <1>9 DEF PrintStep

(* A step of the parser starts while it runs, and only Accept accepts.     *)
LEMMA OnlyRunning ==
  /\ Next => status = "running"
  /\ Next => Accept \/ status' # "accepted"
<1>1. Step => status = "running" /\ UNCHANGED status
  BY DEF Step, Statement, IfOpen, IfCond, IfThen, IfElse, Block, BlockLoop, BlockPush,
         BlockClose, DefName, FuncOpen, AggOpen, Params, MemberSemi, AggClose, FuncClose,
         FuncColon, FuncType, FuncBody, ExprSemi, Decl, DeclType, DeclEq, DeclRhs,
         Assignment, AssignRhs, LogicRest, LogicRhs, CmpRest, CmpRhs, TermFirst,
         TermLoop, TermRhs, FactorRest, FactorRhs, Unary, NegRhs, NotRhs, Deref,
         DerefArg, Ref, RefArg, Literal, Reads, Resumes, Insists, Attach, Sees, Running
<1>2. Failure => status = "running" /\ status' # "accepted"
  BY DEF Failure, NotAParameter, Undeclared, TwoPointers, Negative, OperandFails,
         LiteralFails, RunOff, ExpectFails, MatchFails, AssertFails, Stop, StopAt,
         Reads, Resumes, Sees, Running
<1>3. Accept => status = "running" BY DEF Accept
<1> QED BY <1>1, <1>2, <1>3 DEF Next

(* The printer takes over when the parser is done.                         *)
LEMMA NothingPrinted ==
  ASSUME todo = <<>>, shown = <<>>, status # "accepted"
  PROVE  PrintInv
BY NoPiece DEF PrintInv

LEMMA ParseKeeps ==
  ASSUME IInv, TreeInv, PrintInv, Parse
  PROVE  PrintInv'
<1>1. status = "running" /\ (Accept \/ status' # "accepted") BY OnlyRunning DEF Parse
<1>2. todo = <<>> /\ shown = <<>> BY <1>1 DEF PrintInv
<1>3. CASE status' # "accepted"
  <2>1. todo' = <<>> /\ shown' = <<>> BY <1>2, <1>3 DEF Parse
  <2> QED BY <1>3, <2>1, NoPiece DEF PrintInv
<1>4. CASE Accept
  <2>1. /\ status' = "accepted" /\ UNCHANGED <<nodes, ret>> /\ shown' = <<>>
        /\ todo' = <<ItemOf(ret)>> /\ stack = <<>>
    BY <1>2, <1>4 DEF Parse, Accept, Stop, StopAt
  <2>2. ret \in DOMAIN nodes
    <3>1. Pending = {ret} BY <2>1 DEF Pending
    <3> QED BY <3>1 DEF TreeInv, TreeOf, Ordered
  <2>3. ret \in Nat BY <2>2, LenProperties DEF IInv, TypeOK
  <2>4. Lists(<<ItemOf(ret)>>, {ret}) /\ Lists(<<>>, {}) BY <2>3, Listed
  <2>5. /\ todo' \in Seq(Piece) /\ Single(todo') /\ NodesIn(todo') = {ret}
        /\ shown' \in Seq(Piece) /\ Single(shown') /\ NodesIn(shown') = {}
    BY <2>1, <2>4 DEF Lists
  <2>6. NodesIn(todo)' = NodesIn(todo') /\ NodesIn(shown)' = NodesIn(shown')
        /\ Single(todo)' = Single(todo') /\ Single(shown)' = Single(shown')
    BY DEF NodesIn, Single
  <2> QED BY <2>1, <2>2, <2>5, <2>6 DEF PrintInv
<1> QED BY <1>1, <1>3, <1>4

LEMMA PrintKeeps == IInv /\ TreeInv /\ DataInv /\ PrintInv /\ [PrintNext]_printVars => PrintInv'
<1> SUFFICES ASSUME IInv, TreeInv, DataInv, PrintInv, [PrintNext]_printVars PROVE PrintInv'
  OBVIOUS
<1>1. CASE UNCHANGED printVars
  BY <1>1 DEF printVars, vars, PrintInv, NodesIn, Single, KidsOf
<1> QED BY <1>1, ParseKeeps, PrintStepKeeps DEF PrintNext

(* Parser and printer together: to the parser, printing is no step.        *)
LEMMA PrintNextIsNext == [PrintNext]_printVars => [Next]_vars
<1>1. PrintStep => UNCHANGED vars
  BY DEF PrintStep, PrintOperation, PrintLiteral, PrintIdentifier, PrintBlock, PrintIf,
         PrintFunc, PrintMembers, PrintWord, Becomes
<1> QED BY <1>1 DEF PrintNext, Parse, printVars

LEMMA PrintStands == PrintSpec => [](IInv /\ TreeInv /\ DataInv /\ KeptInv /\ PrintInv)
<1>1. PrintInit => IInv /\ TreeInv /\ DataInv /\ KeptInv /\ PrintInv
  <2> SUFFICES ASSUME PrintInit PROVE IInv /\ TreeInv /\ DataInv /\ KeptInv /\ PrintInv
    OBVIOUS
  <2>1. Init /\ todo = <<>> /\ shown = <<>> BY DEF PrintInit
  <2>2. status # "accepted" BY <2>1 DEF Init
  <2> QED BY <2>1, <2>2, InitKeeps, InitTree, InitData, InitKept, NothingPrinted
<1>2. IInv /\ TreeInv /\ DataInv /\ KeptInv /\ PrintInv /\ [PrintNext]_printVars
        => (IInv /\ TreeInv /\ DataInv /\ KeptInv /\ PrintInv)'
  BY PrintNextIsNext, NextKeeps, TreeKeeps, DataKeeps, KeptKeeps, PrintKeeps
<1> QED BY <1>1, <1>2, PTL DEF PrintSpec

(* Whatever statement the parser accepts, however nested, the printer      *)
(* follows no NULL and no foreign pointer in its tree.                     *)
THEOREM PrintsWhatIsThere == PrintSpec => []NodesExist
<1>1. ASSUME PrintInv PROVE NodesExist
  <2>1. todo \in Seq(Piece) /\ NodesIn(todo) \subseteq DOMAIN nodes BY <1>1 DEF PrintInv
  <2> QED BY <2>1, NodePiece DEF NodesExist
<1> QED BY <1>1, PrintStands, PTL

(* What has not been printed when the printer is done would have a parent  *)
(* that has not been printed either, and that one too.                     *)
LEMMA NothingLost ==
  ASSUME IInv, TreeInv, KeptInv, PrintInv, Printed,
         NEW i \in DOMAIN nodes, nodes[i].kind # "LITERAL"
  PROVE  i \in NodesIn(shown)
<1> DEFINE lost == {c \in DOMAIN nodes : nodes[c].kind # "LITERAL" /\ c \notin NodesIn(shown)}
<1>1. NodesIn(todo) = {} BY NoPiece DEF Printed
<1>2. ret \in NodesIn(shown) BY <1>1 DEF Printed, PrintInv
<1>3. Loose(stack, Pending) = {ret}
  <2>1. stack = <<>> /\ Pending = {ret} BY DEF Printed, TreeInv, Pending
  <2>2. DOMAIN stack = {} BY <2>1
  <2> QED BY <2>1, <2>2 DEF Loose
<1>4. ASSUME NEW j \in DOMAIN nodes, nodes[j].kind = "LITERAL" PROVE KidsOf(nodes, j) = {}
  <2>1. nodes[j] \in Node /\ Sized(nodes[j])
    BY LenProperties, ElementOfSeq DEF IInv, TypeOK, TreeInv, TreeOf
  <2>2. nodes[j].kids \in Seq(Nat) BY <2>1 DEF Node
  <2>3. Len(nodes[j].kids) = 0
    <3>1. Len(FreshKids("LITERAL")) = 0 BY DEF FreshKids
    <3> QED BY <1>4, <2>1, <3>1 DEF Sized
  <2>4. DOMAIN nodes[j].kids = {} BY <2>2, <2>3, LenProperties
  <2> QED BY <2>4 DEF KidsOf
<1>5. ASSUME NEW c \in lost PROVE \E j \in lost : c \in KidsOf(nodes, j)
  <2>1. c \in DOMAIN nodes /\ c # ret BY <1>2
  <2>2. PICK j \in DOMAIN nodes : c \in KidsOf(nodes, j)
    BY <1>3, <2>1 DEF KeptInv, Adopted
  <2>3. j \notin NodesIn(shown) BY <1>1, <2>2 DEF PrintInv
  <2>4. nodes[j].kind # "LITERAL" BY <1>4, <2>2
  <2> QED BY <2>2, <2>3, <2>4
<1>6. lost \in SUBSET DOMAIN nodes OBVIOUS
<1> HIDE DEF lost
<1>7. lost = {} BY <1>5, <1>6 DEF KeptInv, Founded
<1> QED BY <1>7 DEF lost

(* Nothing is printed twice, however often blocks and operands are copied, *)
(* and nothing that was read is lost: no call drops the node it was given, *)
(* and no child is stored over another.                                    *)
THEOREM EachIsShownOnce == PrintSpec => []ShownOnce
<1>1. ASSUME IInv, TreeInv, KeptInv, PrintInv PROVE ShownOnce
  <2>1. \A j, k \in DOMAIN shown : shown[j].what = "node" /\ shown[j] = shown[k] => j = k
    BY <1>1 DEF PrintInv, Single
  <2>2. ASSUME Printed, NEW i \in DOMAIN nodes, nodes[i].kind # "LITERAL"
        PROVE  \E k \in DOMAIN shown : shown[k] = ItemOf(i)
    <3>1. i \in NodesIn(shown) BY <1>1, <2>2, NothingLost
    <3> QED BY <3>1 DEF NodesIn
  <2> QED BY <2>1, <2>2 DEF ShownOnce
<1> QED BY <1>1, PrintStands, PTL

=============================================================================
