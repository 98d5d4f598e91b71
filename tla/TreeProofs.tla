----------------------------- MODULE TreeProofs -----------------------------
(***************************************************************************)
(* Proofs about the tree the parser builds: its shape, in every state and  *)
(* for every input.                                                        *)
(***************************************************************************)
EXTENDS ParserProofs

-----------------------------------------------------------------------------
(* The inductive invariant of the shape, for any nodes ns, call stack s    *)
(* and set p that holds the result of a call, if nothing has been done     *)
(* with it yet.                                                            *)

KidsOf(ns, i) == IF i \in DOMAIN ns
                 THEN {ns[i].kids[k] : k \in DOMAIN ns[i].kids} \ {0} ELSE {}

(* The nodes a frame reaches, and those among them that have no parent: a  *)
(* sum's left operand gets its parent before its right operand is read.    *)
Grasp(ns, f) == ({f.node, f.left} \cup KidsOf(ns, f.node)) \ {0}
Own(f) == ({f.node} \cup (IF f.at = "TermRhs" THEN {} ELSE {f.left})) \ {0}
Loose(s, p) == (UNION {Own(s[i]) : i \in DOMAIN s}) \cup p

(* Whatever a function reaches was made after all its callers reach, and   *)
(* the result it is given after all of that.                               *)
Ordered(ns, s, p) ==
  /\ \A i \in DOMAIN s :
       /\ Grasp(ns, s[i]) \subseteq DOMAIN ns
       /\ s[i].node # 0 => s[i].node # s[i].left
  /\ \A i, j \in DOMAIN s : i < j =>
       \A a \in Grasp(ns, s[i]), c \in Grasp(ns, s[j]) : c < a
  /\ p \subseteq DOMAIN ns
  /\ \A i \in DOMAIN s : \A a \in p, c \in Grasp(ns, s[i]) : c < a

(* No node is the child of two or twice of one, ...                        *)
OneParent(ns) ==
  \A i, j \in DOMAIN ns : \A k \in DOMAIN ns[i].kids, l \in DOMAIN ns[j].kids :
    ns[i].kids[k] = ns[j].kids[l] /\ ns[i].kids[k] # 0 => i = j /\ k = l

(* ... what functions still hold is the child of none, ...                 *)
Orphans(ns, loose) == \A i \in DOMAIN ns : KidsOf(ns, i) \subseteq DOMAIN ns \ loose

(* ... and operands and statements stand in the order of the source.       *)
InOrder(ns) == \A i \in DOMAIN ns :
                 ns[i].kind \in {"BINARY", "BLOCK"} => Increasing(ns[i].kids)

(* Every node but a block has as many children as it was made with, ...    *)
Sized(nd) == nd.kind # "BLOCK" => Len(nd.kids) = Len(FreshKids(nd.kind))

(* ... and every function works on a node of its kind.                     *)
IfPoints == {"IfOpen", "IfCond", "IfThen", "IfElse"}
FuncPoints == {"FuncOpen", "FuncClose", "FuncColon", "FuncType", "FuncBody"}
AggPoints == {"AggOpen", "MemberSemi", "AggClose"}
BlockPoints == {"BlockLoop", "BlockPush", "BlockClose"}
Aggregate == {"STRUCT", "UNION", "ENUM"}

KindsAt(at) == CASE at \in IfPoints -> {"IF"}
                 [] at \in FuncPoints -> {"FUNC"}
                 [] at \in AggPoints -> Aggregate
                 [] at \in {"DefName", "Params"} -> {"FUNC"} \cup Aggregate
                 [] at \in BlockPoints -> {"BLOCK"}
                 [] at \in {"NotRhs", "DerefArg", "RefArg"} -> {"UNARY"}
                 [] OTHER -> {"BINARY"}

Suits(ns, f) ==
  /\ f.at \in Building => f.node \in DOMAIN ns /\ ns[f.node].kind \in KindsAt(f.at)
  /\ f.at = "NegRhs" => f.left \in DOMAIN ns /\ ns[f.left].kind = "LITERAL"

TreeOf(ns, s, p) == /\ Ordered(ns, s, p) /\ OneParent(ns)
                    /\ Orphans(ns, Loose(s, p)) /\ InOrder(ns)
                    /\ \A i \in DOMAIN ns : Sized(ns[i])
                    /\ \A i \in DOMAIN s : Suits(ns, s[i])

-----------------------------------------------------------------------------
(* One step on the nodes: b, new or old, is given children out of taken;   *)
(* all other nodes keep theirs, and other new nodes have none.             *)
Rewired(ns, ms, b, taken) ==
  /\ DOMAIN ns \subseteq DOMAIN ms
  /\ \A i \in DOMAIN ns \ {b} :
       /\ ms[i].kids = ns[i].kids
       /\ ms[i].kind = ns[i].kind
  /\ \A i \in DOMAIN ms \ (DOMAIN ns \cup {b}) : KidsOf(ms, i) = {} /\ Sized(ms[i])
  /\ b \in DOMAIN ms =>
       /\ KidsOf(ms, b) \subseteq taken \cup KidsOf(ns, b)
       /\ \A k, l \in DOMAIN ms[b].kids :
            ms[b].kids[k] = ms[b].kids[l] /\ ms[b].kids[k] # 0 => k = l
       /\ ms[b].kind \in {"BINARY", "BLOCK"} => Increasing(ms[b].kids)
       /\ Sized(ms[b])

LEMMA KidIn ==
  ASSUME NEW ns, NEW i \in DOMAIN ns, NEW k \in DOMAIN ns[i].kids, ns[i].kids[k] # 0
  PROVE  ns[i].kids[k] \in KidsOf(ns, i)
BY DEF KidsOf

LEMMA KidOf ==
  ASSUME NEW ns, NEW i, NEW c \in KidsOf(ns, i)
  PROVE  i \in DOMAIN ns /\ c # 0 /\ \E k \in DOMAIN ns[i].kids : c = ns[i].kids[k]
BY DEF KidsOf

LEMMA RewiredTree ==
  ASSUME NEW ns, NEW ms \in Seq(Node), NEW loose, NEW left, NEW b, NEW taken,
         OneParent(ns), InOrder(ns), Orphans(ns, loose), \A i \in DOMAIN ns : Sized(ns[i]),
         Rewired(ns, ms, b, taken),
         taken \subseteq DOMAIN ms, taken \cap DOMAIN ns \subseteq loose,
         left \cap taken = {}, left \cap DOMAIN ns \subseteq loose
  PROVE  /\ OneParent(ms) /\ InOrder(ms) /\ Orphans(ms, left)
         /\ \A i \in DOMAIN ms : Sized(ms[i])
<1>1. ASSUME NEW i \in DOMAIN ms, i # b, NEW c \in KidsOf(ms, i)
      PROVE  i \in DOMAIN ns /\ c \in KidsOf(ns, i) /\ c \in DOMAIN ns /\ c \notin loose
  <2>1. i \in DOMAIN ns BY <1>1 DEF Rewired
  <2>2. KidsOf(ms, i) = KidsOf(ns, i) BY <1>1, <2>1 DEF Rewired, KidsOf
  <2> QED BY <1>1, <2>1, <2>2 DEF Orphans
<1>2. ASSUME NEW c \in KidsOf(ms, b)
      PROVE  c \in taken \/ (b \in DOMAIN ns /\ c \in KidsOf(ns, b) /\ c \in DOMAIN ns /\ c \notin loose)
  <2>1. b \in DOMAIN ms BY <1>2 DEF KidsOf
  <2>2. c \in taken \/ c \in KidsOf(ns, b) BY <1>2, <2>1 DEF Rewired
  <2> QED BY <2>2, KidOf DEF Orphans
<1>3. ASSUME NEW i \in DOMAIN ns, NEW j \in DOMAIN ns, NEW c, c \in KidsOf(ns, i), c \in KidsOf(ns, j)
      PROVE  i = j
  BY <1>3, KidOf DEF OneParent
<1>4. ASSUME NEW i \in DOMAIN ms, NEW j \in DOMAIN ms, NEW c, c \in KidsOf(ms, i), c \in KidsOf(ms, j)
      PROVE  i = j
  BY <1>1, <1>2, <1>3, <1>4
<1>5. OneParent(ms)
  <2> SUFFICES ASSUME NEW i \in DOMAIN ms, NEW j \in DOMAIN ms,
                      NEW k \in DOMAIN ms[i].kids, NEW l \in DOMAIN ms[j].kids,
                      ms[i].kids[k] = ms[j].kids[l], ms[i].kids[k] # 0
               PROVE  i = j /\ k = l
    BY DEF OneParent
  <2>1. i = j BY <1>4, KidIn
  <2>2. CASE i = b BY <2>1, <2>2 DEF Rewired
  <2>3. CASE i # b
    <3>1. i \in DOMAIN ns BY <1>1, <2>3, KidIn
    <3>2. ms[i].kids = ns[i].kids BY <2>3, <3>1 DEF Rewired
    <3> QED BY <2>1, <3>1, <3>2 DEF OneParent
  <2> QED BY <2>1, <2>2, <2>3
<1>6. InOrder(ms)
  <2> SUFFICES ASSUME NEW i \in DOMAIN ms, ms[i].kind \in {"BINARY", "BLOCK"}
               PROVE  Increasing(ms[i].kids)
    BY DEF InOrder
  <2>1. CASE i = b BY <2>1 DEF Rewired
  <2>2. CASE i # b /\ i \in DOMAIN ns BY <2>2 DEF Rewired, InOrder
  <2>3. CASE i # b /\ i \notin DOMAIN ns
    <3>1. KidsOf(ms, i) = {} BY <2>3 DEF Rewired
    <3>2. \A k \in DOMAIN ms[i].kids : ms[i].kids[k] = 0 BY <3>1, KidIn
    <3>3. ms[i].kids \in Seq(Nat)
      <4>1. i \in 1 .. Len(ms) BY LenProperties
      <4>2. ms[i] \in Node BY <4>1, ElementOfSeq
      <4> QED BY <4>2 DEF Node
    <3>4. Len(ms[i].kids) \in Nat /\ DOMAIN ms[i].kids = 1 .. Len(ms[i].kids)
      BY <3>3, LenProperties
    <3> QED BY <3>2, <3>4 DEF Increasing
  <2> QED BY <2>1, <2>2, <2>3
<1>7. Orphans(ms, left)
  <2> SUFFICES ASSUME NEW i \in DOMAIN ms, NEW c \in KidsOf(ms, i)
               PROVE  c \in DOMAIN ms \ left
    BY DEF Orphans
  <2>1. CASE c \in taken BY <2>1
  <2>2. CASE c \in DOMAIN ns /\ c \notin loose BY <2>2 DEF Rewired
  <2> QED BY <1>1, <1>2, <2>1, <2>2
<1>8. ASSUME NEW i \in DOMAIN ms PROVE Sized(ms[i])
  <2>1. CASE i # b /\ i \in DOMAIN ns BY <2>1 DEF Rewired, Sized
  <2>2. CASE i = b \/ i \notin DOMAIN ns BY <2>2 DEF Rewired
  <2> QED BY <2>1, <2>2
<1> QED BY <1>5, <1>6, <1>7, <1>8

-----------------------------------------------------------------------------
(* One step on the stack.                                                  *)

(* What the running function reaches: its own, the result it was given and *)
(* the nodes it makes.                                                     *)
Reach(ns, ms, s, p) == Grasp(ns, Head(s)) \cup p \cup (DOMAIN ms \ DOMAIN ns)
Spare(ns, ms, s, p) == Own(Head(s)) \cup p \cup (DOMAIN ms \ DOMAIN ns)

LEMMA Indices ==
  ASSUME NEW ns \in Seq(Node), NEW ms \in Seq(Node), Len(ns) <= Len(ms)
  PROVE  /\ DOMAIN ns = 1 .. Len(ns) /\ DOMAIN ms = 1 .. Len(ms)
         /\ Len(ns) \in Nat /\ Len(ms) \in Nat
         /\ DOMAIN ns \subseteq DOMAIN ms /\ DOMAIN ns \subseteq Nat /\ DOMAIN ms \subseteq Nat
         /\ 0 \notin DOMAIN ms
         /\ \A a \in DOMAIN ms \ DOMAIN ns, c \in DOMAIN ns : c < a
BY LenProperties

(* Below the running function nothing changes.                             *)
Untouched(ns, ms, reach, f) ==
  /\ Grasp(ms, f) = Grasp(ns, f)
  /\ Grasp(ns, f) \subseteq DOMAIN ns
  /\ \A a \in reach, c \in Grasp(ns, f) : c < a

LEMMA Below ==
  ASSUME NEW ns \in Seq(Node), NEW ms \in Seq(Node), Len(ns) <= Len(ms),
         NEW s \in Seq(Frame), s # <<>>, NEW p, Ordered(ns, s, p),
         NEW b \in Reach(ns, ms, s, p) \cup {0}, NEW taken, Rewired(ns, ms, b, taken),
         NEW i \in DOMAIN s, i # 1
  PROVE  /\ Untouched(ns, ms, Reach(ns, ms, s, p), s[i])
         /\ Suits(ns, s[i]) => Suits(ms, s[i])
<1>1. Head(s) = s[1] /\ DOMAIN s = 1 .. Len(s) /\ Len(s) \in Nat /\ 1 \in DOMAIN s /\ 1 < i
  BY LenProperties, EmptySeq
<1>2. Grasp(ns, s[i]) \subseteq DOMAIN ns BY DEF Ordered
<1>3. ASSUME NEW a \in Reach(ns, ms, s, p), NEW c \in Grasp(ns, s[i]) PROVE c < a
  <2>1. CASE a \in Grasp(ns, s[1]) BY <1>1, <2>1 DEF Ordered
  <2>2. CASE a \in p BY <2>2 DEF Ordered
  <2>3. CASE a \in DOMAIN ms \ DOMAIN ns BY <1>2, <2>3, Indices
  <2> QED BY <1>1, <2>1, <2>2, <2>3 DEF Reach
<1>4. s[i].node # 0 => s[i].node \in Grasp(ns, s[i]) BY DEF Grasp
<1>5. s[i].node # 0 => s[i].node # b
  <2> SUFFICES ASSUME s[i].node # 0, s[i].node = b PROVE FALSE
    OBVIOUS
  <2>1. b \in Grasp(ns, s[i]) /\ b \in Reach(ns, ms, s, p) BY <1>4
  <2>2. b < b BY <1>3, <2>1
  <2>3. b \in Nat BY <1>2, <2>1, Indices
  <2> QED BY <2>2, <2>3
<1>6. KidsOf(ms, s[i].node) = KidsOf(ns, s[i].node)
  <2>1. CASE s[i].node = 0 BY <2>1, Indices DEF KidsOf
  <2>2. CASE s[i].node # 0
    <3>1. s[i].node \in DOMAIN ns BY <1>2, <1>4, <2>2
    <3> QED BY <1>5, <2>2, <3>1 DEF Rewired, KidsOf
  <2> QED BY <2>1, <2>2
<1>7. Grasp(ms, s[i]) = Grasp(ns, s[i]) BY <1>6 DEF Grasp
<1>8. ASSUME NEW c \in {s[i].node, s[i].left}, c \in DOMAIN ns
      PROVE  c \in DOMAIN ms /\ ms[c].kind = ns[c].kind
  <2>1. c \in Grasp(ns, s[i]) BY <1>8, Indices DEF Grasp
  <2>2. c # b
    <3>1. b = c => b < b BY <1>3, <2>1, <1>8, Indices
    <3> QED BY <1>8, <3>1, Indices
  <2> QED BY <1>8, <2>2 DEF Rewired
<1>9. Suits(ns, s[i]) => Suits(ms, s[i]) BY <1>8, Zenon DEF Suits
<1> QED BY <1>2, <1>3, <1>7, <1>9 DEF Untouched

(* A call: new frames that hold nothing, but for the last, which is the    *)
(* calling function's.                                                     *)
Blank(f) == f.node = 0 /\ f.left = 0 /\ f.at \notin Building
Closes(fs, g) ==
  /\ fs \in Seq(Frame) /\ fs # <<>> /\ fs[Len(fs)] = g
  /\ \A i \in 1 .. Len(fs) : i # Len(fs) => Blank(fs[i])

LEMMA Called ==
  ASSUME NEW s \in Seq(Frame), s # <<>>, NEW fs, NEW g, Closes(fs, g),
         NEW i \in DOMAIN (fs \o Tail(s))
  PROVE  /\ Len(fs) \in Nat /\ i \in Nat
         /\ \/ i < Len(fs) /\ Blank((fs \o Tail(s))[i])
            \/ i = Len(fs) /\ (fs \o Tail(s))[i] = g
            \/ /\ i > Len(fs) /\ i - Len(fs) + 1 \in DOMAIN s /\ i - Len(fs) + 1 # 1
               /\ (fs \o Tail(s))[i] = s[i - Len(fs) + 1]
<1>1. /\ fs \in Seq(Frame) /\ Len(fs) \in Nat /\ fs[Len(fs)] = g
      /\ \A k \in 1 .. Len(fs) : k # Len(fs) => Blank(fs[k])
  BY LenProperties DEF Closes
<1>2. /\ Tail(s) \in Seq(Frame) /\ Len(Tail(s)) = Len(s) - 1
      /\ \A k \in 1 .. Len(Tail(s)) : Tail(s)[k] = s[k + 1]
      /\ DOMAIN s = 1 .. Len(s) /\ Len(s) \in Nat
  BY HeadTailProperties, LenProperties
<1>3. /\ fs \o Tail(s) \in Seq(Frame)
      /\ Len(fs \o Tail(s)) = Len(fs) + Len(Tail(s))
      /\ \A k \in 1 .. Len(fs) + Len(Tail(s)) :
           (fs \o Tail(s))[k] = IF k <= Len(fs) THEN fs[k] ELSE Tail(s)[k - Len(fs)]
  BY <1>1, <1>2, ConcatProperties
<1>4. i \in 1 .. Len(fs) + Len(Tail(s)) BY <1>3, LenProperties
<1>5. CASE i <= Len(fs) BY <1>1, <1>3, <1>4, <1>5
<1>6. CASE i > Len(fs)
  <2>1. i - Len(fs) \in 1 .. Len(Tail(s)) BY <1>1, <1>2, <1>4, <1>6
  <2>2. i - Len(fs) + 1 \in 1 .. Len(s) /\ i - Len(fs) + 1 # 1 BY <1>2, <2>1
  <2>3. (fs \o Tail(s))[i] = s[i - Len(fs) + 1] BY <1>1, <1>2, <1>3, <1>4, <1>6, <2>1
  <2> QED BY <1>1, <1>2, <1>4, <1>6, <2>2, <2>3
<1> QED BY <1>1, <1>2, <1>4, <1>5, <1>6

(* What a call leaves on the stack t: the last new frame and the callers.  *)
Stays(t, s, g) == /\ \E k \in DOMAIN t : t[k] = g
                  /\ \A i \in DOMAIN s : i # 1 => \E k \in DOMAIN t : t[k] = s[i]

LEMMA StillThere ==
  ASSUME NEW s \in Seq(Frame), s # <<>>, NEW fs, NEW g, Closes(fs, g)
  PROVE  Stays(fs \o Tail(s), s, g)
<1> DEFINE t == fs \o Tail(s)
<1>1. fs \in Seq(Frame) /\ Len(fs) \in Nat /\ fs[Len(fs)] = g /\ Len(fs) >= 1
  BY LenProperties, EmptySeq DEF Closes
<1>2. /\ Tail(s) \in Seq(Frame) /\ Len(Tail(s)) = Len(s) - 1 /\ Len(Tail(s)) \in Nat
      /\ \A k \in 1 .. Len(Tail(s)) : Tail(s)[k] = s[k + 1]
      /\ DOMAIN s = 1 .. Len(s) /\ Len(s) \in Nat
  BY HeadTailProperties, LenProperties
<1>3. PICK n \in Nat, l \in Nat : n = Len(fs) /\ l = Len(Tail(s)) BY <1>1, <1>2
<1>4. /\ t \in Seq(Frame) /\ Len(t) = n + l
      /\ \A k \in 1 .. n + l : t[k] = IF k <= n THEN fs[k] ELSE Tail(s)[k - n]
  BY <1>1, <1>2, <1>3, ConcatProperties
<1>5. DOMAIN t = 1 .. n + l BY <1>4, LenProperties
<1> HIDE DEF t
<1>6. n \in DOMAIN t /\ t[n] = g BY <1>1, <1>3, <1>4, <1>5
<1>7. ASSUME NEW i \in DOMAIN s, i # 1 PROVE \E k \in DOMAIN t : t[k] = s[i]
  <2>1. PICK m \in Nat : m = i - 1 /\ m >= 1 /\ m + 1 = i /\ m <= l BY <1>2, <1>3, <1>7
  <2>2. PICK k \in Nat : k = n + m BY <1>3
  <2>3. k \in 1 .. n + l /\ ~(k <= n) /\ k - n = m BY <2>1, <2>2
  <2>4. t[k] = Tail(s)[m] BY <1>4, <2>3
  <2>5. Tail(s)[m] = s[i] BY <1>2, <1>3, <2>1
  <2> QED BY <1>5, <2>3, <2>4, <2>5
<1>8. Stays(t, s, g) BY <1>6, <1>7 DEF Stays
<1> QED BY <1>8 DEF t

LEMMA OrderedCall ==
  ASSUME NEW ns \in Seq(Node), NEW ms \in Seq(Node), Len(ns) <= Len(ms),
         NEW s \in Seq(Frame), s # <<>>, NEW p, Ordered(ns, s, p),
         NEW b \in Reach(ns, ms, s, p) \cup {0}, NEW taken, Rewired(ns, ms, b, taken),
         NEW fs, NEW g, Closes(fs, g),
         Grasp(ms, g) \subseteq Reach(ns, ms, s, p), g.node # 0 => g.node # g.left,
         \A i \in DOMAIN s : Suits(ns, s[i]), Suits(ms, g)
  PROVE  /\ Ordered(ms, fs \o Tail(s), {})
         /\ \A i \in DOMAIN (fs \o Tail(s)) : Suits(ms, (fs \o Tail(s))[i])
<1> DEFINE t == fs \o Tail(s)
<1>0. ASSUME NEW i \in DOMAIN s, i # 1
      PROVE  /\ Grasp(ms, s[i]) = Grasp(ns, s[i])
             /\ Grasp(ns, s[i]) \subseteq DOMAIN ns
             /\ \A a \in Reach(ns, ms, s, p), c \in Grasp(ns, s[i]) : c < a
  <2>1. Untouched(ns, ms, Reach(ns, ms, s, p), s[i]) BY <1>0, Below
  <2> QED BY <2>1, Zenon DEF Untouched
<1>1. Reach(ns, ms, s, p) \subseteq DOMAIN ms
  <2>1. Head(s) = s[1] /\ 1 \in DOMAIN s BY LenProperties, EmptySeq
  <2> QED BY <2>1, Indices DEF Reach, Ordered
<1>2. ASSUME NEW f, Blank(f) PROVE Grasp(ms, f) = {}
  BY <1>2, Indices DEF Blank, Grasp, KidsOf
<1>3. ASSUME NEW i \in DOMAIN t
      PROVE  Grasp(ms, t[i]) \subseteq DOMAIN ms /\ (t[i].node # 0 => t[i].node # t[i].left)
  <2>1. CASE Blank(t[i]) BY <1>2, <2>1 DEF Blank
  <2>2. CASE t[i] = g BY <1>1, <2>2
  <2>3. ASSUME NEW j \in DOMAIN s, j # 1, t[i] = s[j]
        PROVE  Grasp(ms, t[i]) \subseteq DOMAIN ms /\ (t[i].node # 0 => t[i].node # t[i].left)
    <3>1. Grasp(ms, s[j]) \subseteq DOMAIN ns BY <1>0, <2>3
    <3> QED BY <2>3, <3>1, Indices DEF Ordered
  <2> QED BY <2>1, <2>2, <2>3, Called
<1>4. ASSUME NEW i \in DOMAIN t, NEW j \in DOMAIN t, i < j,
             NEW a \in Grasp(ms, t[i]), NEW c \in Grasp(ms, t[j])
      PROVE  c < a
  <2>1. ~Blank(t[i]) /\ ~Blank(t[j]) BY <1>2
  <2>2. Len(fs) \in Nat /\ i \in Nat /\ j \in Nat BY Called
  <2>3. j > Len(fs)
    <3>1. i >= Len(fs) BY <2>1, <2>2, Called
    <3> QED BY <1>4, <2>2, <3>1
  <2>4. j - Len(fs) + 1 \in DOMAIN s /\ j - Len(fs) + 1 # 1 /\ t[j] = s[j - Len(fs) + 1]
    BY <2>2, <2>3, Called
  <2>5. PICK m \in DOMAIN s : m # 1 /\ m = j - Len(fs) + 1 /\ t[j] = s[m] BY <2>4
  <2>6. c \in Grasp(ns, s[m])
    <3>1. Grasp(ms, s[m]) = Grasp(ns, s[m]) BY <2>5, <1>0
    <3> QED BY <2>5, <3>1
  <2>7. CASE t[i] = g BY <1>0, <2>5, <2>6, <2>7
  <2>8. CASE i > Len(fs)
    <3>1. PICK k \in DOMAIN s : k # 1 /\ k = i - Len(fs) + 1 /\ t[i] = s[k]
      BY <2>2, <2>8, Called
    <3>2. a \in Grasp(ns, s[k])
      <4>1. Grasp(ms, s[k]) = Grasp(ns, s[k]) BY <3>1, <1>0
      <4> QED BY <3>1, <4>1
    <3>3. k < m BY <1>4, <2>2, <2>5, <3>1
    <3> QED BY <2>6, <3>2, <3>3 DEF Ordered
  <2> QED BY <2>1, <2>7, <2>8, Called
<1>5. ASSUME NEW i \in DOMAIN t PROVE Suits(ms, t[i])
  <2>1. \A f : Blank(f) => Suits(ms, f) BY DEF Blank, Suits, Building
  <2>2. \A j \in DOMAIN s : j # 1 => Suits(ms, s[j]) BY Below
  <2> QED BY <2>1, <2>2, Called
<1> HIDE DEF t
<1>6. Ordered(ms, t, {}) BY <1>3, <1>4 DEF Ordered
<1> QED BY <1>5, <1>6 DEF t

LEMMA InLoose ==
  ASSUME NEW s, NEW p, NEW i \in DOMAIN s, NEW c \in Own(s[i])
  PROVE  c \in Loose(s, p)
<1>1. Own(s[i]) \in {Own(s[j]) : j \in DOMAIN s} OBVIOUS
<1>2. c \in UNION {Own(s[j]) : j \in DOMAIN s} BY <1>1, Zenon
<1> QED BY <1>2, Zenon DEF Loose

LEMMA FromLoose ==
  ASSUME NEW s, NEW p, NEW c \in Loose(s, p)
  PROVE  c \in p \/ \E i \in DOMAIN s : c \in Own(s[i])
<1>1. c \in UNION {Own(s[j]) : j \in DOMAIN s} \/ c \in p BY Zenon DEF Loose
<1>2. c \in UNION {Own(s[j]) : j \in DOMAIN s} => \E S \in {Own(s[j]) : j \in DOMAIN s} : c \in S
  OBVIOUS
<1> QED BY <1>1, <1>2

LEMMA HeadIsLoose ==
  ASSUME NEW s \in Seq(Frame), s # <<>>, NEW p
  PROVE  Own(Head(s)) \subseteq Loose(s, p)
<1>1. Head(s) = s[1] /\ 1 \in DOMAIN s BY LenProperties, EmptySeq
<1> QED BY <1>1, InLoose

LEMMA PendingIsLoose == ASSUME NEW s, NEW p PROVE p \subseteq Loose(s, p)
BY DEF Loose

LEMMA LooseCall ==
  ASSUME NEW ns \in Seq(Node), NEW ms \in Seq(Node), Len(ns) <= Len(ms),
         NEW s \in Seq(Frame), s # <<>>, NEW p, Ordered(ns, s, p),
         NEW b \in Reach(ns, ms, s, p) \cup {0}, NEW taken, Rewired(ns, ms, b, taken),
         taken \subseteq Spare(ns, ms, s, p),
         NEW fs, NEW g, Closes(fs, g), Own(g) \subseteq Spare(ns, ms, s, p) \ taken
  PROVE  /\ Loose(fs \o Tail(s), {}) \cap taken = {}
         /\ Loose(fs \o Tail(s), {}) \cap DOMAIN ns \subseteq Loose(s, p)
<1> DEFINE t == fs \o Tail(s)
<1>1. Spare(ns, ms, s, p) \subseteq Reach(ns, ms, s, p) BY DEF Spare, Reach, Own, Grasp
<1>2. Head(s) = s[1] /\ 1 \in DOMAIN s BY LenProperties, EmptySeq
<1>3. Spare(ns, ms, s, p) \cap DOMAIN ns \subseteq Loose(s, p)
  BY HeadIsLoose, PendingIsLoose DEF Spare
<1>4. ASSUME NEW i \in DOMAIN t, NEW c \in Own(t[i])
      PROVE  c \notin taken /\ (c \in DOMAIN ns => c \in Loose(s, p))
  <2>1. CASE Blank(t[i]) BY <2>1 DEF Blank, Own
  <2>2. CASE t[i] = g BY <1>3, <2>2
  <2>3. ASSUME NEW j \in DOMAIN s, j # 1, t[i] = s[j]
        PROVE  c \notin taken /\ (c \in DOMAIN ns => c \in Loose(s, p))
    <3>1. c \in Grasp(ns, s[j]) BY <2>3 DEF Own, Grasp
    <3>2. c \notin taken
      <4> SUFFICES ASSUME c \in taken PROVE FALSE
        OBVIOUS
      <4>1. Untouched(ns, ms, Reach(ns, ms, s, p), s[j]) BY <2>3, Below
      <4>2. c < c /\ c \in DOMAIN ns BY <1>1, <3>1, <4>1 DEF Untouched
      <4>3. c \in Nat BY <4>2, Indices
      <4> QED BY <4>2, <4>3
    <3> QED BY <2>3, <3>2, InLoose
  <2> QED BY <2>1, <2>2, <2>3, Called
<1> HIDE DEF t
<1>5. /\ Loose(t, {}) \cap taken = {} /\ Loose(t, {}) \cap DOMAIN ns \subseteq Loose(s, p)
  BY <1>4, FromLoose
<1> QED BY <1>5 DEF t

(* A return.                                                               *)
LEMMA Returned ==
  ASSUME NEW s \in Seq(Frame), s # <<>>, NEW i \in DOMAIN Tail(s)
  PROVE  i \in Nat /\ i + 1 \in DOMAIN s /\ i + 1 # 1 /\ Tail(s)[i] = s[i + 1]
<1>1. /\ Tail(s) \in Seq(Frame) /\ Len(Tail(s)) = Len(s) - 1
      /\ \A k \in 1 .. Len(Tail(s)) : Tail(s)[k] = s[k + 1]
      /\ DOMAIN s = 1 .. Len(s) /\ Len(s) \in Nat
  BY HeadTailProperties, LenProperties
<1>2. i \in 1 .. Len(Tail(s)) BY <1>1, LenProperties
<1> QED BY <1>1, <1>2

LEMMA OrderedReturn ==
  ASSUME NEW ns \in Seq(Node), NEW ms \in Seq(Node), Len(ns) <= Len(ms),
         NEW s \in Seq(Frame), s # <<>>, NEW p, Ordered(ns, s, p),
         NEW b \in Reach(ns, ms, s, p) \cup {0}, NEW taken, Rewired(ns, ms, b, taken),
         taken \subseteq Spare(ns, ms, s, p),
         NEW r \in Spare(ns, ms, s, p) \ taken, NEW q, q \subseteq {r},
         \A i \in DOMAIN s : Suits(ns, s[i])
  PROVE  /\ Ordered(ms, Tail(s), q)
         /\ Loose(Tail(s), q) \cap taken = {}
         /\ Loose(Tail(s), q) \cap DOMAIN ns \subseteq Loose(s, p)
         /\ \A i \in DOMAIN Tail(s) : Suits(ms, Tail(s)[i])
<1> DEFINE t == Tail(s)
<1>0. ASSUME NEW i \in DOMAIN s, i # 1
      PROVE  /\ Grasp(ms, s[i]) = Grasp(ns, s[i])
             /\ Grasp(ns, s[i]) \subseteq DOMAIN ns
             /\ \A a \in Reach(ns, ms, s, p), c \in Grasp(ns, s[i]) : c < a
  <2>1. Untouched(ns, ms, Reach(ns, ms, s, p), s[i]) BY <1>0, Below
  <2> QED BY <2>1, Zenon DEF Untouched
<1>1. /\ Spare(ns, ms, s, p) \subseteq Reach(ns, ms, s, p)
      /\ Reach(ns, ms, s, p) \subseteq DOMAIN ms
      /\ Spare(ns, ms, s, p) \cap DOMAIN ns \subseteq Loose(s, p)
  <2>1. Head(s) = s[1] /\ 1 \in DOMAIN s BY LenProperties, EmptySeq
  <2>2. Spare(ns, ms, s, p) \subseteq Reach(ns, ms, s, p) BY DEF Spare, Reach, Own, Grasp
  <2>3. Spare(ns, ms, s, p) \cap DOMAIN ns \subseteq Loose(s, p)
    BY HeadIsLoose, PendingIsLoose DEF Spare
  <2> QED BY <2>1, <2>2, <2>3, Indices DEF Reach, Ordered
<1>2. ASSUME NEW i \in DOMAIN t
      PROVE  \E j \in DOMAIN s :
               /\ j = i + 1 /\ j # 1 /\ t[i] = s[j] /\ i \in Nat
               /\ Grasp(ms, t[i]) = Grasp(ns, s[j])
               /\ Grasp(ns, s[j]) \subseteq DOMAIN ms
               /\ \A a \in Reach(ns, ms, s, p), c \in Grasp(ns, s[j]) : c < a
  <2>1. PICK j \in DOMAIN s : j = i + 1 /\ j # 1 /\ t[i] = s[j] /\ i \in Nat BY Returned
  <2>2. Grasp(ms, s[j]) = Grasp(ns, s[j]) /\ Grasp(ns, s[j]) \subseteq DOMAIN ns
    BY <1>0, <2>1
  <2>3. \A a \in Reach(ns, ms, s, p), c \in Grasp(ns, s[j]) : c < a BY <1>0, <2>1
  <2> QED BY <2>1, <2>2, <2>3, Indices
<1>3. ASSUME NEW i \in DOMAIN t
      PROVE  Grasp(ms, t[i]) \subseteq DOMAIN ms /\ (t[i].node # 0 => t[i].node # t[i].left)
  BY <1>2 DEF Ordered
<1>4. ASSUME NEW i \in DOMAIN t, NEW j \in DOMAIN t, i < j,
             NEW a \in Grasp(ms, t[i]), NEW c \in Grasp(ms, t[j])
      PROVE  c < a
  <2>1. PICK k \in DOMAIN s : k = i + 1 /\ Grasp(ms, t[i]) = Grasp(ns, s[k]) /\ i \in Nat BY <1>2
  <2>2. PICK m \in DOMAIN s : m = j + 1 /\ Grasp(ms, t[j]) = Grasp(ns, s[m]) /\ j \in Nat BY <1>2
  <2>3. k < m BY <1>4, <2>1, <2>2
  <2> QED BY <2>1, <2>2, <2>3 DEF Ordered
<1>5. ASSUME NEW i \in DOMAIN t, NEW a \in q, NEW c \in Grasp(ms, t[i]) PROVE c < a
  <2>1. a \in Reach(ns, ms, s, p) BY <1>1
  <2> QED BY <1>2, <2>1
<1>6. ASSUME NEW c \in Loose(t, q) PROVE c \notin taken /\ (c \in DOMAIN ns => c \in Loose(s, p))
  <2>1. CASE c \in q BY <1>1, <2>1
  <2>2. ASSUME NEW i \in DOMAIN t, c \in Own(t[i])
        PROVE  c \notin taken /\ (c \in DOMAIN ns => c \in Loose(s, p))
    <3>1. PICK j \in DOMAIN s :
               /\ j = i + 1 /\ j # 1 /\ t[i] = s[j]
               /\ Grasp(ns, s[j]) \subseteq DOMAIN ms
               /\ \A a \in Reach(ns, ms, s, p), d \in Grasp(ns, s[j]) : d < a
      BY <1>2
    <3>2. c \in Grasp(ns, s[j]) BY <2>2, <3>1 DEF Own, Grasp
    <3>3. c \in Nat BY <3>1, <3>2, Indices
    <3>4. c \in taken => c < c BY <1>1, <3>1, <3>2
    <3> QED BY <2>2, <3>1, <3>3, <3>4, InLoose
  <2> QED BY <2>1, <2>2, FromLoose
<1>8. ASSUME NEW i \in DOMAIN t PROVE Suits(ms, t[i])
  <2>1. \A j \in DOMAIN s : j # 1 => Suits(ms, s[j]) BY Below
  <2> QED BY <2>1, Returned
<1> HIDE DEF t
<1>7. Ordered(ms, t, q)
  <2>1. q \subseteq DOMAIN ms BY <1>1
  <2> QED BY <1>3, <1>4, <1>5, <2>1 DEF Ordered
<1> QED BY <1>6, <1>7, <1>8 DEF t

-----------------------------------------------------------------------------
(* The parser's nodes, stack and result.                                   *)

Pending == IF stack = <<>> \/ Top.at \in Resumptions THEN {ret} ELSE {}

TreeInv == /\ TreeOf(nodes, stack, Pending)
           /\ status = "accepted" => stack = <<>>

(* The nodes a step makes, those that wait for a parent and all it reaches. *)
Fresh == DOMAIN nodes' \ DOMAIN nodes
Free == Spare(nodes, nodes', stack, Pending)
Near == Reach(nodes, nodes', stack, Pending)

(* The nodes that become children of b are others than b and the node      *)
(* under construction, one of them new at most; a left operand comes first. *)
Apart(b, taken) ==
  /\ taken \cap {Top.node, b} = {}
  /\ \A c, d \in taken \cap Fresh : c = d
  /\ Top.left \in taken => b \in Fresh \/ Top.at \in {"LogicRhs", "FactorRhs", "NegRhs"}

(* What a step does to the nodes.                                          *)
Wired(b, taken) ==
  /\ b \in Reach(nodes, nodes', stack, Pending) \cup {0}
  /\ taken \subseteq Spare(nodes, nodes', stack, Pending)
  /\ Rewired(nodes, nodes', b, taken)
  /\ b \in {0, Top.node} \cup Fresh /\ Apart(b, taken)

(* The frames a call leaves behind, with what the function has left.       *)
Frames(fs, g, taken) ==
  /\ Closes(fs, g) /\ Head(fs).at \notin Resumptions
  /\ Own(g) \subseteq Spare(nodes, nodes', stack, Pending) \ taken
  /\ Grasp(nodes', g) \subseteq Reach(nodes, nodes', stack, Pending)
  /\ g.node # 0 => g.node # g.left
  /\ Suits(nodes', g)

(* What every step does: it calls, or it returns a node.                   *)
Moved == \E b, taken :
           /\ Wired(b, taken)
           /\ \/ \E fs, g : Frames(fs, g, taken) /\ Call(fs)
              \/ \E r \in Free \ taken : Return(r)

Treed == TreeInv' /\ Moved

LEMMA Reached ==
  ASSUME IInv, IInv', Len(nodes) <= Len(nodes'), stack # <<>>, TreeInv
  PROVE  /\ Spare(nodes, nodes', stack, Pending) \subseteq Reach(nodes, nodes', stack, Pending)
         /\ Reach(nodes, nodes', stack, Pending) \subseteq DOMAIN nodes'
         /\ Spare(nodes, nodes', stack, Pending) \cap DOMAIN nodes \subseteq Loose(stack, Pending)
<1>1. nodes \in Seq(Node) /\ nodes' \in Seq(Node) /\ stack \in Seq(Frame) BY DEF IInv, TypeOK
<1>2. Head(stack) = stack[1] /\ 1 \in DOMAIN stack BY <1>1, LenProperties, EmptySeq
<1>3. Ordered(nodes, stack, Pending) BY DEF TreeInv, TreeOf
<1>4. Spare(nodes, nodes', stack, Pending) \subseteq Reach(nodes, nodes', stack, Pending)
  BY DEF Spare, Reach, Own, Grasp
<1>5. Reach(nodes, nodes', stack, Pending) \subseteq DOMAIN nodes'
  BY <1>1, <1>2, <1>3, Indices DEF Reach, Ordered
<1>6. Spare(nodes, nodes', stack, Pending) \cap DOMAIN nodes \subseteq Loose(stack, Pending)
  BY <1>1, HeadIsLoose, PendingIsLoose DEF Spare
<1> QED BY <1>4, <1>5, <1>6

LEMMA TreeCalls ==
  ASSUME IInv, IInv', TreeInv, status' # "accepted", stack # <<>>, Len(nodes) <= Len(nodes'),
         NEW b, NEW taken, Wired(b, taken), NEW fs, NEW g, Frames(fs, g, taken), Call(fs)
  PROVE  Treed
<1>1. nodes \in Seq(Node) /\ nodes' \in Seq(Node) /\ stack \in Seq(Frame) BY DEF IInv, TypeOK
<1>2. stack' = fs \o Tail(stack) BY DEF Call
<1>3. Pending' = {}
  <2>1. /\ fs \in Seq(Frame) /\ fs # <<>> /\ Tail(stack) \in Seq(Frame)
    BY <1>1, HeadTailProperties DEF Frames, Closes
  <2>2. stack' # <<>> /\ Head(stack') = Head(fs)
    <3>1. Len(fs) \in Nat /\ Len(fs) >= 1 /\ Len(Tail(stack)) \in Nat
      BY <2>1, LenProperties, EmptySeq
    <3>2. /\ Len(stack') = Len(fs) + Len(Tail(stack)) /\ stack' \in Seq(Frame)
          /\ \A k \in 1 .. Len(fs) + Len(Tail(stack)) :
               stack'[k] = IF k <= Len(fs) THEN fs[k] ELSE Tail(stack)[k - Len(fs)]
      BY <1>2, <2>1, ConcatProperties
    <3>3. stack'[1] = fs[1] BY <3>1, <3>2
    <3> QED BY <2>1, <3>1, <3>2, <3>3, EmptySeq
  <2> QED BY <2>2 DEF Pending, Frames, Top
<1>4. /\ Ordered(nodes', stack', {})
      /\ \A i \in DOMAIN stack' : Suits(nodes', stack'[i])
  BY <1>1, <1>2, OrderedCall DEF Wired, Frames, TreeInv, TreeOf
<1>5. /\ Loose(stack', {}) \cap taken = {}
      /\ Loose(stack', {}) \cap DOMAIN nodes \subseteq Loose(stack, Pending)
  <2>1. /\ b \in Reach(nodes, nodes', stack, Pending) \cup {0}
        /\ taken \subseteq Spare(nodes, nodes', stack, Pending)
        /\ Rewired(nodes, nodes', b, taken)
        /\ Ordered(nodes, stack, Pending)
        /\ Closes(fs, g) /\ Own(g) \subseteq Spare(nodes, nodes', stack, Pending) \ taken
    BY DEF Wired, Frames, TreeInv, TreeOf
  <2>2. /\ Loose(fs \o Tail(stack), {}) \cap taken = {}
        /\ Loose(fs \o Tail(stack), {}) \cap DOMAIN nodes \subseteq Loose(stack, Pending)
    BY <1>1, <2>1, LooseCall
  <2> QED BY <1>2, <2>2
<1>6. taken \subseteq DOMAIN nodes' /\ taken \cap DOMAIN nodes \subseteq Loose(stack, Pending)
  BY Reached DEF Wired
<1>7. /\ OneParent(nodes') /\ InOrder(nodes') /\ Orphans(nodes', Loose(stack', {}))
      /\ \A i \in DOMAIN nodes' : Sized(nodes'[i])
  BY <1>1, <1>5, <1>6, RewiredTree DEF Wired, TreeInv, TreeOf
<1>8. Moved BY DEF Moved
<1> QED BY <1>3, <1>4, <1>7, <1>8 DEF TreeInv, TreeOf, Treed

LEMMA TreeReturns ==
  ASSUME IInv, IInv', TreeInv, status' # "accepted", stack # <<>>, Len(nodes) <= Len(nodes'),
         NEW b, NEW taken, Wired(b, taken),
         NEW r \in Spare(nodes, nodes', stack, Pending) \ taken, Return(r)
  PROVE  Treed
<1>1. nodes \in Seq(Node) /\ nodes' \in Seq(Node) /\ stack \in Seq(Frame) BY DEF IInv, TypeOK
<1>2. stack' = Tail(stack) /\ ret' = r BY DEF Return
<1>3. Pending' \subseteq {r} BY <1>2 DEF Pending
<1>4. /\ Ordered(nodes', stack', Pending')
      /\ \A i \in DOMAIN stack' : Suits(nodes', stack'[i])
      /\ Loose(stack', Pending') \cap taken = {}
      /\ Loose(stack', Pending') \cap DOMAIN nodes \subseteq Loose(stack, Pending)
  BY <1>1, <1>2, <1>3, OrderedReturn DEF Wired, TreeInv, TreeOf
<1>5. taken \subseteq DOMAIN nodes' /\ taken \cap DOMAIN nodes \subseteq Loose(stack, Pending)
  BY Reached DEF Wired
<1>6. /\ OneParent(nodes') /\ InOrder(nodes') /\ Orphans(nodes', Loose(stack', Pending'))
      /\ \A i \in DOMAIN nodes' : Sized(nodes'[i])
  BY <1>1, <1>4, <1>5, RewiredTree DEF Wired, TreeInv, TreeOf
<1>7. Moved BY DEF Moved, Free
<1> QED BY <1>4, <1>6, <1>7 DEF TreeInv, TreeOf, Treed

-----------------------------------------------------------------------------
(* What the running function finds.                                        *)

(* A step of the function at `label` from a state with the invariants.     *)
Going(label) ==
  /\ IInv /\ IInv' /\ TreeInv /\ Running(label) /\ status' # "accepted"
  /\ Len(nodes) <= Len(nodes')

LEMMA Around ==
  ASSUME NEW label, Going(label)
  PROVE  /\ Len(nodes) \in Nat /\ Len(nodes') \in Nat
         /\ DOMAIN nodes = 1 .. Len(nodes) /\ DOMAIN nodes' = 1 .. Len(nodes')
         /\ DOMAIN nodes \subseteq DOMAIN nodes' /\ 0 \notin DOMAIN nodes'
         /\ Fresh \subseteq Free /\ Free \subseteq Near /\ Near \subseteq DOMAIN nodes'
         /\ Grasp(nodes, Top) \subseteq Near /\ Grasp(nodes, Top) \subseteq DOMAIN nodes
         /\ Top.node # 0 => Top.node \in Free /\ Top.node # Top.left
         /\ Top.left # 0 => Top.left \in Near
         /\ Top.left # 0 /\ label # "TermRhs" => Top.left \in Free
         /\ 0 \notin Near
<1>1. nodes \in Seq(Node) /\ nodes' \in Seq(Node) /\ stack \in Seq(Frame) /\ stack # <<>>
  BY DEF Going, IInv, TypeOK, Running
<1>2. Head(stack) = Top /\ Top = stack[1] /\ 1 \in DOMAIN stack /\ Top.at = label
  BY <1>1, LenProperties, EmptySeq DEF Top, Going, Running
<1>3. Free \subseteq Near /\ Near \subseteq DOMAIN nodes'
  BY <1>1, Reached DEF Going, Free, Near
<1>4. Fresh \subseteq Free BY DEF Fresh, Free, Spare
<1>5. Own(Top) \subseteq Free /\ Grasp(nodes, Top) \subseteq Near
  BY <1>2 DEF Free, Spare, Near, Reach
<1>6. Grasp(nodes, Top) \subseteq DOMAIN nodes /\ (Top.node # 0 => Top.node # Top.left)
  BY <1>2 DEF Going, TreeInv, TreeOf, Ordered
<1>7. Top.node # 0 => Top.node \in Own(Top) BY DEF Own
<1>8. Top.left # 0 /\ label # "TermRhs" => Top.left \in Own(Top) BY <1>2 DEF Own
<1>9. Top.left # 0 => Top.left \in Grasp(nodes, Top) BY DEF Grasp
<1>10. 0 \notin DOMAIN nodes' /\ DOMAIN nodes \subseteq DOMAIN nodes'
  BY <1>1, Indices DEF Going
<1>11. DOMAIN nodes = 1 .. Len(nodes) /\ DOMAIN nodes' = 1 .. Len(nodes')
       /\ Len(nodes) \in Nat /\ Len(nodes') \in Nat
  BY <1>1, LenProperties
<1> QED BY <1>3, <1>4, <1>5, <1>6, <1>7, <1>8, <1>9, <1>10, <1>11

(* A node under construction is of its kind, and no one's child.           *)
LEMMA Builds ==
  ASSUME NEW label \in Building, Going(label)
  PROVE  /\ Top.node \in DOMAIN nodes /\ Top.node # 0 /\ Top.node \in Free
         /\ Here.kind \in KindsAt(label) /\ Sized(Here) /\ Here \in Node
         /\ Top.at = label
         /\ \A c \in KidsOf(nodes, Top.node) : c \in Near /\ c \in DOMAIN nodes /\ c # Top.node
<1>1. nodes \in Seq(Node) /\ stack \in Seq(Frame) /\ stack # <<>>
  BY DEF Going, IInv, TypeOK, Running
<1>2. Head(stack) = Top /\ Top = stack[1] /\ 1 \in DOMAIN stack /\ Top.at = label
  BY <1>1, LenProperties, EmptySeq DEF Top, Going, Running
<1>3. Suits(nodes, Top) BY <1>2 DEF Going, TreeInv, TreeOf
<1>4. Top.node \in DOMAIN nodes /\ Here.kind \in KindsAt(label) BY <1>2, <1>3 DEF Suits, Here
<1>5. Sized(Here) BY <1>4 DEF Going, TreeInv, TreeOf, Here
<1>6. Here \in Node BY BuildingNode DEF Going
<1>7. Top.node # 0 /\ Top.node \in Free
  <2>1. Top.node # 0 BY <1>4, Around
  <2> QED BY <2>1, Around
<1>8. ASSUME NEW c \in KidsOf(nodes, Top.node)
      PROVE  c \in Near /\ c \in DOMAIN nodes /\ c # Top.node
  <2>1. c \in Grasp(nodes, Top) BY DEF Grasp, KidsOf
  <2>2. Top.node \in Loose(stack, Pending)
    <3>1. Top.node \in Own(Top) BY <1>7 DEF Own
    <3> QED BY <1>2, <3>1, InLoose
  <2>3. c \notin Loose(stack, Pending) BY <1>4 DEF Going, TreeInv, TreeOf, Orphans
  <2> QED BY <2>1, <2>2, <2>3, Around
<1> QED BY <1>2, <1>4, <1>5, <1>6, <1>7, <1>8

(* The result of a call was made after all the function holds, and is no   *)
(* one's child.                                                            *)
LEMMA Given ==
  ASSUME NEW label \in Resumptions, Going(label)
  PROVE  /\ ret \in DOMAIN nodes /\ ret \in Nat /\ ret # 0 /\ ret \in Free
         /\ \A c \in Grasp(nodes, Top) : c < ret /\ c # ret
         /\ \A i \in DOMAIN nodes : ret \notin KidsOf(nodes, i)
<1>1. nodes \in Seq(Node) /\ stack \in Seq(Frame) /\ stack # <<>>
  BY DEF Going, IInv, TypeOK, Running
<1>2. Head(stack) = Top /\ Top = stack[1] /\ 1 \in DOMAIN stack /\ Top.at = label
  BY <1>1, LenProperties, EmptySeq DEF Top, Going, Running
<1>3. Pending = {ret} BY <1>2 DEF Pending
<1>4. /\ ret \in DOMAIN nodes
      /\ \A c \in Grasp(nodes, Top) : c < ret
  BY <1>2, <1>3 DEF Going, TreeInv, TreeOf, Ordered
<1>5. ret \in Nat /\ ret # 0 BY <1>4, Around
<1>6. ret \in Free BY <1>3 DEF Free, Spare
<1>7. \A c \in Grasp(nodes, Top) : c # ret
  <2>1. ~(ret < ret) BY <1>5
  <2> QED BY <1>4, <2>1
<1>8. ret \in Loose(stack, Pending) BY <1>3, PendingIsLoose
<1>9. \A i \in DOMAIN nodes : ret \notin KidsOf(nodes, i)
  BY <1>8 DEF Going, TreeInv, TreeOf, Orphans
<1> QED BY <1>4, <1>5, <1>6, <1>7, <1>9

-----------------------------------------------------------------------------
(* The frames of the calls.                                                *)

Bare(fs) == /\ fs \in Seq(Frame) /\ fs # <<>> /\ Head(fs).at \notin Resumptions
            /\ \A i \in 1 .. Len(fs) : Blank(fs[i])

LEMMA BareOne ==
  ASSUME NEW f \in Frame, Blank(f), f.at \notin Resumptions
  PROVE  Bare(<<f>>)
<1>1. <<f>> \in Seq(Frame) /\ <<f>> # <<>> /\ Len(<<f>>) = 1 /\ <<f>>[1] = f OBVIOUS
<1> QED BY <1>1 DEF Bare

LEMMA BareMore ==
  ASSUME NEW fs, Bare(fs), NEW f \in Frame, Blank(f)
  PROVE  Bare(fs \o <<f>>)
<1>1. fs \in Seq(Frame) /\ <<f>> \in Seq(Frame) /\ Len(<<f>>) = 1 /\ <<f>>[1] = f
  BY DEF Bare
<1>2. Len(fs) \in Nat /\ Len(fs) >= 1 BY <1>1, EmptySeq, LenProperties DEF Bare
<1>3. /\ fs \o <<f>> \in Seq(Frame)
      /\ Len(fs \o <<f>>) = Len(fs) + 1
      /\ \A i \in 1 .. Len(fs) + 1 :
           (fs \o <<f>>)[i] = IF i <= Len(fs) THEN fs[i] ELSE <<f>>[i - Len(fs)]
  BY <1>1, ConcatProperties
<1>4. fs \o <<f>> # <<>> BY <1>2, <1>3, EmptySeq
<1>5. (fs \o <<f>>)[1] = fs[1] BY <1>2, <1>3
<1>6. ASSUME NEW i \in 1 .. Len(fs) + 1 PROVE Blank((fs \o <<f>>)[i])
  <2>1. CASE i <= Len(fs) BY <1>2, <1>3, <2>1 DEF Bare
  <2>2. CASE i = Len(fs) + 1
    <3>1. (fs \o <<f>>)[i] = f BY <1>1, <1>2, <1>3, <2>2
    <3> QED BY <3>1
  <2> QED BY <1>2, <2>1, <2>2
<1> QED BY <1>1, <1>3, <1>4, <1>5, <1>6 DEF Bare

LEMMA BareFrame ==
  ASSUME NEW at \in Labels \ Building
  PROVE  Fr(at) \in Frame /\ Blank(Fr(at)) /\ Fr(at).at = at
<1>1. ZeroType \in AstType BY DEF ZeroType, AstType, ValueType
<1> QED BY <1>1 DEF Fr, Frame, Blank

LEMMA PairIsConcat ==
  ASSUME NEW f \in Frame, NEW g \in Frame
  PROVE  <<f, g>> = <<f>> \o <<g>>
<1>1. <<f, g>> = Append(<<f>>, g) OBVIOUS
<1>2. <<f>> \in Seq(Frame) OBVIOUS
<1> QED BY <1>1, <1>2, AppendIsConcat

LEMMA BareCalls ==
  /\ \A at \in {"Statement", "Block", "Decl", "Unary", "Deref", "Ref", "Literal"} : Bare(<<Fr(at)>>)
  /\ Bare(FactorCall) /\ Bare(TermCall) /\ Bare(CmpCall) /\ Bare(LogicCall)
  /\ Bare(<<Fr("Decl"), Fr("ExprSemi")>>)
<1>1. \A at \in {"Statement", "Block", "Decl", "Unary", "Deref", "Ref", "Literal", "FactorRest",
                 "TermFirst", "Assignment", "CmpRest", "LogicRest", "ExprSemi"} :
        Fr(at) \in Frame /\ Blank(Fr(at)) /\ Fr(at).at = at
  BY BareFrame DEF Labels, Resumptions, Building
<1>2. \A at \in {"Statement", "Block", "Decl", "Unary", "Deref", "Ref", "Literal", "Assignment"} :
        Bare(<<Fr(at)>>)
  BY <1>1, BareOne DEF Resumptions
<1>3. \A f \in Frame, g \in Frame : <<f, g>> = <<f>> \o <<g>> BY PairIsConcat
<1>4. Bare(FactorCall) BY <1>1, <1>2, <1>3, BareMore DEF FactorCall
<1>5. Bare(CmpCall) BY <1>1, <1>2, <1>3, BareMore DEF CmpCall
<1>6. Bare(TermCall) BY <1>1, <1>4, BareMore DEF TermCall
<1>7. Bare(LogicCall) BY <1>1, <1>5, BareMore DEF LogicCall
<1>8. Bare(<<Fr("Decl"), Fr("ExprSemi")>>) BY <1>1, <1>2, <1>3, BareMore
<1> QED BY <1>2, <1>4, <1>5, <1>6, <1>7, <1>8

LEMMA EndsBare ==
  ASSUME NEW fs, Bare(fs)
  PROVE  \E g : Closes(fs, g) /\ Blank(g)
<1>1. Len(fs) \in Nat /\ Len(fs) >= 1 BY LenProperties, EmptySeq DEF Bare
<1>2. Len(fs) \in 1 .. Len(fs) BY <1>1
<1> QED BY <1>2 DEF Closes, Bare

LEMMA EndsOne ==
  ASSUME NEW g \in Frame
  PROVE  Closes(<<g>>, g) /\ Head(<<g>>) = g
<1>1. <<g>> \in Seq(Frame) /\ <<g>> # <<>> /\ Len(<<g>>) = 1 /\ <<g>>[1] = g OBVIOUS
<1> QED BY <1>1 DEF Closes

LEMMA EndsMore ==
  ASSUME NEW fs, Bare(fs), NEW g \in Frame
  PROVE  Closes(fs \o <<g>>, g) /\ Head(fs \o <<g>>) = Head(fs)
<1>1. fs \in Seq(Frame) /\ <<g>> \in Seq(Frame) /\ Len(<<g>>) = 1 /\ <<g>>[1] = g
  BY DEF Bare
<1>2. Len(fs) \in Nat /\ Len(fs) >= 1 BY <1>1, EmptySeq, LenProperties DEF Bare
<1>3. /\ fs \o <<g>> \in Seq(Frame)
      /\ Len(fs \o <<g>>) = Len(fs) + 1
      /\ \A i \in 1 .. Len(fs) + 1 :
           (fs \o <<g>>)[i] = IF i <= Len(fs) THEN fs[i] ELSE <<g>>[i - Len(fs)]
  BY <1>1, ConcatProperties
<1>4. fs \o <<g>> # <<>> BY <1>2, <1>3, EmptySeq
<1>5. (fs \o <<g>>)[1] = fs[1] BY <1>2, <1>3
<1>6. (fs \o <<g>>)[Len(fs) + 1] = g BY <1>1, <1>2, <1>3
<1>7. ASSUME NEW i \in 1 .. Len(fs) + 1, i # Len(fs) + 1 PROVE Blank((fs \o <<g>>)[i])
  <2>1. i \in 1 .. Len(fs) /\ i <= Len(fs) BY <1>2, <1>7
  <2> QED BY <1>2, <1>3, <2>1 DEF Bare
<1> QED BY <1>1, <1>3, <1>4, <1>5, <1>6, <1>7 DEF Closes

(* What the last frame may hold.                                           *)
Holds(g, taken) ==
  /\ g.node = 0 \/ g.node \in ({Top.node} \cup Fresh) \ taken
  /\ \/ g.left = 0
     \/ g.left \in Free \ taken
     \/ g.at = "TermRhs" /\ g.left \in Near
  /\ g.node # 0 => g.node # g.left
  /\ Suits(nodes', g)

LEMMA HoldsFrames ==
  ASSUME NEW label, Going(label), NEW b, NEW taken, Wired(b, taken),
         NEW fs, NEW g, Closes(fs, g), Head(fs).at \notin Resumptions, Holds(g, taken)
  PROVE  Frames(fs, g, taken)
<1>1. taken \subseteq Near /\ taken \subseteq Free BY Around DEF Wired, Free
<1>2. Own(g) \subseteq Free \ taken
  <2>1. g.node # 0 => g.node \in Free \ taken BY Around DEF Holds
  <2>2. g.left # 0 /\ g.at # "TermRhs" => g.left \in Free \ taken BY DEF Holds
  <2> QED BY <2>1, <2>2 DEF Own
<1>3. g.left # 0 => g.left \in Near BY Around DEF Holds
<1>4. g.node # 0 => g.node \in Near BY Around DEF Holds
<1>5. KidsOf(nodes', g.node) \subseteq Near
  <2>1. CASE g.node = b /\ b \in DOMAIN nodes'
    <3>1. KidsOf(nodes', b) \subseteq taken \cup KidsOf(nodes, b) BY <2>1 DEF Wired, Rewired
    <3>2. KidsOf(nodes, b) \subseteq Near
      <4>1. CASE b = Top.node BY <4>1, Around DEF Grasp, KidsOf
      <4>2. CASE b \in Fresh BY <4>2 DEF Fresh, KidsOf
      <4>3. b # 0 BY <2>1, Around
      <4> QED BY <2>1, <4>1, <4>2, <4>3 DEF Holds
    <3> QED BY <1>1, <2>1, <3>1, <3>2
  <2>2. CASE g.node \notin DOMAIN nodes' BY <2>2 DEF KidsOf
  <2>3. CASE g.node \in DOMAIN nodes' /\ g.node # b /\ g.node \notin DOMAIN nodes
    <3>1. KidsOf(nodes', g.node) = {} BY <2>3 DEF Wired, Rewired
    <3> QED BY <3>1
  <2>4. CASE g.node \in DOMAIN nodes' /\ g.node # b /\ g.node \in DOMAIN nodes
    <3>1. KidsOf(nodes', g.node) = KidsOf(nodes, g.node) BY <2>4 DEF Wired, Rewired, KidsOf
    <3>2. g.node = Top.node BY <2>4, Around DEF Holds, Fresh
    <3> QED BY <3>1, <3>2, Around DEF Grasp, KidsOf
  <2> QED BY <2>1, <2>2, <2>3, <2>4
<1>6. Grasp(nodes', g) \subseteq Near BY <1>3, <1>4, <1>5 DEF Grasp
<1> QED BY <1>2, <1>6 DEF Holds, Frames, Free, Near

LEMMA BlankHolds ==
  ASSUME NEW g, Blank(g), NEW taken
  PROVE  Holds(g, taken)
BY DEF Blank, Holds, Suits, Building

(* The three kinds of calls.                                               *)
LEMMA CallBare ==
  ASSUME NEW label, Going(label), NEW b, NEW taken, Wired(b, taken), NEW fs, Bare(fs), Call(fs)
  PROVE  Treed
<1>1. PICK g : Closes(fs, g) /\ Blank(g) BY EndsBare
<1>2. Frames(fs, g, taken) BY <1>1, BlankHolds, HoldsFrames DEF Bare
<1> QED BY <1>2, TreeCalls DEF Going, Running

LEMMA CallOne ==
  ASSUME NEW label, Going(label), NEW b, NEW taken, Wired(b, taken),
         NEW g \in Frame, g.at \notin Resumptions, Holds(g, taken), Call(<<g>>)
  PROVE  Treed
<1>1. Frames(<<g>>, g, taken) BY EndsOne, HoldsFrames
<1> QED BY <1>1, TreeCalls DEF Going, Running

LEMMA CallMore ==
  ASSUME NEW label, Going(label), NEW b, NEW taken, Wired(b, taken), NEW fs, Bare(fs),
         NEW g \in Frame, Holds(g, taken), Call(fs \o <<g>>)
  PROVE  Treed
<1>1. Frames(fs \o <<g>>, g, taken) BY EndsMore, HoldsFrames DEF Bare
<1> QED BY <1>1, TreeCalls DEF Going, Running

LEMMA GiveBack ==
  ASSUME NEW label, Going(label), NEW b, NEW taken, Wired(b, taken),
         NEW r \in Free \ taken, Return(r)
  PROVE  Treed
BY TreeReturns DEF Going, Running, Free

-----------------------------------------------------------------------------
(* What the steps do to the nodes.                                         *)

(* The children in a sequence of child pointers.                           *)
ChildSet(kids) == {kids[k] : k \in DOMAIN kids} \ {0}

LEMMA KidsAreChildren ==
  ASSUME NEW ns, NEW i \in DOMAIN ns
  PROVE  KidsOf(ns, i) = ChildSet(ns[i].kids)
BY Zenon DEF KidsOf, ChildSet

(* A step that gives no node a child, ...                                  *)
LEMMA NoKidGiven ==
  ASSUME NEW label, Going(label),
         \A i \in DOMAIN nodes : nodes'[i].kids = nodes[i].kids /\ nodes'[i].kind = nodes[i].kind,
         \A i \in Fresh : ChildSet(nodes'[i].kids) = {} /\ Sized(nodes'[i])
  PROVE  Wired(0, {})
<1>1. 0 \notin DOMAIN nodes' /\ DOMAIN nodes \subseteq DOMAIN nodes'
  BY Around
<1>2. \A i \in Fresh : KidsOf(nodes', i) = {} BY KidsAreChildren DEF Fresh
<1>3. Rewired(nodes, nodes', 0, {}) BY <1>1, <1>2 DEF Rewired, Fresh
<1> QED BY <1>3 DEF Wired, Apart

(* ... and one that gives children to one node.                            *)
LEMMA KidsGiven ==
  ASSUME NEW label, Going(label), NEW b \in DOMAIN nodes', b \in {Top.node} \cup Fresh,
         NEW taken, taken \subseteq Free, Apart(b, taken),
         \A i \in DOMAIN nodes \ {b} :
           nodes'[i].kids = nodes[i].kids /\ nodes'[i].kind = nodes[i].kind,
         \A i \in Fresh \ {b} : ChildSet(nodes'[i].kids) = {} /\ Sized(nodes'[i]),
         ChildSet(nodes'[b].kids) \subseteq taken \cup KidsOf(nodes, b),
         \A k, l \in DOMAIN nodes'[b].kids :
           nodes'[b].kids[k] = nodes'[b].kids[l] /\ nodes'[b].kids[k] # 0 => k = l,
         nodes'[b].kind \in {"BINARY", "BLOCK"} => Increasing(nodes'[b].kids),
         Sized(nodes'[b])
  PROVE  Wired(b, taken)
<1>1. DOMAIN nodes \subseteq DOMAIN nodes' BY Around
<1>2. \A i \in Fresh \ {b} : KidsOf(nodes', i) = {} BY KidsAreChildren DEF Fresh
<1>3. KidsOf(nodes', b) = ChildSet(nodes'[b].kids) BY KidsAreChildren
<1>4. Rewired(nodes, nodes', b, taken) BY <1>1, <1>2, <1>3 DEF Rewired, Fresh
<1>5. b \in Near
  <2>1. b # 0 BY Around
  <2>2. CASE b = Top.node BY <2>1, <2>2, Around
  <2>3. CASE b \in Fresh BY <2>3, Around
  <2> QED BY <2>2, <2>3
<1> QED BY <1>4, <1>5 DEF Wired, Free, Near

(* New nodes.                                                              *)
LEMMA OneNew ==
  ASSUME IInv, NEW nd \in Node, Add(<<nd>>)
  PROVE  /\ Fresh = {New} /\ New \in DOMAIN nodes' /\ nodes'[New] = nd
         /\ \A i \in DOMAIN nodes : nodes'[i] = nodes[i]
         /\ Len(nodes) <= Len(nodes') /\ New \in Nat /\ New \notin DOMAIN nodes
<1>1. nodes \in Seq(Node) /\ <<nd>> \in Seq(Node) /\ Len(<<nd>>) = 1 /\ <<nd>>[1] = nd
  BY DEF IInv, TypeOK
<1>2. /\ nodes' \in Seq(Node) /\ Len(nodes') = Len(nodes) + 1
      /\ \A i \in 1 .. Len(nodes) + 1 :
           nodes'[i] = IF i <= Len(nodes) THEN nodes[i] ELSE <<nd>>[i - Len(nodes)]
  BY <1>1, ConcatProperties DEF Add
<1>3. /\ DOMAIN nodes = 1 .. Len(nodes) /\ DOMAIN nodes' = 1 .. Len(nodes') /\ Len(nodes) \in Nat
  BY <1>1, <1>2, LenProperties
<1>4. nodes'[New] = nd BY <1>1, <1>2, <1>3 DEF New
<1>5. \A i \in DOMAIN nodes : nodes'[i] = nodes[i] BY <1>2, <1>3
<1> QED BY <1>2, <1>3, <1>4, <1>5 DEF Fresh, New

LEMMA TwoNew ==
  ASSUME IInv, NEW nd \in Node, NEW md \in Node, Add(<<nd, md>>)
  PROVE  /\ Fresh = {New, New + 1} /\ New \in DOMAIN nodes' /\ New + 1 \in DOMAIN nodes'
         /\ nodes'[New] = nd /\ nodes'[New + 1] = md
         /\ \A i \in DOMAIN nodes : nodes'[i] = nodes[i]
         /\ Len(nodes) <= Len(nodes') /\ New \in Nat
         /\ New \notin DOMAIN nodes /\ New + 1 \notin DOMAIN nodes
<1>1. /\ nodes \in Seq(Node) /\ <<nd, md>> \in Seq(Node) /\ Len(<<nd, md>>) = 2
      /\ <<nd, md>>[1] = nd /\ <<nd, md>>[2] = md
  BY DEF IInv, TypeOK
<1>2. /\ nodes' \in Seq(Node) /\ Len(nodes') = Len(nodes) + 2
      /\ \A i \in 1 .. Len(nodes) + 2 :
           nodes'[i] = IF i <= Len(nodes) THEN nodes[i] ELSE <<nd, md>>[i - Len(nodes)]
  BY <1>1, ConcatProperties DEF Add
<1>3. /\ DOMAIN nodes = 1 .. Len(nodes) /\ DOMAIN nodes' = 1 .. Len(nodes') /\ Len(nodes) \in Nat
  BY <1>1, <1>2, LenProperties
<1>4. nodes'[New] = nd BY <1>1, <1>2, <1>3 DEF New
<1>5. nodes'[New + 1] = md
  <2> DEFINE n == New + 1
  <2>1. n \in 1 .. Len(nodes) + 2 /\ ~(n <= Len(nodes)) /\ n - Len(nodes) = 2
    BY <1>3 DEF New
  <2> HIDE DEF n
  <2>2. nodes'[n] = md BY <1>1, <1>2, <2>1
  <2> QED BY <2>2 DEF n
<1>6. \A i \in DOMAIN nodes : nodes'[i] = nodes[i] BY <1>2, <1>3
<1> QED BY <1>2, <1>3, <1>4, <1>5, <1>6 DEF Fresh, New

LEMMA FreshNode ==
  ASSUME NEW kind \in NodeKind, NEW nd \in Node, nd.kind = kind, nd.kids = FreshKids(kind)
  PROVE  ChildSet(nd.kids) = {} /\ Sized(nd)
<1>1. \A k \in DOMAIN FreshKids(kind) : FreshKids(kind)[k] = 0 BY DEF FreshKids
<1> QED BY <1>1 DEF ChildSet, Sized

LEMMA NewNodeFields ==
  ASSUME NEW kind \in NodeKind
  PROVE  /\ NewNode(kind) \in Node /\ NewNode(kind).kind = kind
         /\ NewNode(kind).kids = FreshKids(kind)
BY NewNodeType DEF NewNode

(* A new binary node with a left child.                                    *)
LEMMA LeftGiven ==
  ASSUME NEW c \in Nat \ {0}, NEW nd \in Node, nd.kind = "BINARY", nd.kids = <<c, 0>>
  PROVE  /\ ChildSet(nd.kids) = {c} /\ Sized(nd) /\ Increasing(nd.kids)
         /\ \A k, l \in DOMAIN nd.kids : nd.kids[k] = nd.kids[l] /\ nd.kids[k] # 0 => k = l
<1>1. /\ Len(nd.kids) = 2 /\ nd.kids[1] = c /\ nd.kids[2] = 0 /\ DOMAIN nd.kids = {1, 2}
  OBVIOUS
<1>2. Sized(nd)
  <2>1. Len(FreshKids("BINARY")) = 2 BY DEF FreshKids
  <2> QED BY <1>1, <2>1 DEF Sized
<1>3. ChildSet(nd.kids) = {c} BY <1>1 DEF ChildSet
<1>4. Increasing(nd.kids) BY <1>1 DEF Increasing
<1> QED BY <1>1, <1>2, <1>3, <1>4

(* The node under construction is given a new value.                       *)
Sets(nd) == /\ nodes'[Top.node] = nd /\ Fresh = {}
            /\ \A i \in DOMAIN nodes \ {Top.node} :
                 nodes'[i].kids = nodes[i].kids /\ nodes'[i].kind = nodes[i].kind

LEMMA Updates ==
  ASSUME IInv, NEW label \in Building, Running(label), NEW nd \in Node, Update(nd)
  PROVE  /\ Sets(nd) /\ Len(nodes) <= Len(nodes') /\ DOMAIN nodes' = DOMAIN nodes
         /\ \A i \in DOMAIN nodes \ {Top.node} : nodes'[i] = nodes[i]
<1>1. Top.node \in DOMAIN nodes BY BuildingNode, TypesOfLengths
<1>2. DOMAIN nodes' = DOMAIN nodes BY DEF Update
<1>3. nodes'[Top.node] = nd /\ \A i \in DOMAIN nodes \ {Top.node} : nodes'[i] = nodes[i]
  BY <1>1 DEF Update
<1>4. Len(nodes) <= Len(nodes') BY OneUpdated
<1> QED BY <1>2, <1>3, <1>4 DEF Sets, Fresh

LEMMA KidsKept ==
  ASSUME NEW label \in Building, Going(label), NEW nd, Sets(nd),
         nd.kids = Here.kids, nd.kind = Here.kind
  PROVE  Wired(0, {})
<1>1. \A i \in DOMAIN nodes : nodes'[i].kids = nodes[i].kids /\ nodes'[i].kind = nodes[i].kind
  BY DEF Sets, Here
<1> QED BY <1>1, NoKidGiven DEF Sets

LEMMA NodesSame ==
  ASSUME NEW label, Going(label), UNCHANGED nodes
  PROVE  Wired(0, {})
<1>1. Fresh = {} BY DEF Fresh
<1> QED BY <1>1, NoKidGiven

LEMMA SetGiven ==
  ASSUME NEW label \in Building, Going(label), NEW nd, Sets(nd),
         NEW taken, taken \subseteq Free, Apart(Top.node, taken),
         ChildSet(nd.kids) \subseteq taken \cup KidsOf(nodes, Top.node),
         \A k, l \in DOMAIN nd.kids : nd.kids[k] = nd.kids[l] /\ nd.kids[k] # 0 => k = l,
         nd.kind \in {"BINARY", "BLOCK"} => Increasing(nd.kids), Sized(nd)
  PROVE  Wired(Top.node, taken)
<1>1. Top.node \in DOMAIN nodes' BY Builds, Around
<1>2. nodes'[Top.node] = nd /\ Fresh = {} BY DEF Sets
<1>3. \A i \in DOMAIN nodes \ {Top.node} :
        nodes'[i].kids = nodes[i].kids /\ nodes'[i].kind = nodes[i].kind
  BY DEF Sets
<1>4. ChildSet(nodes'[Top.node].kids) \subseteq taken \cup KidsOf(nodes, Top.node) BY <1>2
<1>5. \A k, l \in DOMAIN nodes'[Top.node].kids :
        nodes'[Top.node].kids[k] = nodes'[Top.node].kids[l] /\ nodes'[Top.node].kids[k] # 0 => k = l
  BY <1>2
<1>6. /\ nodes'[Top.node].kind \in {"BINARY", "BLOCK"} => Increasing(nodes'[Top.node].kids)
      /\ Sized(nodes'[Top.node])
  BY <1>2
<1> QED BY <1>1, <1>2, <1>3, <1>4, <1>5, <1>6, KidsGiven

LEMMA RetApart ==
  ASSUME NEW label \in Resumptions, Going(label)
  PROVE  Apart(Top.node, {ret})
<1>1. ret # 0 /\ ret \in DOMAIN nodes /\ \A c \in Grasp(nodes, Top) : c # ret BY Given
<1>2. ret # Top.node /\ ret # Top.left BY <1>1 DEF Grasp
<1> QED BY <1>2 DEF Apart

(* The result becomes a child.                                             *)
LEMMA RetAttached ==
  ASSUME NEW label \in Building \cap Resumptions, Going(label), NEW nd, Sets(nd),
         NEW k, nd.kids = [Here.kids EXCEPT ![k] = ret], nd.kind = Here.kind,
         nd.kind = "BINARY" => k = 2, nd.kind # "BLOCK"
  PROVE  Wired(Top.node, {ret})
<1> DEFINE kids == Here.kids
           kids2 == [Here.kids EXCEPT ![k] = ret]
<1>1. /\ Top.node \in DOMAIN nodes /\ Sized(Here) /\ kids \in Seq(Nat)
      /\ Top.node \in DOMAIN nodes'
  BY Builds, Around DEF Node
<1>2. /\ ret \in Nat /\ ret # 0 /\ ret \in Free
      /\ \A c \in Grasp(nodes, Top) : c < ret /\ c # ret
  BY Given
<1>3. KidsOf(nodes, Top.node) = ChildSet(kids) /\ ChildSet(kids) \subseteq Grasp(nodes, Top)
  <2>1. KidsOf(nodes, Top.node) = ChildSet(kids) BY <1>1, KidsAreChildren DEF Here
  <2> QED BY <2>1 DEF Grasp, ChildSet
<1>4. \A i \in DOMAIN kids : kids[i] # 0 => kids[i] \in ChildSet(kids) BY DEF ChildSet
<1>5. \A i, j \in DOMAIN kids : kids[i] = kids[j] /\ kids[i] # 0 => i = j
  BY <1>1 DEF Going, TreeInv, TreeOf, OneParent, Here
<1>6. /\ DOMAIN kids2 = DOMAIN kids /\ Len(kids2) = Len(kids)
      /\ \A i \in DOMAIN kids : kids2[i] = IF i = k THEN ret ELSE kids[i]
  OBVIOUS
<1>7. Len(kids) \in Nat /\ DOMAIN kids = 1 .. Len(kids) BY <1>1, LenProperties
<1> HIDE DEF kids, kids2
<1>8. ChildSet(kids2) \subseteq {ret} \cup ChildSet(kids) BY <1>6 DEF ChildSet
<1>9. ASSUME NEW i \in DOMAIN kids2, NEW j \in DOMAIN kids2, kids2[i] = kids2[j], kids2[i] # 0
      PROVE  i = j
  <2>1. \A m \in DOMAIN kids : kids[m] # ret BY <1>2, <1>3, <1>4
  <2> QED BY <1>5, <1>6, <1>9, <2>1
<1>10. ASSUME nd.kind = "BINARY" PROVE Increasing(kids2)
  <2>1. Len(kids) = 2 /\ k = 2
    <3>1. Len(FreshKids("BINARY")) = 2 BY DEF FreshKids
    <3> QED BY <1>1, <1>10, <3>1 DEF Sized, kids
  <2>2. kids2[1] = kids[1] /\ kids2[2] = ret BY <1>6, <1>7, <2>1
  <2>3. kids[1] # 0 => kids[1] < ret BY <1>2, <1>3, <1>4, <1>7, <2>1
  <2> QED BY <1>6, <2>1, <2>2, <2>3 DEF Increasing
<1>11. Sized(nd) BY <1>1, <1>6 DEF Sized, kids, kids2
<1>12. nd.kids = kids2 BY DEF kids2
<1> QED BY <1>2, <1>3, <1>8, <1>9, <1>10, <1>11, <1>12, RetApart, SetGiven

(* A left operand and the result become the children of a binary node.     *)
LEMMA BothAttached ==
  ASSUME NEW label \in (Building \cap HoldingLeft \cap Resumptions) \ {"TermRhs"}, Going(label),
         NEW nd, Sets(nd), nd.kids = <<Top.left, ret>>, nd.kind = "BINARY"
  PROVE  Wired(Top.node, {Top.left, ret})
<1>1. ret \in Nat /\ ret \in Free /\ ret # 0 /\ \A c \in Grasp(nodes, Top) : c < ret /\ c # ret
  BY Given
<1>2. Top.left \in DOMAIN nodes
  <2>1. Top.left \in 1 .. Len(nodes) BY TopFrame DEF Going, FrameOK
  <2> QED BY <2>1, Around
<1>3. Top.left \in Free /\ Top.left \in Grasp(nodes, Top) /\ Top.left # 0
  <2>1. Top.left # 0 BY <1>2, Around
  <2> QED BY <2>1, Around DEF Grasp
<1>4. Top.left < ret /\ Top.left # ret BY <1>1, <1>3
<1>5. Len(nd.kids) = 2 /\ DOMAIN nd.kids = {1, 2} /\ nd.kids[1] = Top.left /\ nd.kids[2] = ret
  OBVIOUS
<1>6. Sized(nd)
  <2>1. Len(FreshKids("BINARY")) = 2 BY DEF FreshKids
  <2> QED BY <1>5, <2>1 DEF Sized
<1>7. Increasing(nd.kids) BY <1>4, <1>5 DEF Increasing
<1>8. ChildSet(nd.kids) \subseteq {Top.left, ret} BY <1>5 DEF ChildSet
<1>9. \A k, l \in DOMAIN nd.kids : nd.kids[k] = nd.kids[l] /\ nd.kids[k] # 0 => k = l
  BY <1>4, <1>5
<1>10. Apart(Top.node, {Top.left, ret})
  <2>1. Top.node # Top.left /\ Top.node \in DOMAIN nodes BY Builds, Around
  <2>2. ret # Top.node BY <1>1, <2>1, Builds DEF Grasp
  <2>3. Fresh = {} BY DEF Sets
  <2>4. Top.at \in {"LogicRhs", "FactorRhs", "NegRhs"}
    BY DEF Going, Running, Building, HoldingLeft, Resumptions
  <2> QED BY <2>1, <2>2, <2>3, <2>4 DEF Apart
<1> QED BY <1>1, <1>3, <1>6, <1>7, <1>8, <1>9, <1>10, SetGiven

(* The result becomes the only child.                                      *)
LEMMA SoleAttached ==
  ASSUME NEW label \in Building \cap Resumptions, Going(label),
         NEW nd, Sets(nd), nd.kids = <<ret>>, nd.kind = "UNARY"
  PROVE  Wired(Top.node, {ret})
<1>1. ret \in Free BY Given
<1>2. Len(nd.kids) = 1 /\ DOMAIN nd.kids = {1} /\ nd.kids[1] = ret OBVIOUS
<1>3. Sized(nd)
  <2>1. Len(FreshKids("UNARY")) = 1 BY DEF FreshKids
  <2> QED BY <1>2, <2>1 DEF Sized
<1>4. ChildSet(nd.kids) \subseteq {ret} BY <1>2 DEF ChildSet
<1>5. \A k, l \in DOMAIN nd.kids : nd.kids[k] = nd.kids[l] /\ nd.kids[k] # 0 => k = l
  BY <1>2
<1> QED BY <1>1, <1>3, <1>4, <1>5, RetApart, SetGiven

(* The result becomes the last statement of a block.                       *)
LEMMA RetAppended ==
  ASSUME NEW label \in Building \cap Resumptions, Going(label),
         NEW nd, Sets(nd), nd.kids = Append(Here.kids, ret), nd.kind = "BLOCK", Here.kind = "BLOCK"
  PROVE  Wired(Top.node, {ret})
<1> DEFINE kids == Here.kids
           kids2 == Append(Here.kids, ret)
<1>1. Top.node \in DOMAIN nodes /\ kids \in Seq(Nat) BY Builds DEF Node
<1>2. /\ ret \in Nat /\ ret # 0 /\ ret \in Free
      /\ \A c \in Grasp(nodes, Top) : c < ret /\ c # ret
  BY Given
<1>3. KidsOf(nodes, Top.node) = ChildSet(kids) /\ ChildSet(kids) \subseteq Grasp(nodes, Top)
  <2>1. KidsOf(nodes, Top.node) = ChildSet(kids) BY <1>1, KidsAreChildren DEF Here
  <2> QED BY <2>1 DEF Grasp, ChildSet
<1>4. \A i \in DOMAIN kids : kids[i] # 0 => kids[i] < ret /\ kids[i] # ret
  BY <1>2, <1>3 DEF ChildSet
<1>5. \A i, j \in DOMAIN kids : kids[i] = kids[j] /\ kids[i] # 0 => i = j
  BY <1>1 DEF Going, TreeInv, TreeOf, OneParent, Here
<1>6. Increasing(kids) BY <1>1 DEF Going, TreeInv, TreeOf, InOrder, Here
<1>7. /\ Len(kids) \in Nat /\ DOMAIN kids = 1 .. Len(kids)
      /\ kids2 \in Seq(Nat) /\ Len(kids2) = Len(kids) + 1
      /\ \A i \in 1 .. Len(kids) : kids2[i] = kids[i]
      /\ kids2[Len(kids) + 1] = ret
  BY <1>1, <1>2, LenProperties, AppendProperties
<1>8. DOMAIN kids2 = 1 .. Len(kids) + 1 BY <1>7, LenProperties
<1> HIDE DEF kids, kids2
<1>9. \A i \in DOMAIN kids2 : i = Len(kids) + 1 \/ i \in DOMAIN kids BY <1>7, <1>8
<1>10. ChildSet(kids2) \subseteq {ret} \cup ChildSet(kids) BY <1>7, <1>9 DEF ChildSet
<1>11. ASSUME NEW i \in DOMAIN kids2, NEW j \in DOMAIN kids2, kids2[i] = kids2[j], kids2[i] # 0
       PROVE  i = j
  BY <1>4, <1>5, <1>7, <1>9, <1>11
<1>12. Increasing(kids2)
  <2> SUFFICES ASSUME NEW k \in 1 .. Len(kids), kids2[k] # 0, kids2[k + 1] # 0
               PROVE  kids2[k] < kids2[k + 1]
    BY <1>7 DEF Increasing
  <2>1. CASE k = Len(kids) BY <1>4, <1>7, <2>1
  <2>2. CASE k # Len(kids)
    <3>1. Len(kids) \in Nat /\ k \in Nat /\ 1 <= k /\ k <= Len(kids) BY <1>7
    <3>2. PICK n \in Nat : n = Len(kids) BY <3>1
    <3>3. k \in 1 .. n - 1 /\ k + 1 \in 1 .. n BY <2>2, <3>1, <3>2
    <3>4. k \in 1 .. Len(kids) - 1 /\ k + 1 \in 1 .. Len(kids) BY <3>2, <3>3
    <3> QED BY <1>6, <1>7, <3>4 DEF Increasing
  <2> QED BY <2>1, <2>2
<1>13. Sized(nd) BY DEF Sized
<1>14. nd.kids = kids2 BY DEF kids2
<1> QED BY <1>2, <1>3, <1>10, <1>11, <1>12, <1>13, <1>14, RetApart, SetGiven

-----------------------------------------------------------------------------
(* The steps of the program.                                               *)

LEMMA KindsTable ==
  /\ \A at \in IfPoints : KindsAt(at) = {"IF"}
  /\ \A at \in FuncPoints : KindsAt(at) = {"FUNC"}
  /\ \A at \in AggPoints : KindsAt(at) = Aggregate
  /\ \A at \in {"DefName", "Params"} : KindsAt(at) = {"FUNC"} \cup Aggregate
  /\ \A at \in BlockPoints : KindsAt(at) = {"BLOCK"}
  /\ \A at \in {"NotRhs", "DerefArg", "RefArg"} : KindsAt(at) = {"UNARY"}
  /\ \A at \in {"DeclRhs", "LogicRhs", "CmpRhs", "AssignRhs", "TermRhs", "FactorRhs", "NegRhs"} :
       KindsAt(at) = {"BINARY"}
BY DEF KindsAt, IfPoints, FuncPoints, AggPoints, BlockPoints

LEMMA GoesOn ==
  ASSUME IInv, IInv', TreeInv, NEW label, Running(label), UNCHANGED status,
         Len(nodes) <= Len(nodes')
  PROVE  Going(label)
BY DEF Going, Running

LEMMA GoesOnSame ==
  ASSUME IInv, IInv', TreeInv, NEW label, Running(label), UNCHANGED status, UNCHANGED nodes
  PROVE  Going(label) /\ Wired(0, {})
<1>1. Len(nodes) <= Len(nodes')
  <2>1. Len(nodes) \in Nat BY LenProperties DEF IInv, TypeOK
  <2> QED BY <2>1
<1>2. Going(label) BY <1>1, GoesOn
<1> QED BY <1>2, NodesSame

LEMMA NodeInFrame ==
  ASSUME NEW at \in Building, NEW n \in Nat
  PROVE  /\ FrNode(at, n) \in Frame /\ FrNode(at, n).at = at
         /\ FrNode(at, n).node = n /\ FrNode(at, n).left = 0
<1>1. at \in Labels BY DEF Labels
<1>2. ZeroType \in AstType BY DEF ZeroType, AstType, ValueType
<1>3. Fr(at) \in Frame BY <1>1, <1>2 DEF Fr, Frame
<1> QED BY <1>3 DEF Fr, FrNode, Frame

(* A frame that holds the node under construction, or a new one.           *)
LEMMA NodeHolds ==
  ASSUME NEW label, Going(label), NEW taken, NEW n \in ({Top.node} \cup Fresh) \ taken,
         n \in DOMAIN nodes', NEW at \in Building \ {"NegRhs"}, nodes'[n].kind \in KindsAt(at)
  PROVE  /\ FrNode(at, n) \in Frame /\ FrNode(at, n).at = at
         /\ Holds(FrNode(at, n), taken)
<1>1. n \in Nat /\ n # 0 BY Around
<1>3. /\ FrNode(at, n) \in Frame /\ FrNode(at, n).at = at
      /\ FrNode(at, n).node = n /\ FrNode(at, n).left = 0
  BY <1>1, NodeInFrame
<1>4. Suits(nodes', FrNode(at, n)) BY <1>3 DEF Suits
<1> QED BY <1>1, <1>3, <1>4 DEF Holds

LEMMA HandOnTree ==
  ASSUME IInv, IInv', TreeInv, NEW label, Running(label), UNCHANGED status,
         NEW fs, Bare(fs), HandOn(fs)
  PROVE  Treed
BY GoesOnSame, CallBare DEF HandOn

LEMMA HandBackTree ==
  ASSUME IInv, IInv', TreeInv, NEW label \in Resumptions, Running(label), UNCHANGED status,
         HandBack(ret)
  PROVE  Treed
<1>1. Going(label) /\ Wired(0, {}) BY GoesOnSame DEF HandBack
<1>2. ret \in Free \ {} BY <1>1, Given
<1> QED BY <1>1, <1>2, GiveBack DEF HandBack

(* The function goes on with its node as it is, ...                        *)
LEMMA GotoTree ==
  ASSUME IInv, IInv', TreeInv, NEW label \in Building, Running(label), UNCHANGED status,
         UNCHANGED nodes, NEW at \in Building \ (Resumptions \cup {"NegRhs"}),
         Here.kind \in KindsAt(at), Goto(at)
  PROVE  Treed
<1>1. Going(label) /\ Wired(0, {}) BY GoesOnSame
<1>2. Top.node \in DOMAIN nodes' /\ nodes'[Top.node].kind \in KindsAt(at)
  BY <1>1, Builds DEF Here
<1>3. /\ FrNode(at, Top.node) \in Frame /\ FrNode(at, Top.node).at = at
      /\ Holds(FrNode(at, Top.node), {})
  BY <1>1, <1>2, NodeHolds
<1> QED BY <1>1, <1>3, CallOne DEF Goto

(* ... calls another for it, ...                                           *)
LEMMA CallTree ==
  ASSUME IInv, IInv', TreeInv, NEW label \in Building, Running(label), UNCHANGED status,
         UNCHANGED nodes, NEW at \in Building \ {"NegRhs"},
         Here.kind \in KindsAt(at), NEW fs, Bare(fs), Call(fs \o <<FrNode(at, Top.node)>>)
  PROVE  Treed
<1>1. Going(label) /\ Wired(0, {}) BY GoesOnSame
<1>2. Top.node \in DOMAIN nodes' /\ nodes'[Top.node].kind \in KindsAt(at)
  BY <1>1, Builds DEF Here
<1>3. /\ FrNode(at, Top.node) \in Frame /\ FrNode(at, Top.node).at = at
      /\ Holds(FrNode(at, Top.node), {})
  BY <1>1, <1>2, NodeHolds
<1> QED BY <1>1, <1>3, CallMore

(* ... or returns it.                                                      *)
LEMMA ReturnTree ==
  ASSUME IInv, IInv', TreeInv, NEW label \in Building, Running(label), UNCHANGED status,
         UNCHANGED nodes, Return(Top.node)
  PROVE  Treed
<1>1. Going(label) /\ Wired(0, {}) BY GoesOnSame
<1>2. Top.node \in Free \ {} BY <1>1, Builds
<1> QED BY <1>1, <1>2, GiveBack

(* A node is made and its function goes on with it.                        *)
LEMMA BuildTree ==
  ASSUME IInv, IInv', TreeInv, NEW label, Running(label), UNCHANGED status,
         NEW kind \in NodeKind, NEW nd \in Node, nd.kind = kind, nd.kids = FreshKids(kind),
         Add(<<nd>>), NEW at \in Building \ {"NegRhs"}, kind \in KindsAt(at)
  PROVE  /\ Going(label) /\ Wired(0, {})
         /\ FrNode(at, New) \in Frame /\ FrNode(at, New).at = at
         /\ Holds(FrNode(at, New), {})
<1>1. /\ Fresh = {New} /\ New \in DOMAIN nodes' /\ nodes'[New] = nd
      /\ \A i \in DOMAIN nodes : nodes'[i] = nodes[i]
      /\ Len(nodes) <= Len(nodes')
  BY OneNew
<1>2. Going(label) BY <1>1, GoesOn
<1>3. Wired(0, {}) BY <1>1, <1>2, FreshNode, NoKidGiven
<1>4. New \in ({Top.node} \cup Fresh) \ {} BY <1>1
<1> QED BY <1>1, <1>2, <1>3, <1>4, NodeHolds

LEMMA StatementTree ==
  ASSUME IInv, IInv', TreeInv, Statement
  PROVE  Treed
<1>1. Running("Statement") /\ UNCHANGED status BY DEF Statement, Reads, Sees
<1>2. CASE HandOn(<<Fr("Block")>>) BY <1>1, <1>2, BareCalls, HandOnTree
<1>3. CASE Call(<<FrNode("IfOpen", New)>>) /\ Add(<<NewNode("IF")>>)
  <2>1. /\ "IfOpen" \in Building \ {"NegRhs"} /\ "IfOpen" \notin Resumptions
        /\ "IF" \in NodeKind /\ "IF" \in KindsAt("IfOpen")
    BY KindsTable DEF Building, Resumptions, NodeKind, StatementKind, IfPoints
  <2>2. /\ Going("Statement") /\ Wired(0, {})
        /\ FrNode("IfOpen", New) \in Frame /\ FrNode("IfOpen", New).at = "IfOpen"
        /\ Holds(FrNode("IfOpen", New), {})
    BY <1>1, <1>3, <2>1, NewNodeFields, BuildTree
  <2> QED BY <1>3, <2>1, <2>2, CallOne
<1>4. CASE /\ Kind(At) \in DefinitionTokens /\ Call(<<FrNode("DefName", New)>>)
           /\ Add(<<NewNode(KindOfKeyword[Kind(At)])>>)
  <2>1. KindOfKeyword[Kind(At)] \in {"FUNC", "STRUCT", "UNION", "ENUM"}
    BY <1>4 DEF DefinitionTokens, KindOfKeyword
  <2>2. PICK kind \in {"FUNC", "STRUCT", "UNION", "ENUM"} : kind = KindOfKeyword[Kind(At)]
    BY <2>1
  <2>3. /\ "DefName" \in Building \ {"NegRhs"} /\ "DefName" \notin Resumptions
        /\ kind \in NodeKind /\ kind \in KindsAt("DefName")
    BY KindsTable DEF Building, Resumptions, NodeKind, StatementKind, Aggregate
  <2>4. Add(<<NewNode(kind)>>) BY <1>4, <2>2
  <2>5. /\ Going("Statement") /\ Wired(0, {})
        /\ FrNode("DefName", New) \in Frame /\ FrNode("DefName", New).at = "DefName"
        /\ Holds(FrNode("DefName", New), {})
    BY <1>1, <2>3, <2>4, NewNodeFields, BuildTree
  <2> QED BY <1>4, <2>3, <2>5, CallOne
<1>5. CASE HandOn(<<Fr("Decl"), Fr("ExprSemi")>>) BY <1>1, <1>5, BareCalls, HandOnTree
<1> QED BY <1>2, <1>3, <1>4, <1>5 DEF Statement

LEMMA PairCall ==
  ASSUME NEW at \in {"Statement", "Block", "Decl", "Unary", "Deref", "Ref", "Literal"},
         NEW g \in Frame, Call(<<Fr(at), g>>)
  PROVE  Bare(<<Fr(at)>>) /\ Call(<<Fr(at)>> \o <<g>>)
<1>1. Fr(at) \in Frame BY BareFrame DEF Labels, Building
<1> QED BY <1>1, BareCalls, PairIsConcat

LEMMA WithKidFields ==
  ASSUME NEW nd \in Node, NEW k, NEW child \in Nat
  PROVE  WithKid(nd, k, child) \in Node /\ WithKid(nd, k, child).kind = nd.kind
<1>1. WithKid(nd, k, child) \in Node BY WithKidType
<1> QED BY <1>1 DEF WithKid, Node

(* The result becomes the k-th child of the node.                          *)
LEMMA AttachTree ==
  ASSUME IInv, IInv', TreeInv, NEW label \in Building \cap Resumptions, Running(label),
         UNCHANGED status, NEW k, NEW nd \in Node, Update(nd),
         nd.kids = WithKid(Here, k, ret).kids, nd.kind = Here.kind,
         KindsAt(label) = {"BINARY"} => k = 2, "BLOCK" \notin KindsAt(label),
         "BINARY" \in KindsAt(label) => KindsAt(label) = {"BINARY"}
  PROVE  /\ Going(label) /\ Wired(Top.node, {ret})
         /\ Top.node \in Free \ {ret} /\ Top.node \in DOMAIN nodes'
         /\ Top.node \in ({Top.node} \cup Fresh) \ {ret}
         /\ nodes'[Top.node].kind \in KindsAt(label)
<1>1. Sets(nd) /\ Len(nodes) <= Len(nodes') /\ DOMAIN nodes' = DOMAIN nodes BY Updates
<1>2. Going(label) BY <1>1, GoesOn
<1>3. Top.node \in DOMAIN nodes /\ Top.node # 0 /\ Top.node \in Free /\ Here.kind \in KindsAt(label)
  BY <1>2, Builds
<1>4. Wired(Top.node, {ret})
  <2>1. Here \in Node /\ ret \in Nat BY BuildingNode DEF IInv, TypeOK
  <2>2. nd.kids = [Here.kids EXCEPT ![k] = ret] BY <2>1 DEF WithKid, Node
  <2> QED BY <1>1, <1>2, <1>3, <2>2, RetAttached
<1>5. Top.node # ret
  <2>1. Top.node \in Grasp(nodes, Top) BY <1>3 DEF Grasp
  <2> QED BY <1>2, <2>1, Given
<1>6. nodes'[Top.node] = nd BY <1>1 DEF Sets
<1> QED BY <1>1, <1>2, <1>3, <1>4, <1>5, <1>6

(* The node, with its child, is returned.                                  *)
LEMMA AttachedTree ==
  ASSUME IInv, IInv', TreeInv, NEW label \in {"IfElse", "FuncBody", "DeclRhs", "CmpRhs", "DerefArg", "RefArg"},
         NEW k, label \in {"DeclRhs", "CmpRhs"} => k = 2, Attach(label, k)
  PROVE  Treed
<1>1. Running(label) /\ UNCHANGED status /\ label \in Building \cap Resumptions
  BY DEF Attach, Resumes, Building, Resumptions
<1>2. /\ KindsAt(label) = {"BINARY"} => k = 2
      /\ "BLOCK" \notin KindsAt(label)
      /\ "BINARY" \in KindsAt(label) => KindsAt(label) = {"BINARY"}
  BY KindsTable DEF IfPoints, FuncPoints
<1>3. Here \in Node /\ ret \in Nat BY <1>1, BuildingNode DEF IInv, TypeOK
<1>4. Update(WithKid(Here, k, ret)) /\ Return(Top.node) BY DEF Attach
<1>5. Going(label) /\ Wired(Top.node, {ret}) /\ Top.node \in Free \ {ret}
  BY <1>1, <1>2, <1>3, <1>4, WithKidFields, AttachTree
<1> QED BY <1>4, <1>5, GiveBack

LEMMA IfTree ==
  ASSUME IInv, IInv', TreeInv, IfOpen \/ IfCond \/ IfThen \/ IfElse
  PROVE  Treed
<1>1. /\ {"IfOpen", "IfCond", "IfThen", "IfElse"} \subseteq Building \ {"NegRhs"}
      /\ {"IfCond", "IfThen", "IfElse"} \subseteq Resumptions
      /\ \A at \in {"IfOpen", "IfCond", "IfThen", "IfElse"} : KindsAt(at) = {"IF"}
  BY KindsTable DEF Building, Resumptions, IfPoints
<1>2. CASE IfOpen
  <2>1. /\ Running("IfOpen") /\ UNCHANGED status /\ UNCHANGED nodes
        /\ Call(<<Fr("Decl"), FrNode("IfCond", Top.node)>>)
    BY <1>2 DEF IfOpen, Reads, Sees
  <2>2. Going("IfOpen") BY <2>1, GoesOnSame
  <2>3. Here.kind \in KindsAt("IfCond") BY <1>1, <2>2, Builds
  <2>4. FrNode("IfCond", Top.node) \in Frame
    <3>1. Top.node \in Nat BY <1>1, <2>1, BuildingNode
    <3> QED BY <1>1, <3>1, NodeInFrame
  <2> QED BY <1>1, <2>1, <2>3, <2>4, PairCall, CallTree
<1>3. CASE IfCond
  <2>1. /\ Running("IfCond") /\ UNCHANGED status
        /\ Update(WithKid(Here, 3, ret)) /\ Call(<<Fr("Block"), FrNode("IfThen", Top.node)>>)
    BY <1>3 DEF IfCond, Reads, Sees
  <2>2. Here \in Node /\ ret \in Nat BY <1>1, <2>1, BuildingNode DEF IInv, TypeOK
  <2>3. /\ Going("IfCond") /\ Wired(Top.node, {ret}) /\ Top.node \in DOMAIN nodes'
        /\ Top.node \in ({Top.node} \cup Fresh) \ {ret}
        /\ nodes'[Top.node].kind \in KindsAt("IfCond")
    BY <1>1, <2>1, <2>2, WithKidFields, AttachTree
  <2>4. FrNode("IfThen", Top.node) \in Frame /\ Holds(FrNode("IfThen", Top.node), {ret})
    BY <1>1, <2>3, NodeHolds
  <2> QED BY <2>1, <2>3, <2>4, PairCall, CallMore
<1>4. CASE IfThen
  <2>1. /\ Running("IfThen") /\ UNCHANGED status /\ Update(WithKid(Here, 1, ret))
        /\ Call(<<Fr("Block"), FrNode("IfElse", Top.node)>>) \/ Return(Top.node)
    BY <1>4 DEF IfThen, Reads, Sees
  <2>2. Here \in Node /\ ret \in Nat BY <1>1, <2>1, BuildingNode DEF IInv, TypeOK
  <2>3. /\ Going("IfThen") /\ Wired(Top.node, {ret}) /\ Top.node \in DOMAIN nodes'
        /\ Top.node \in ({Top.node} \cup Fresh) \ {ret} /\ Top.node \in Free \ {ret}
        /\ nodes'[Top.node].kind \in KindsAt("IfThen")
    BY <1>1, <2>1, <2>2, WithKidFields, AttachTree
  <2>4. FrNode("IfElse", Top.node) \in Frame /\ Holds(FrNode("IfElse", Top.node), {ret})
    BY <1>1, <2>3, NodeHolds
  <2>5. CASE Return(Top.node) BY <2>3, <2>5, GiveBack
  <2>6. CASE Call(<<Fr("Block"), FrNode("IfElse", Top.node)>>)
    BY <2>3, <2>4, <2>6, PairCall, CallMore
  <2> QED BY <2>1, <2>5, <2>6
<1>5. CASE IfElse BY <1>5, AttachedTree DEF IfElse
<1> QED BY <1>2, <1>3, <1>4, <1>5

LEMMA HeadAndTail ==
  ASSUME NEW S, NEW s \in Seq(S), s # <<>>
  PROVE  s = <<Head(s)>> \o Tail(s)
<1>1. /\ Head(s) \in S /\ Tail(s) \in Seq(S) /\ Len(Tail(s)) = Len(s) - 1
      /\ \A i \in 1 .. Len(Tail(s)) : Tail(s)[i] = s[i + 1]
      /\ Len(s) \in Nat /\ Head(s) = s[1]
  BY HeadTailProperties, LenProperties
<1>2. <<Head(s)>> \in Seq(S) /\ Len(<<Head(s)>>) = 1 /\ <<Head(s)>>[1] = Head(s)
  BY <1>1
<1> DEFINE t == <<Head(s)>> \o Tail(s)
<1>3. /\ t \in Seq(S) /\ Len(t) = 1 + Len(Tail(s))
      /\ \A i \in 1 .. 1 + Len(Tail(s)) :
           t[i] = IF i <= 1 THEN <<Head(s)>>[i] ELSE Tail(s)[i - 1]
  BY <1>1, <1>2, ConcatProperties
<1>4. ASSUME NEW i \in 1 .. Len(s) PROVE s[i] = t[i]
  <2>1. CASE i = 1 BY <1>1, <1>2, <1>3, <2>1
  <2>2. CASE i # 1
    <3>1. i - 1 \in 1 .. Len(Tail(s)) /\ i - 1 + 1 = i /\ i \in 1 .. 1 + Len(Tail(s)) BY <1>1, <2>2
    <3> HIDE DEF t
    <3>2. t[i] = Tail(s)[i - 1] BY <1>3, <2>2, <3>1
    <3>3. Tail(s)[i - 1] = s[i - 1 + 1] BY <1>1, <3>1
    <3> QED BY <3>1, <3>2, <3>3
  <2> QED BY <2>1, <2>2
<1>5. Len(s) = Len(t) BY <1>1, <1>3
<1> HIDE DEF t
<1>6. s = t BY <1>3, <1>4, <1>5, SeqEqual
<1> QED BY <1>6 DEF t

(* A node whose children stay as they are.                                 *)
LEMMA UpdateTree ==
  ASSUME IInv, IInv', TreeInv, NEW label \in Building, Running(label), UNCHANGED status,
         NEW nd \in Node, Update(nd), nd.kids = Here.kids, nd.kind = Here.kind
  PROVE  /\ Going(label) /\ Wired(0, {})
         /\ Top.node \in Free \ {} /\ Top.node \in DOMAIN nodes'
         /\ Top.node \in ({Top.node} \cup Fresh) \ {}
         /\ nodes'[Top.node].kind = Here.kind /\ Here.kind \in KindsAt(label)
<1>1. Sets(nd) /\ Len(nodes) <= Len(nodes') /\ DOMAIN nodes' = DOMAIN nodes BY Updates
<1>2. Going(label) BY <1>1, GoesOn
<1>3. Top.node \in DOMAIN nodes /\ Top.node \in Free /\ Here.kind \in KindsAt(label)
  BY <1>2, Builds
<1>4. Wired(0, {}) BY <1>1, <1>2, KidsKept
<1>5. nodes'[Top.node] = nd BY <1>1 DEF Sets
<1> QED BY <1>1, <1>2, <1>3, <1>4, <1>5

LEMMA BlockTree ==
  ASSUME IInv, IInv', TreeInv, Block \/ BlockLoop \/ BlockPush \/ BlockClose
  PROVE  Treed
<1>1. /\ {"BlockLoop", "BlockPush", "BlockClose"} \subseteq Building \ {"NegRhs"}
      /\ {"BlockLoop", "BlockClose"} \cap Resumptions = {} /\ "BlockPush" \in Resumptions
      /\ \A at \in {"BlockLoop", "BlockPush", "BlockClose"} : KindsAt(at) = {"BLOCK"}
      /\ "BLOCK" \in NodeKind
  BY KindsTable DEF Building, Resumptions, BlockPoints, NodeKind, StatementKind
<1>2. CASE Block
  <2>1. /\ Running("Block") /\ UNCHANGED status
        /\ Add(<<NewNode("BLOCK")>>) /\ Call(<<FrNode("BlockLoop", New)>>)
    BY <1>2 DEF Block, Reads, Sees
  <2>2. /\ Going("Block") /\ Wired(0, {})
        /\ FrNode("BlockLoop", New) \in Frame /\ FrNode("BlockLoop", New).at = "BlockLoop"
        /\ Holds(FrNode("BlockLoop", New), {})
    BY <1>1, <2>1, NewNodeFields, BuildTree
  <2> QED BY <1>1, <2>1, <2>2, CallOne
<1>3. CASE BlockLoop
  <2>1. /\ Running("BlockLoop") /\ UNCHANGED status /\ UNCHANGED nodes
        /\ Goto("BlockClose") \/ Call(<<Fr("Statement"), FrNode("BlockPush", Top.node)>>)
    BY <1>3 DEF BlockLoop, Reads, Sees
  <2>2. Going("BlockLoop") BY <2>1, GoesOnSame
  <2>3. Here.kind \in KindsAt("BlockClose") /\ Here.kind \in KindsAt("BlockPush")
    BY <1>1, <2>2, Builds
  <2>4. CASE Goto("BlockClose") BY <1>1, <2>1, <2>3, <2>4, GotoTree
  <2>5. CASE Call(<<Fr("Statement"), FrNode("BlockPush", Top.node)>>)
    <3>1. Top.node \in Nat BY <1>1, <2>1, BuildingNode
    <3>2. FrNode("BlockPush", Top.node) \in Frame BY <1>1, <3>1, NodeInFrame
    <3> QED BY <1>1, <2>1, <2>3, <2>5, <3>2, PairCall, CallTree
  <2> QED BY <2>1, <2>4, <2>5
<1>4. CASE BlockPush
  <2> DEFINE nd == [Here EXCEPT !.kids = Append(@, ret)]
  <2>1. /\ Running("BlockPush") /\ UNCHANGED status /\ Update(nd) /\ Goto("BlockLoop")
    BY <1>4 DEF BlockPush, Resumes
  <2>2. Here \in Node /\ ret \in Nat BY <1>1, <2>1, BuildingNode DEF IInv, TypeOK
  <2>3. Append(Here.kids, ret) \in Seq(Nat) BY <2>2, AppendProperties DEF Node
  <2>4. nd \in Node /\ nd.kids = Append(Here.kids, ret) /\ nd.kind = Here.kind
    BY <2>2, <2>3 DEF Node
  <2> HIDE DEF nd
  <2>5. Sets(nd) /\ Len(nodes) <= Len(nodes') /\ DOMAIN nodes' = DOMAIN nodes
    BY <1>1, <2>1, <2>4, Updates
  <2>6. Going("BlockPush") BY <2>1, <2>5, GoesOn
  <2>7. Here.kind = "BLOCK" /\ Top.node \in DOMAIN nodes /\ Top.node # 0
    BY <1>1, <2>6, Builds
  <2>8. Wired(Top.node, {ret}) BY <1>1, <2>4, <2>5, <2>6, <2>7, RetAppended
  <2>9. Top.node # ret
    <3>1. Top.node \in Grasp(nodes, Top) BY <2>7 DEF Grasp
    <3> QED BY <1>1, <2>6, <3>1, Given
  <2>10. nodes'[Top.node].kind = "BLOCK" BY <2>4, <2>5, <2>7 DEF Sets
  <2>11. /\ FrNode("BlockLoop", Top.node) \in Frame
         /\ FrNode("BlockLoop", Top.node).at = "BlockLoop"
         /\ Holds(FrNode("BlockLoop", Top.node), {ret})
    <3>1. Top.node \in ({Top.node} \cup Fresh) \ {ret} /\ Top.node \in DOMAIN nodes'
      BY <2>5, <2>7, <2>9
    <3>2. nodes'[Top.node].kind \in KindsAt("BlockLoop") BY <1>1, <2>10
    <3> QED BY <1>1, <2>6, <3>1, <3>2, NodeHolds
  <2> QED BY <1>1, <2>1, <2>6, <2>8, <2>11, CallOne DEF Goto
<1>5. CASE BlockClose
  <2>1. /\ Running("BlockClose") /\ UNCHANGED status /\ UNCHANGED nodes /\ Return(Top.node)
    BY <1>5 DEF BlockClose, Insists, Reads, Sees
  <2> QED BY <1>1, <2>1, ReturnTree
<1> QED BY <1>2, <1>3, <1>4, <1>5

LEMMA DefNameTree ==
  ASSUME IInv, IInv', TreeInv, DefName
  PROVE  Treed
<1> DEFINE nd == [Here EXCEPT !.name = Lexeme(At)]
<1>1. Running("DefName") /\ UNCHANGED status /\ Update(nd) BY DEF DefName, Reads, Sees
<1>2. "DefName" \in Building BY DEF Building
<1>3. Here \in Node /\ Lexeme(At) \in Name
  BY <1>1, <1>2, BuildingNode, Looking DEF DefName, Reads, Sees
<1>4. nd \in Node /\ nd.kids = Here.kids /\ nd.kind = Here.kind BY <1>3 DEF Node
<1> HIDE DEF nd
<1>5. /\ Going("DefName") /\ Wired(0, {}) /\ Top.node \in DOMAIN nodes'
      /\ Top.node \in ({Top.node} \cup Fresh) \ {}
      /\ nodes'[Top.node].kind = Here.kind /\ Here.kind \in KindsAt("DefName")
  BY <1>1, <1>2, <1>4, UpdateTree
<1>6. PICK at \in {"FuncOpen", "AggOpen"} :
        /\ Call(<<FrNode(at, Top.node)>>)
        /\ IF Here.kind = "FUNC" THEN at = "FuncOpen" ELSE at = "AggOpen"
  BY DEF DefName
<1>7. at \in Building \ (Resumptions \cup {"NegRhs"}) BY DEF Building, Resumptions
<1>8. nodes'[Top.node].kind \in KindsAt(at)
  BY <1>5, <1>6, KindsTable DEF FuncPoints, AggPoints
<1>9. /\ FrNode(at, Top.node) \in Frame /\ FrNode(at, Top.node).at = at
      /\ Holds(FrNode(at, Top.node), {})
  BY <1>5, <1>7, <1>8, NodeHolds
<1> QED BY <1>5, <1>6, <1>7, <1>9, CallOne

(* A member is added to the node, whose function then goes on elsewhere.   *)
LEMMA AddMemberTree ==
  ASSUME IInv, IInv', TreeInv, Running("Params"), UNCHANGED status,
         NEW m \in AstIdentifier, AddMember(m)
  PROVE  /\ Going("Params") /\ Wired(0, {}) /\ Top.node \in DOMAIN nodes'
         /\ Top.node \in ({Top.node} \cup Fresh) \ {}
         /\ nodes'[Top.node].kind = Here.kind /\ Here.kind \in KindsAt("Params")
<1> DEFINE nd == [Here EXCEPT !.members = Append(@, m)]
<1>1. "Params" \in Building BY DEF Building
<1>2. Here \in Node BY <1>1, BuildingNode
<1>3. Append(Here.members, m) \in Seq(AstIdentifier) BY <1>2, AppendProperties DEF Node
<1>4. nd \in Node /\ nd.kids = Here.kids /\ nd.kind = Here.kind BY <1>2, <1>3 DEF Node
<1>5. Update(nd) BY DEF AddMember
<1> HIDE DEF nd
<1> QED BY <1>1, <1>4, <1>5, UpdateTree

LEMMA ParamsTree ==
  ASSUME IInv, IInv', TreeInv, Params
  PROVE  Treed
<1>1. Running("Params") /\ UNCHANGED status /\ At < NTokens BY DEF Params, Reads, Sees
<1>2. /\ "Params" \in Building
      /\ {"MemberSemi", "FuncClose", "AggClose"} \subseteq Building \ (Resumptions \cup {"NegRhs"})
      /\ "Params" \notin Resumptions \cup {"TermRhs", "NegRhs"}
  BY DEF Building, Resumptions
<1>3. CASE Here.kind = "FUNC" /\ AddMember(Parameter) /\ Identifier(At) /\ IsParameter /\ UNCHANGED <<stack, ret>>
  <2>1. /\ Going("Params") /\ Wired(0, {}) /\ Top.node \in DOMAIN nodes'
        /\ Top.node \in ({Top.node} \cup Fresh) \ {}
        /\ nodes'[Top.node].kind = Here.kind /\ Here.kind \in KindsAt("Params")
    BY <1>1, <1>3, ParameterType, AddMemberTree
  <2>2. /\ stack \in Seq(Frame) /\ stack # <<>> /\ Top.at = "Params"
        /\ Top = Head(stack) /\ Top \in Frame
    <3>1. stack \in Seq(Frame) /\ stack # <<>> BY <1>1 DEF IInv, TypeOK, Running
    <3> QED BY <1>1, <3>1, HeadTailProperties DEF Running, Top
  <2>3. Call(<<Top>>) BY <1>3, <2>2, HeadAndTail DEF Call
  <2>4. Holds(Top, {})
    <3>1. Top.left # 0 => Top.left \in Free BY <1>2, <2>1, Around
    <3>2. Top.node # 0 => Top.node # Top.left BY <2>1, Around
    <3>3. Suits(nodes', Top) BY <1>2, <2>1, <2>2 DEF Suits
    <3> QED BY <2>1, <3>1, <3>2, <3>3 DEF Holds
  <2> QED BY <1>2, <2>1, <2>2, <2>3, <2>4, CallOne
<1>4. ASSUME NEW m \in AstIdentifier, AddMember(m), Here.kind \in Aggregate, Goto("MemberSemi")
      PROVE  Treed
  <2>1. /\ Going("Params") /\ Wired(0, {}) /\ Top.node \in DOMAIN nodes'
        /\ Top.node \in ({Top.node} \cup Fresh) \ {}
        /\ nodes'[Top.node].kind = Here.kind
    BY <1>1, <1>4, AddMemberTree
  <2>2. nodes'[Top.node].kind \in KindsAt("MemberSemi")
    BY <1>4, <2>1, KindsTable DEF AggPoints
  <2>3. /\ FrNode("MemberSemi", Top.node) \in Frame
        /\ FrNode("MemberSemi", Top.node).at = "MemberSemi"
        /\ Holds(FrNode("MemberSemi", Top.node), {})
    BY <1>2, <2>1, <2>2, NodeHolds
  <2> QED BY <1>2, <1>4, <2>1, <2>3, CallOne DEF Goto
<1>5. CASE /\ Here.kind \in {"STRUCT", "UNION"} /\ Identifier(At) /\ IsParameter
           /\ AddMember(Parameter) /\ Goto("MemberSemi")
  BY <1>1, <1>4, <1>5, ParameterType DEF Aggregate
<1>6. CASE /\ Here.kind = "ENUM" /\ Identifier(At) /\ Goto("MemberSemi")
           /\ AddMember([name |-> Lexeme(At), type |-> ZeroType])
  <2>1. ZeroType \in AstType BY DEF ZeroType, AstType, ValueType
  <2>2. [name |-> Lexeme(At), type |-> ZeroType] \in AstIdentifier
    BY <1>1, <1>6, <2>1, Looking DEF AstIdentifier
  <2> QED BY <1>4, <1>6, <2>2 DEF Aggregate
<1>7. CASE /\ UNCHANGED nodes
           /\ Call(<<FrNode(IF Here.kind = "FUNC" THEN "FuncClose" ELSE "AggClose", Top.node)>>)
  <2>1. PICK at \in {"FuncClose", "AggClose"} :
          Goto(at) /\ IF Here.kind = "FUNC" THEN at = "FuncClose" ELSE at = "AggClose"
    BY <1>7 DEF Goto
  <2>2. Going("Params") BY <1>1, <1>7, GoesOnSame
  <2>3. Here.kind \in {"FUNC"} \cup Aggregate BY <1>2, <2>2, Builds, KindsTable
  <2>4. Here.kind \in KindsAt(at) BY <2>1, <2>3, KindsTable DEF FuncPoints, AggPoints
  <2> QED BY <1>1, <1>2, <1>7, <2>1, <2>4, GotoTree
<1> QED BY <1>3, <1>5, <1>6, <1>7 DEF Params

LEMMA InsistsTree ==
  ASSUME NEW label, Insists(label)
  PROVE  Running(label) /\ UNCHANGED status /\ UNCHANGED nodes
BY DEF Insists, Reads, Sees

LEMMA InsistingTree ==
  ASSUME IInv, IInv', TreeInv, FuncOpen \/ AggOpen \/ MemberSemi \/ AggClose
                               \/ FuncClose \/ FuncColon \/ ExprSemi
  PROVE  Treed
<1>1. /\ {"FuncOpen", "FuncClose", "FuncColon", "FuncType", "Params", "AggOpen", "MemberSemi", "AggClose"}
           \subseteq Building \ (Resumptions \cup {"NegRhs"})
      /\ "ExprSemi" \in Resumptions
  BY DEF Building, Resumptions
<1>2. /\ \A at \in {"FuncOpen", "FuncClose", "FuncColon", "FuncType"} : KindsAt(at) = {"FUNC"}
      /\ \A at \in {"AggOpen", "MemberSemi", "AggClose"} : KindsAt(at) = Aggregate
      /\ KindsAt("Params") = {"FUNC"} \cup Aggregate
  BY KindsTable DEF FuncPoints, AggPoints
<1>3. ASSUME NEW label \in Building, Insists(label) PROVE Here.kind \in KindsAt(label)
  <2>1. Going(label) BY <1>3, InsistsTree, GoesOnSame
  <2> QED BY <2>1, Builds
<1>4. CASE FuncOpen BY <1>1, <1>2, <1>3, <1>4, InsistsTree, GotoTree DEF FuncOpen
<1>5. CASE AggOpen BY <1>1, <1>2, <1>3, <1>5, InsistsTree, GotoTree DEF AggOpen
<1>6. CASE MemberSemi BY <1>1, <1>2, <1>3, <1>6, InsistsTree, GotoTree DEF MemberSemi
<1>7. CASE FuncClose BY <1>1, <1>2, <1>3, <1>7, InsistsTree, GotoTree DEF FuncClose
<1>8. CASE FuncColon BY <1>1, <1>2, <1>3, <1>8, InsistsTree, GotoTree DEF FuncColon
<1>9. CASE AggClose BY <1>1, <1>9, InsistsTree, ReturnTree DEF AggClose
<1>10. CASE ExprSemi
  <2>1. Insists("ExprSemi") /\ Return(ret) BY <1>10 DEF ExprSemi
  <2>2. Going("ExprSemi") /\ Wired(0, {}) BY <2>1, InsistsTree, GoesOnSame
  <2>3. ret \in Free \ {} BY <1>1, <2>2, Given
  <2> QED BY <2>1, <2>2, <2>3, GiveBack
<1> QED BY <1>4, <1>5, <1>6, <1>7, <1>8, <1>9, <1>10

LEMMA FuncTypeTree ==
  ASSUME IInv, IInv', TreeInv, FuncType
  PROVE  Treed
<1>1. Running("FuncType") /\ UNCHANGED status BY DEF FuncType, Reads, Sees
<1>2. /\ "FuncType" \in Building /\ "FuncBody" \in Building \ {"NegRhs"}
      /\ KindsAt("FuncType") = KindsAt("FuncBody")
  BY KindsTable DEF Building, FuncPoints
<1>3. Here \in Node BY <1>1, <1>2, BuildingNode
<1>4. [value |-> TypeOfId[Kind(At)], ptr |-> Kind(At) = "T_STAR"] \in AstType
  <2>1. TypeOfId[Kind(At)] \in ValueType BY DEF FuncType, TypeIds, TypeOfId, ValueType
  <2>2. (Kind(At) = "T_STAR") \in BOOLEAN OBVIOUS
  <2> QED BY <2>1, <2>2, Zenon DEF AstType
<1> DEFINE ty == [value |-> TypeOfId[Kind(At)], ptr |-> Kind(At) = "T_STAR"]
           nd == [Here EXCEPT !.type = ty]
<1>5. Update(nd) /\ Call(<<Fr("Block"), FrNode("FuncBody", Top.node)>>) BY DEF FuncType
<1>6. ty \in AstType BY <1>4
<1> HIDE DEF ty
<1>7. nd \in Node /\ nd.kids = Here.kids /\ nd.kind = Here.kind BY <1>3, <1>6 DEF Node
<1> HIDE DEF nd
<1>8. /\ Going("FuncType") /\ Wired(0, {}) /\ Top.node \in DOMAIN nodes'
      /\ Top.node \in ({Top.node} \cup Fresh) \ {}
      /\ nodes'[Top.node].kind \in KindsAt("FuncBody")
  BY <1>1, <1>2, <1>5, <1>7, UpdateTree
<1>9. FrNode("FuncBody", Top.node) \in Frame /\ Holds(FrNode("FuncBody", Top.node), {})
  BY <1>2, <1>8, NodeHolds
<1> QED BY <1>5, <1>8, <1>9, PairCall, CallMore

(* The frame of a function that waits for its right operand.               *)
LEMMA LeftHolds ==
  ASSUME NEW label, Going(label), NEW n \in Fresh, NEW left \in Free, n # left,
         NEW at \in {"LogicRhs", "FactorRhs", "NegRhs"}, nodes'[n].kind = "BINARY",
         at = "NegRhs" => nodes'[left].kind = "LITERAL",
         NEW op \in BinaryOp \cup {"NONE"},
         NEW g, \/ g = [FrNode(at, n) EXCEPT !.left = left, !.op = op]
                \/ g = [FrNode(at, n) EXCEPT !.left = left]
  PROVE  g \in Frame /\ Holds(g, {})
<1>1. /\ n \in DOMAIN nodes' /\ left \in DOMAIN nodes' /\ n \in Nat /\ left \in Nat
  BY Around DEF Fresh
<1>2. at \in Building BY DEF Building
<1>3. FrNode(at, n) \in Frame /\ FrNode(at, n).at = at /\ FrNode(at, n).node = n
  BY <1>1, <1>2, NodeInFrame
<1>4. g \in Frame /\ g.at = at /\ g.node = n /\ g.left = left BY <1>1, <1>3 DEF Frame
<1>5. Suits(nodes', g) BY <1>1, <1>4, KindsTable DEF Suits
<1> QED BY <1>4, <1>5 DEF Holds

(* A new node with a left child.                                           *)
LEMMA LeftWired ==
  ASSUME NEW label, Going(label), NEW c \in Free, c # New, c # Top.node,
         NEW nd \in Node, nd.kind = "BINARY", nd.kids = <<c, 0>>,
         New \in Fresh, nodes'[New] = nd, \A i \in DOMAIN nodes : nodes'[i] = nodes[i],
         \A i \in Fresh \ {New} : ChildSet(nodes'[i].kids) = {} /\ Sized(nodes'[i])
  PROVE  /\ Wired(New, {c}) /\ New \in DOMAIN nodes'
         /\ New \in ({Top.node} \cup Fresh) \ {c} /\ nodes'[New].kind = "BINARY"
<1>1. c \in Nat \ {0} /\ New \in DOMAIN nodes' BY Around DEF Fresh
<1>2. /\ ChildSet(nd.kids) = {c} /\ Sized(nd) /\ Increasing(nd.kids)
      /\ \A k, l \in DOMAIN nd.kids : nd.kids[k] = nd.kids[l] /\ nd.kids[k] # 0 => k = l
  BY <1>1, LeftGiven
<1>3. /\ ChildSet(nodes'[New].kids) = {c} /\ Sized(nodes'[New]) /\ Increasing(nodes'[New].kids)
      /\ \A k, l \in DOMAIN nodes'[New].kids :
           nodes'[New].kids[k] = nodes'[New].kids[l] /\ nodes'[New].kids[k] # 0 => k = l
  BY <1>2
<1>4. Wired(New, {c})
  <2>1. ChildSet(nodes'[New].kids) \subseteq {c} \cup KidsOf(nodes, New) BY <1>3
  <2>2. \A i \in DOMAIN nodes \ {New} :
          nodes'[i].kids = nodes[i].kids /\ nodes'[i].kind = nodes[i].kind
    OBVIOUS
  <2>3. {c} \subseteq Free /\ New \in {Top.node} \cup Fresh OBVIOUS
  <2>4. Apart(New, {c}) BY DEF Apart
  <2> QED BY <1>1, <1>3, <2>1, <2>2, <2>3, <2>4, KidsGiven
<1> QED BY <1>1, <1>4

(* The left operand is stored when the right one is there, ...             *)
LEMMA LogicTree ==
  ASSUME IInv, IInv', TreeInv, LogicRest \/ LogicRhs \/ FactorRest \/ FactorRhs
  PROVE  Treed
<1>1. /\ "BINARY" \in NodeKind /\ {"LogicRest", "FactorRest"} \subseteq Resumptions
      /\ {"LogicRhs", "FactorRhs"} \subseteq (Building \cap HoldingLeft \cap Resumptions) \ {"TermRhs", "NegRhs"}
      /\ KindsAt("LogicRhs") = {"BINARY"} /\ KindsAt("FactorRhs") = {"BINARY"}
  BY KindsTable DEF NodeKind, ExpressionKind, Resumptions, Building, HoldingLeft
<1>2. ASSUME NEW label \in {"LogicRest", "FactorRest"}, Running(label), UNCHANGED status,
             Add(<<NewNode("BINARY")>>), NEW at \in {"LogicRhs", "FactorRhs"},
             NEW op \in BinaryOp, NEW g, g = [FrNode(at, New) EXCEPT !.left = ret, !.op = op]
      PROVE  Going(label) /\ Wired(0, {}) /\ g \in Frame /\ Holds(g, {})
  <2>1. Going(label) /\ Wired(0, {}) BY <1>1, <1>2, NewNodeFields, BuildTree
  <2>2. /\ Fresh = {New} /\ nodes'[New] = NewNode("BINARY") /\ New \notin DOMAIN nodes
    BY <1>1, <1>2, NewNodeFields, OneNew
  <2>3. ret \in Free /\ ret \in DOMAIN nodes BY <1>1, <2>1, Given
  <2>4. nodes'[New].kind = "BINARY" BY <1>1, <2>2, NewNodeFields
  <2>5. g \in Frame /\ Holds(g, {}) BY <1>2, <2>1, <2>2, <2>3, <2>4, LeftHolds
  <2> QED BY <2>1, <2>5
<1>3. CASE LogicRest
  <2>1. Running("LogicRest") /\ UNCHANGED status BY <1>3 DEF LogicRest, Reads, Sees
  <2>2. CASE HandBack(ret) BY <1>1, <2>1, <2>2, HandBackTree
  <2>3. ASSUME NEW op \in {"AND", "OR"}, Add(<<NewNode("BINARY")>>),
               Call(LogicCall \o <<[FrNode("LogicRhs", New) EXCEPT !.left = ret, !.op = op]>>)
        PROVE  Treed
    <3> DEFINE g == [FrNode("LogicRhs", New) EXCEPT !.left = ret, !.op = op]
    <3>1. op \in BinaryOp BY DEF BinaryOp
    <3>2. Going("LogicRest") /\ Wired(0, {}) /\ g \in Frame /\ Holds(g, {})
      BY <1>2, <2>1, <2>3, <3>1
    <3>3. Call(LogicCall \o <<g>>) BY <2>3
    <3> HIDE DEF g
    <3> QED BY <3>2, <3>3, BareCalls, CallMore
  <2> QED BY <1>3, <2>2, <2>3 DEF LogicRest
<1>4. CASE FactorRest
  <2>1. Running("FactorRest") /\ UNCHANGED status BY <1>4 DEF FactorRest, Reads, Sees
  <2>2. CASE HandBack(ret) BY <1>1, <2>1, <2>2, HandBackTree
  <2>3. ASSUME NEW op \in {"MULT", "DIV"}, Add(<<NewNode("BINARY")>>),
               Call(<<Fr("Unary"), [FrNode("FactorRhs", New) EXCEPT !.left = ret, !.op = op]>>)
        PROVE  Treed
    <3> DEFINE g == [FrNode("FactorRhs", New) EXCEPT !.left = ret, !.op = op]
    <3>1. op \in BinaryOp BY DEF BinaryOp
    <3>2. Going("FactorRest") /\ Wired(0, {}) /\ g \in Frame /\ Holds(g, {})
      BY <1>2, <2>1, <2>3, <3>1
    <3>3. Call(<<Fr("Unary"), g>>) BY <2>3
    <3> HIDE DEF g
    <3> QED BY <3>2, <3>3, PairCall, CallMore
  <2> QED BY <1>4, <2>2, <2>3 DEF FactorRest
<1>5. ASSUME NEW label \in {"LogicRhs", "FactorRhs"}, Running(label), UNCHANGED status,
             NEW nd \in Node, Update(nd), nd.kids = <<Top.left, ret>>, nd.kind = Here.kind,
             Return(Top.node)
      PROVE  Treed
  <2>1. Sets(nd) /\ Len(nodes) <= Len(nodes') BY <1>1, <1>5, Updates
  <2>2. Going(label) BY <1>5, <2>1, GoesOn
  <2>3. Here.kind \in KindsAt(label) /\ Top.node \in Free /\ Top.node \in DOMAIN nodes /\ Top.node # 0
    BY <1>1, <2>2, Builds
  <2>4. Here.kind = "BINARY" BY <1>1, <2>3
  <2>5. Wired(Top.node, {Top.left, ret}) BY <1>1, <1>5, <2>1, <2>2, <2>4, BothAttached
  <2>6. Top.node # Top.left BY <2>2, <2>3, Around
  <2>7. Top.node # ret
    <3>1. Top.node \in Grasp(nodes, Top) BY <2>3 DEF Grasp
    <3> QED BY <1>1, <2>2, <3>1, Given
  <2>8. Top.node \in Free \ {Top.left, ret} BY <2>3, <2>6, <2>7
  <2> QED BY <1>5, <2>2, <2>5, <2>8, GiveBack
<1>6. ZeroType \in AstType BY DEF ZeroType, AstType, ValueType
<1>7. CASE LogicRhs
  <2> DEFINE nd == [Here EXCEPT !.kids = <<Top.left, ret>>, !.op = Top.op]
  <2>1. Running("LogicRhs") /\ UNCHANGED status /\ Update(nd) /\ Return(Top.node)
    BY <1>7 DEF LogicRhs, Resumes
  <2>2. Here \in Node /\ Top.left \in Nat /\ ret \in Nat /\ Top.op \in BinaryOp \cup {"NONE"}
    BY <1>1, <2>1, BuildingNode, TopFrame, SMTT(30) DEF Frame, IInv, TypeOK
  <2>3. nd \in Node BY <1>6, <2>2, BinaryNode
  <2>4. nd.kids = <<Top.left, ret>> /\ nd.kind = Here.kind BY <2>2 DEF Node
  <2> HIDE DEF nd
  <2> QED BY <1>5, <2>1, <2>3, <2>4
<1>8. CASE FactorRhs
  <2> DEFINE nd == [Here EXCEPT !.kids = <<Top.left, ret>>, !.op = Top.op, !.ev = nodes[Top.left].ev]
  <2>1. Running("FactorRhs") /\ UNCHANGED status /\ Update(nd) /\ Return(Top.node)
    BY <1>8 DEF FactorRhs, Resumes
  <2>2. /\ Here \in Node /\ ret \in Nat /\ Top.op \in BinaryOp \cup {"NONE"}
        /\ Top.left \in 1 .. Len(nodes)
    BY <1>1, <2>1, BuildingNode, TopFrame DEF Frame, FrameOK, IInv, TypeOK
  <2>3. nodes[Top.left].ev \in AstType /\ Top.left \in Nat BY <2>2, TypesOfLengths, SMTT(30) DEF Node
  <2>4. nd \in Node BY <2>2, <2>3, BinaryNode
  <2>5. nd.kids = <<Top.left, ret>> /\ nd.kind = Here.kind BY <2>2 DEF Node
  <2> HIDE DEF nd
  <2> QED BY <1>5, <2>1, <2>4, <2>5
<1> QED BY <1>3, <1>4, <1>7, <1>8

(* ... or at once.                                                         *)
LEMMA ComparisonTree ==
  ASSUME IInv, IInv', TreeInv, CmpRest \/ CmpRhs
  PROVE  Treed
<1>1. /\ "BINARY" \in NodeKind /\ "CmpRest" \in Resumptions
      /\ "CmpRhs" \in Building \ {"NegRhs"} /\ KindsAt("CmpRhs") = {"BINARY"}
  BY KindsTable DEF NodeKind, ExpressionKind, Resumptions, Building
<1>2. CASE CmpRest
  <2>1. Running("CmpRest") /\ UNCHANGED status BY <1>2 DEF CmpRest, Reads, Sees
  <2>2. CASE HandBack(ret) BY <1>1, <2>1, <2>2, HandBackTree
  <2>3. ASSUME Kind(At) \in ComparisonTokens,
               Add(<<[NewNode("BINARY") EXCEPT !.ev = [value |-> "BOOL", ptr |-> FALSE],
                                               !.kids = <<ret, 0>>,
                                               !.op = OpOfComparison[Kind(At)]]>>),
               Call(CmpCall \o <<FrNode("CmpRhs", New)>>)
        PROVE  Treed
    <3> DEFINE nd == [NewNode("BINARY") EXCEPT !.ev = [value |-> "BOOL", ptr |-> FALSE],
                                               !.kids = <<ret, 0>>,
                                               !.op = OpOfComparison[Kind(At)]]
    <3>1. OpOfComparison[Kind(At)] \in BinaryOp
      BY <2>3 DEF ComparisonTokens, OpOfComparison, BinaryOp
    <3>2. [value |-> "BOOL", ptr |-> FALSE] \in AstType BY DEF AstType, ValueType
    <3>3. ret \in Nat /\ 0 \in Nat BY SMTT(30) DEF IInv, TypeOK
    <3>4. nd \in Node BY <1>1, <3>1, <3>2, <3>3, NewNodeType, BinaryNode
    <3>5. nd.kind = "BINARY" /\ nd.kids = <<ret, 0>>
      <4>1. NewNode("BINARY") \in Node /\ NewNode("BINARY").kind = "BINARY"
        BY <1>1, NewNodeFields
      <4> QED BY <4>1 DEF Node
    <3>6. Add(<<nd>>) BY <2>3
    <3> HIDE DEF nd
    <3>7. /\ Fresh = {New} /\ nodes'[New] = nd /\ \A i \in DOMAIN nodes : nodes'[i] = nodes[i]
          /\ Len(nodes) <= Len(nodes') /\ New \notin DOMAIN nodes
      BY <3>4, <3>6, OneNew
    <3>8. Going("CmpRest") BY <2>1, <3>7, GoesOn
    <3>9. ret \in Free /\ ret # New /\ ret # Top.node BY <1>1, <3>7, <3>8, Given DEF Grasp
    <3>10. /\ Wired(New, {ret}) /\ New \in DOMAIN nodes'
           /\ New \in ({Top.node} \cup Fresh) \ {ret} /\ nodes'[New].kind = "BINARY"
      BY <3>4, <3>5, <3>7, <3>8, <3>9, LeftWired
    <3>11. FrNode("CmpRhs", New) \in Frame /\ Holds(FrNode("CmpRhs", New), {ret})
      BY <1>1, <3>8, <3>10, NodeHolds
    <3> QED BY <2>3, <3>8, <3>10, <3>11, BareCalls, CallMore
  <2> QED BY <1>2, <2>2, <2>3 DEF CmpRest
<1>3. CASE CmpRhs BY <1>3, AttachedTree DEF CmpRhs
<1> QED BY <1>2, <1>3

(* The node of an assignment, made with the node of the name it assigns.   *)
LEMMA AssignTree ==
  ASSUME IInv, IInv', TreeInv, NEW label, Running(label), UNCHANGED status,
         NEW table, NEW z \in DOMAIN table, table \in [DOMAIN table -> AstIdentifier],
         CreateAssign(z, table), NEW at \in {"DeclRhs", "AssignRhs"},
         NEW fs, Bare(fs), Call(fs \o <<FrNode(at, New)>>)
  PROVE  Treed
<1> DEFINE nd == [NewNode("BINARY") EXCEPT !.op = "DECL", !.kids = <<New + 1, 0>>]
           md == [NewNode("IDENTIFIER") EXCEPT !.name = table[z].name, !.type = table[z].type]
<1>1. /\ "BINARY" \in NodeKind /\ "IDENTIFIER" \in NodeKind /\ at \in Building \ {"NegRhs"}
      /\ KindsAt(at) = {"BINARY"}
  BY KindsTable DEF NodeKind, ExpressionKind, Building
<1>2. nd \in Node /\ nd.kind = "BINARY" /\ nd.kids = <<New + 1, 0>>
  <2>1. ZeroType \in AstType /\ "DECL" \in BinaryOp
    BY DEF ZeroType, AstType, ValueType, BinaryOp
  <2>2. New + 1 \in Nat /\ 0 \in Nat BY NewIsNat
  <2>3. NewNode("BINARY") \in Node /\ NewNode("BINARY").kind = "BINARY" BY <1>1, NewNodeFields
  <2>4. nd \in Node BY <2>1, <2>2, <2>3, BinaryNode
  <2> QED BY <2>3, <2>4 DEF Node
<1>3. /\ md \in Node /\ md.kind = "IDENTIFIER" /\ md.kids = FreshKids("IDENTIFIER")
  <2>1. table[z].name \in Name \cup {NoName} /\ table[z].type \in AstType BY DEF AstIdentifier
  <2>2. /\ NewNode("IDENTIFIER") \in Node /\ NewNode("IDENTIFIER").kind = "IDENTIFIER"
        /\ NewNode("IDENTIFIER").kids = FreshKids("IDENTIFIER")
    BY <1>1, NewNodeFields
  <2> QED BY <2>1, <2>2 DEF Node
<1>4. Add(<<nd, md>>) BY DEF CreateAssign
<1> HIDE DEF nd, md
<1>5. /\ Fresh = {New, New + 1} /\ nodes'[New] = nd /\ nodes'[New + 1] = md
      /\ \A i \in DOMAIN nodes : nodes'[i] = nodes[i]
      /\ Len(nodes) <= Len(nodes') /\ New \in Nat
  BY <1>2, <1>3, <1>4, TwoNew
<1>6. Going(label) BY <1>5, GoesOn
<1>7. New + 1 \in Free /\ New + 1 # New /\ New + 1 # Top.node
  <2>1. Top.node # 0 => Top.node \in DOMAIN nodes BY <1>6, Around DEF Grasp
  <2> QED BY <1>5, <1>6, <2>1, Around DEF Fresh
<1>8. \A i \in Fresh \ {New} : ChildSet(nodes'[i].kids) = {} /\ Sized(nodes'[i])
  BY <1>1, <1>3, <1>5, FreshNode
<1>9. /\ Wired(New, {New + 1}) /\ New \in DOMAIN nodes'
      /\ New \in ({Top.node} \cup Fresh) \ {New + 1} /\ nodes'[New].kind = "BINARY"
  BY <1>2, <1>5, <1>6, <1>7, <1>8, LeftWired
<1>10. FrNode(at, New) \in Frame /\ Holds(FrNode(at, New), {New + 1})
  BY <1>1, <1>6, <1>9, NodeHolds
<1> QED BY <1>6, <1>9, <1>10, CallMore

LEMMA DeclTree ==
  ASSUME IInv, IInv', TreeInv, Decl \/ DeclType \/ DeclEq \/ DeclRhs
  PROVE  Treed
<1>1. /\ {"DeclType", "DeclEq"} \subseteq Labels \ (Building \cup Resumptions)
      /\ {"DeclType", "DeclEq"} \subseteq Declaring
  BY DEF Labels, Building, Resumptions, Declaring
<1>2. ASSUME NEW label, Running(label), UNCHANGED status, UNCHANGED nodes,
             NEW fs, Call(fs), Bare(fs)
      PROVE  Treed
  BY <1>2, GoesOnSame, CallBare
<1>3. ASSUME NEW at \in {"DeclType", "DeclEq"}
      PROVE  Fr(at) \in Frame /\ Fr(at).at = at /\ Fr(at).node = 0 /\ Fr(at).left = 0
  <2>1. Fr(at) \in Frame /\ Blank(Fr(at)) BY <1>1, BareFrame
  <2> QED BY <2>1 DEF Fr
<1>4. CASE Decl
  <2> DEFINE fr == [Fr("DeclType") EXCEPT !.name = Lexeme(At)]
  <2>1. Running("Decl") /\ UNCHANGED status /\ UNCHANGED nodes /\ At < NTokens
    BY <1>4 DEF Decl, Reads, Sees
  <2>2. ASSUME Identifier(At), Call(<<fr>>) PROVE Treed
    <3>1. Lexeme(At) \in Name BY <2>1, <2>2, Looking
    <3>2. fr \in Frame /\ fr.at = "DeclType" /\ fr.node = 0 /\ fr.left = 0
      BY <1>3, <3>1 DEF Frame
    <3> HIDE DEF fr
    <3>3. Bare(<<fr>>) BY <1>1, <3>2, BareOne DEF Blank
    <3> QED BY <1>2, <2>1, <2>2, <3>3
  <2>3. CASE Call(LogicCall) BY <1>2, <2>1, <2>3, BareCalls
  <2> QED BY <1>4, <2>2, <2>3 DEF Decl
<1>5. CASE DeclType
  <2>1. Running("DeclType") /\ UNCHANGED status /\ UNCHANGED nodes
    BY <1>5 DEF DeclType, Reads, Sees
  <2>2. Top.name \in Name BY <1>1, <2>1, TopFrame DEF FrameOK
  <2>3. ASSUME NEW star \in BOOLEAN, Kind(At) \in TypeIds,
               Call(<<[Fr("DeclEq") EXCEPT
                         !.name = Top.name,
                         !.type = [value |-> TypeOfId[Kind(At)], ptr |-> star]]>>)
        PROVE  Treed
    <3> DEFINE ty == [value |-> TypeOfId[Kind(At)], ptr |-> star]
               fr == [Fr("DeclEq") EXCEPT !.name = Top.name, !.type = ty]
    <3>1. ty \in AstType
      <4>1. TypeOfId[Kind(At)] \in ValueType BY <2>3 DEF TypeIds, TypeOfId, ValueType
      <4> QED BY <4>1 DEF AstType
    <3>2. Call(<<fr>>) BY <2>3
    <3> HIDE DEF ty
    <3>3. fr \in Frame /\ fr.at = "DeclEq" /\ fr.node = 0 /\ fr.left = 0
      BY <1>3, <2>2, <3>1 DEF Frame
    <3> HIDE DEF fr
    <3>4. Bare(<<fr>>) BY <1>1, <3>3, BareOne DEF Blank
    <3> QED BY <1>2, <2>1, <3>2, <3>4
  <2>4. CASE Call(LogicCall) BY <1>2, <2>1, <2>4, BareCalls
  <2>5. (Kind(SkipLf(At + 1)) = "T_STAR") \in BOOLEAN OBVIOUS
  <2> QED BY <1>5, <2>3, <2>4, <2>5 DEF DeclType
<1>6. CASE DeclEq
  <2> DEFINE entry == [name |-> Top.name, type |-> Top.type]
  <2>1. /\ Running("DeclEq") /\ UNCHANGED status
        /\ idents' = Emplace(idents, Top.name, entry)
        /\ CreateAssign(Top.name, idents')
        /\ Call(LogicCall \o <<FrNode("DeclRhs", New)>>)
    BY <1>6 DEF DeclEq, Sees
  <2>2. Top.name \in Name BY <1>1, <2>1, TopFrame DEF FrameOK
  <2>3. Top.name \in DOMAIN idents' BY <2>1 DEF Emplace
  <2>4. idents' \in [DOMAIN idents' -> AstIdentifier] BY DEF IInv, TypeOK
  <2> QED BY <2>1, <2>3, <2>4, BareCalls, AssignTree
<1>7. CASE DeclRhs BY <1>7, AttachedTree DEF DeclRhs
<1> QED BY <1>4, <1>5, <1>6, <1>7

LEMMA AssignmentTree ==
  ASSUME IInv, IInv', TreeInv, Assignment \/ AssignRhs
  PROVE  Treed
<1>1. CASE Assignment
  <2>1. Running("Assignment") /\ UNCHANGED status BY <1>1 DEF Assignment, Reads, Sees
  <2>2. CASE HandOn(TermCall) BY <2>1, <2>2, BareCalls, HandOnTree
  <2>3. CASE /\ Lexeme(At) \in DOMAIN idents /\ CreateAssign(Lexeme(At), idents)
             /\ Call(TermCall \o <<FrNode("AssignRhs", New)>>)
    <3>1. idents \in [DOMAIN idents -> AstIdentifier] BY DEF IInv, TypeOK
    <3> QED BY <2>1, <2>3, <3>1, BareCalls, AssignTree
  <2> QED BY <1>1, <2>2, <2>3 DEF Assignment
<1>2. CASE AssignRhs
  <2> DEFINE nd == [WithKid(Here, 2, ret) EXCEPT !.ev = nodes[ret].ev]
  <2>1. Running("AssignRhs") /\ UNCHANGED status /\ Update(nd) /\ Return(Top.node)
    BY <1>2 DEF AssignRhs, Resumes
  <2>2. "AssignRhs" \in Building \cap Resumptions /\ KindsAt("AssignRhs") = {"BINARY"}
    BY KindsTable DEF Building, Resumptions
  <2>3. Here \in Node /\ nodes[ret] \in Node /\ ret \in Nat
    BY <2>1, <2>2, TopFrame, BuildingNode DEF IInv, TypeOK
  <2>4. WithKid(Here, 2, ret) \in Node /\ WithKid(Here, 2, ret).kind = Here.kind
    BY <2>3, WithKidFields
  <2>5. nodes[ret].ev \in AstType BY <2>3 DEF Node
  <2>6. nd \in Node /\ nd.kids = WithKid(Here, 2, ret).kids /\ nd.kind = Here.kind
    BY <2>4, <2>5 DEF Node
  <2> HIDE DEF nd
  <2>7. /\ Going("AssignRhs") /\ Wired(Top.node, {ret}) /\ Top.node \in Free \ {ret}
    BY <2>1, <2>2, <2>6, AttachTree
  <2> QED BY <2>1, <2>7, GiveBack
<1> QED BY <1>1, <1>2

(* A sum, whose left operand gets its parent before the right one is read. *)
LEMMA TermTree ==
  ASSUME IInv, IInv', TreeInv, TermFirst \/ TermLoop \/ TermRhs
  PROVE  Treed
<1>1. /\ "BINARY" \in NodeKind /\ {"TermFirst", "TermRhs"} \subseteq Resumptions
      /\ "TermRhs" \in (Building \cap HoldingLeft) \ {"NegRhs"} /\ KindsAt("TermRhs") = {"BINARY"}
      /\ "TermLoop" \in HoldingLeft \ (Building \cup Declaring \cup Resumptions)
      /\ {"TermLoop", "TermRhs"} \subseteq Labels
  BY KindsTable DEF NodeKind, ExpressionKind, Resumptions, Building, HoldingLeft, Declaring, Labels
<1>2. CASE TermFirst
  <2> DEFINE fr == [Fr("TermLoop") EXCEPT !.left = ret, !.op = ChainOp]
  <2>1. /\ Running("TermFirst") /\ UNCHANGED status /\ UNCHANGED nodes /\ Call(<<fr>>)
    BY <1>2 DEF TermFirst, Reads, Sees
  <2>2. Going("TermFirst") /\ Wired(0, {}) BY <2>1, GoesOnSame
  <2>3. ret \in Free /\ ret \in Nat BY <1>1, <2>2, Given
  <2>4. Fr("TermLoop") \in Frame /\ Fr("TermLoop").at = "TermLoop" /\ Fr("TermLoop").node = 0
    <3>1. Fr("TermLoop") \in Frame /\ Blank(Fr("TermLoop")) /\ Fr("TermLoop").at = "TermLoop"
      BY <1>1, BareFrame
    <3> QED BY <3>1 DEF Blank
  <2>5. ChainOp \in BinaryOp BY DEF ChainOp, BinaryOp
  <2>6. fr \in Frame /\ fr.at = "TermLoop" /\ fr.left = ret /\ fr.node = 0
    BY <2>3, <2>4, <2>5 DEF Frame
  <2> HIDE DEF fr
  <2>7. Holds(fr, {}) BY <1>1, <2>3, <2>6 DEF Holds, Suits
  <2> QED BY <1>1, <2>1, <2>2, <2>6, <2>7, CallOne
<1>3. CASE TermLoop
  <2> DEFINE nd == [NewNode("BINARY") EXCEPT !.kids = <<Top.left, 0>>, !.op = Top.op]
             fr == [Top EXCEPT !.at = "TermRhs", !.node = New]
  <2>1. Running("TermLoop") /\ UNCHANGED status BY <1>3 DEF TermLoop, Reads, Sees
  <2>2. Top \in Frame /\ Top.left \in 1 .. Len(nodes) BY <1>1, <2>1, TopFrame DEF FrameOK
  <2>3. ASSUME Add(<<nd>>), Call(FactorCall \o <<fr>>) PROVE Treed
    <3>1. nd \in Node /\ nd.kind = "BINARY" /\ nd.kids = <<Top.left, 0>>
      <4>1. ZeroType \in AstType BY DEF ZeroType, AstType, ValueType
      <4>2. Top.left \in Nat /\ 0 \in Nat /\ Top.op \in BinaryOp \cup {"NONE"} BY <2>2 DEF Frame
      <4>3. NewNode("BINARY") \in Node /\ NewNode("BINARY").kind = "BINARY"
        BY <1>1, NewNodeFields
      <4>4. nd \in Node BY <4>1, <4>2, <4>3, BinaryNode
      <4> QED BY <4>3, <4>4 DEF Node
    <3>2. New \in Nat BY NewIsNat
    <3>3. fr \in Frame /\ fr.at = "TermRhs" /\ fr.node = New /\ fr.left = Top.left
      BY <1>1, <2>2, <3>2 DEF Frame
    <3> HIDE DEF fr, nd
    <3>4. /\ Fresh = {New} /\ nodes'[New] = nd /\ \A i \in DOMAIN nodes : nodes'[i] = nodes[i]
          /\ Len(nodes) <= Len(nodes') /\ New \notin DOMAIN nodes
      BY <2>3, <3>1, OneNew
    <3>5. Going("TermLoop") BY <2>1, <3>4, GoesOn
    <3>6. Top.left \in DOMAIN nodes /\ Top.left # 0 BY <2>2, <3>5, Around
    <3>7. /\ Top.left \in Free /\ Top.left \in Near /\ Top.left # New
          /\ Top.left # Top.node
      BY <3>4, <3>5, <3>6, Around
    <3>8. /\ Wired(New, {Top.left}) /\ New \in DOMAIN nodes'
          /\ New \in ({Top.node} \cup Fresh) \ {Top.left} /\ nodes'[New].kind = "BINARY"
      BY <3>1, <3>4, <3>5, <3>7, LeftWired
    <3>9. Suits(nodes', fr) BY <1>1, <3>3, <3>8 DEF Suits
    <3>10. Holds(fr, {Top.left}) BY <3>3, <3>7, <3>8, <3>9 DEF Holds
    <3> QED BY <2>3, <3>3, <3>5, <3>8, <3>10, BareCalls, CallMore
  <2>4. CASE HandBack(Top.left)
    <3>1. Going("TermLoop") /\ Wired(0, {}) BY <2>1, <2>4, GoesOnSame DEF HandBack
    <3>2. Top.left \in Free \ {} BY <2>2, <3>1, Around
    <3> QED BY <2>4, <3>1, <3>2, GiveBack DEF HandBack
  <2> QED BY <1>3, <2>3, <2>4 DEF TermLoop
<1>4. CASE TermRhs
  <2> DEFINE fr == [Top EXCEPT !.at = "TermLoop", !.node = 0, !.left = Top.node]
             l == nodes[Top.left]
             r == nodes[ret]
  <2>1. Running("TermRhs") /\ UNCHANGED status /\ Call(<<fr>>)
    BY <1>4 DEF TermRhs, Resumes
  <2>2. /\ Top \in Frame /\ Top.left \in 1 .. Len(nodes) /\ Top.node \in 1 .. Len(nodes)
        /\ Here \in Node /\ l \in Node /\ r \in Node /\ ret \in Nat
    BY <1>1, <2>1, TopFrame, BuildingNode, TypesOfLengths DEF FrameOK, IInv, TypeOK
  <2>3. PICK garbage \in BOOLEAN :
          Update(Fold([WithKid(Here, 2, ret) EXCEPT !.ev = BinaryEval(l.ev, r.ev, garbage)], l, r))
    BY <1>4 DEF TermRhs
  <2> DEFINE bin == [WithKid(Here, 2, ret) EXCEPT !.ev = BinaryEval(l.ev, r.ev, garbage)]
             nd == Fold(bin, l, r)
  <2>4. BinaryEval(l.ev, r.ev, garbage) \in AstType BY <2>2, BinaryEvalType DEF Node
  <2>5. WithKid(Here, 2, ret) \in Node /\ WithKid(Here, 2, ret).kind = Here.kind
    BY <2>2, WithKidFields
  <2>6. bin \in Node /\ bin.kids = WithKid(Here, 2, ret).kids /\ bin.kind = Here.kind
    BY <2>4, <2>5 DEF Node
  <2> HIDE DEF bin
  <2>7. nd \in Node BY <2>2, <2>6, FoldType
  <2>8. nd = bin \/ (nd.kind = "LITERAL" /\ nd.kids = <<>>)
    BY <2>6 DEF Fold, Node
  <2>9. Update(nd) BY <2>3 DEF bin
  <2> HIDE DEF nd, l, r
  <2>10. fr \in Frame /\ fr.at = "TermLoop" /\ fr.left = Top.node /\ fr.node = 0
    BY <1>1, <2>2 DEF Frame
  <2> HIDE DEF fr
  <2>11. ASSUME NEW taken, Top.node \in Free \ taken PROVE Holds(fr, taken)
    BY <1>1, <2>10, <2>11 DEF Holds, Suits
  <2>12. CASE nd = bin
    <3>1. Going("TermRhs") /\ Wired(Top.node, {ret}) /\ Top.node \in Free \ {ret}
      BY <1>1, <2>1, <2>6, <2>9, <2>12, AttachTree
    <3> QED BY <1>1, <2>1, <2>10, <2>11, <3>1, CallOne
  <2>13. CASE nd.kind = "LITERAL" /\ nd.kids = <<>>
    <3>1. Sets(nd) /\ Len(nodes) <= Len(nodes') BY <1>1, <2>1, <2>7, <2>9, Updates
    <3>2. Going("TermRhs") BY <2>1, <3>1, GoesOn
    <3>3. Top.node \in Free \ {} BY <1>1, <3>2, Builds
    <3>4. Sized(nd) BY <2>13 DEF Sized, FreshKids
    <3>5. ChildSet(nd.kids) = {} /\ DOMAIN nd.kids = {} BY <2>13 DEF ChildSet
    <3>6. Wired(Top.node, {}) BY <1>1, <2>13, <3>1, <3>2, <3>4, <3>5, SetGiven DEF Apart
    <3> QED BY <1>1, <2>1, <2>10, <2>11, <3>2, <3>3, <3>6, CallOne
  <2> QED BY <2>8, <2>12, <2>13
<1> QED BY <1>2, <1>3, <1>4

LEMMA UnaryTree ==
  ASSUME IInv, IInv', TreeInv, Unary \/ NegRhs \/ NotRhs
  PROVE  Treed
<1>1. /\ {"BINARY", "LITERAL", "UNARY"} \subseteq NodeKind
      /\ {"NegRhs", "NotRhs"} \subseteq Building \cap Resumptions
      /\ "NegRhs" \in HoldingLeft \ {"TermRhs"}
      /\ KindsAt("NegRhs") = {"BINARY"} /\ KindsAt("NotRhs") = {"UNARY"}
  BY KindsTable DEF NodeKind, ExpressionKind, Resumptions, Building, HoldingLeft
<1>2. CASE Unary
  <2>1. Running("Unary") /\ UNCHANGED status BY <1>2 DEF Unary, Reads, Sees
  <2>2. ASSUME Add(<<NewNode("BINARY"), NewNode("LITERAL")>>),
               Call(<<Fr("Deref"), [FrNode("NegRhs", New) EXCEPT !.left = New + 1]>>)
        PROVE  Treed
    <3> DEFINE g == [FrNode("NegRhs", New) EXCEPT !.left = New + 1]
    <3>1. /\ NewNode("BINARY") \in Node /\ NewNode("BINARY").kind = "BINARY"
          /\ NewNode("BINARY").kids = FreshKids("BINARY")
          /\ NewNode("LITERAL") \in Node /\ NewNode("LITERAL").kind = "LITERAL"
          /\ NewNode("LITERAL").kids = FreshKids("LITERAL")
      BY <1>1, NewNodeFields
    <3>2. /\ Fresh = {New, New + 1} /\ nodes'[New] = NewNode("BINARY")
          /\ nodes'[New + 1] = NewNode("LITERAL")
          /\ \A i \in DOMAIN nodes : nodes'[i] = nodes[i]
          /\ Len(nodes) <= Len(nodes') /\ New \in Nat
      BY <2>2, <3>1, TwoNew
    <3>3. Going("Unary") BY <2>1, <3>2, GoesOn
    <3>4. \A i \in Fresh : ChildSet(nodes'[i].kids) = {} /\ Sized(nodes'[i])
      BY <1>1, <3>1, <3>2, FreshNode
    <3>5. Wired(0, {}) BY <3>2, <3>3, <3>4, NoKidGiven
    <3>6. New \in Fresh /\ New + 1 \in Free /\ New # New + 1 BY <3>2, <3>3, Around
    <3>7. nodes'[New].kind = "BINARY" /\ nodes'[New + 1].kind = "LITERAL" BY <3>1, <3>2
    <3>8. Call(<<Fr("Deref"), g>>) BY <2>2
    <3>9. g = [FrNode("NegRhs", New) EXCEPT !.left = New + 1] OBVIOUS
    <3> HIDE DEF g
    <3>10. g \in Frame /\ Holds(g, {})
      <4>1. "NONE" \in BinaryOp \cup {"NONE"} OBVIOUS
      <4>2. PICK left : left = New + 1 OBVIOUS
      <4>3. g = [FrNode("NegRhs", New) EXCEPT !.left = left] /\ left \in Free /\ New # left
        BY <3>6, <3>9, <4>2
      <4>4. nodes'[left].kind = "LITERAL" BY <3>7, <4>2
      <4> QED BY <3>3, <3>6, <3>7, <4>1, <4>3, <4>4, LeftHolds
    <3> QED BY <3>3, <3>5, <3>8, <3>10, PairCall, CallMore
  <2>3. ASSUME Add(<<NewNode("UNARY")>>), Call(<<Fr("Deref"), FrNode("NotRhs", New)>>)
        PROVE  Treed
    <3>1. /\ Going("Unary") /\ Wired(0, {}) /\ FrNode("NotRhs", New) \in Frame
          /\ Holds(FrNode("NotRhs", New), {})
      BY <1>1, <2>1, <2>3, NewNodeFields, BuildTree
    <3> QED BY <2>3, <3>1, PairCall, CallMore
  <2>4. CASE HandOn(<<Fr("Deref")>>) BY <2>1, <2>4, BareCalls, HandOnTree
  <2> QED BY <1>2, <2>2, <2>3, <2>4 DEF Unary
<1>3. CASE NegRhs
  <2> DEFINE ev == nodes[ret].ev
             minus == [Here EXCEPT !.kids = <<Top.left, ret>>, !.op = "SUB", !.ev = ev]
             zero == [nodes[Top.left] EXCEPT
                        !.type = [value |-> ev.value, ptr |-> FALSE],
                        !.rep = IF ev.value = "FLOAT" THEN "float" ELSE "int"]
  <2>1. /\ Running("NegRhs") /\ UNCHANGED status
        /\ nodes' = [nodes EXCEPT ![Top.node] = minus, ![Top.left] = zero] /\ Return(Top.node)
    BY <1>3 DEF NegRhs, Resumes
  <2>2. /\ Top.left \in 1 .. Len(nodes) /\ Top.node \in 1 .. Len(nodes)
        /\ Here \in Node /\ ret \in Nat /\ nodes \in Seq(Node)
    BY <1>1, <2>1, TopFrame, BuildingNode, TypesOfLengths, SMTT(30) DEF FrameOK, IInv, TypeOK
  <2>3. nodes[Top.left] \in Node BY <2>2, ElementOfSeq
  <2>4. minus.kids = <<Top.left, ret>> /\ minus.kind = Here.kind BY <2>2 DEF Node
  <2>5. zero.kids = nodes[Top.left].kids /\ zero.kind = nodes[Top.left].kind BY <2>3 DEF Node
  <2> HIDE DEF minus, zero, ev
  <2>6. DOMAIN nodes = 1 .. Len(nodes) BY <2>2, LenProperties
  <2>7. DOMAIN nodes' = DOMAIN nodes BY <2>1
  <2>8. Len(nodes) <= Len(nodes')
    <3>1. Len(nodes') = Len(nodes) BY <2>2, <2>6, <2>7, LenProperties DEF IInv, TypeOK
    <3> QED BY <2>2, <3>1, LenProperties
  <2>9. Going("NegRhs") BY <2>1, <2>8, GoesOn
  <2>10. /\ Here.kind = "BINARY" /\ Top.node \in Free /\ Top.node # 0 /\ Top.node \in DOMAIN nodes
    BY <1>1, <2>9, Builds
  <2>11. Top.node # Top.left BY <2>9, <2>10, Around
  <2>12. /\ nodes'[Top.node] = minus /\ nodes'[Top.left] = zero
         /\ \A i \in DOMAIN nodes \ {Top.node, Top.left} : nodes'[i] = nodes[i]
    BY <2>1, <2>2, <2>6, <2>11
  <2>13. Sets(minus)
    <3>1. Fresh = {} BY <2>7 DEF Fresh
    <3>2. \A i \in DOMAIN nodes \ {Top.node} :
            nodes'[i].kids = nodes[i].kids /\ nodes'[i].kind = nodes[i].kind
      BY <2>5, <2>12
    <3> QED BY <2>12, <3>1, <3>2 DEF Sets
  <2>14. Wired(Top.node, {Top.left, ret}) BY <1>1, <2>4, <2>9, <2>10, <2>13, BothAttached
  <2>15. Top.node # ret
    <3>1. Top.node \in Grasp(nodes, Top) BY <2>10 DEF Grasp
    <3> QED BY <1>1, <2>9, <3>1, Given
  <2>16. Top.node \in Free \ {Top.left, ret} BY <2>10, <2>11, <2>15
  <2> QED BY <2>1, <2>9, <2>14, <2>16, GiveBack
<1>4. CASE NotRhs
  <2> DEFINE nd == [Here EXCEPT !.kids = <<ret>>, !.op = "NEGATE", !.ev = nodes[ret].ev]
  <2>1. Running("NotRhs") /\ UNCHANGED status /\ Update(nd) /\ Return(Top.node)
    BY <1>4 DEF NotRhs, Resumes
  <2>2. Here \in Node /\ nodes[ret] \in Node /\ ret \in Nat
    BY <1>1, <2>1, TopFrame, BuildingNode DEF IInv, TypeOK
  <2>3. <<ret>> \in Seq(Nat) /\ nodes[ret].ev \in AstType BY <2>2 DEF Node
  <2>4. nd \in Node BY <2>2, <2>3 DEF Node, UnaryOp
  <2>5. nd.kids = <<ret>> /\ nd.kind = Here.kind BY <2>2 DEF Node
  <2> HIDE DEF nd
  <2>6. Sets(nd) /\ Len(nodes) <= Len(nodes') BY <1>1, <2>1, <2>4, Updates
  <2>7. Going("NotRhs") BY <2>1, <2>6, GoesOn
  <2>8. /\ Here.kind = "UNARY" /\ Top.node \in Free /\ Top.node # 0 BY <1>1, <2>7, Builds
  <2>9. Wired(Top.node, {ret}) BY <1>1, <2>5, <2>6, <2>7, <2>8, SoleAttached
  <2>10. Top.node # ret
    <3>1. Top.node \in Grasp(nodes, Top) BY <2>8 DEF Grasp
    <3> QED BY <1>1, <2>7, <3>1, Given
  <2>11. Top.node \in Free \ {ret} BY <2>8, <2>10
  <2> QED BY <2>1, <2>7, <2>9, <2>11, GiveBack
<1> QED BY <1>2, <1>3, <1>4

LEMMA PointerTree ==
  ASSUME IInv, IInv', TreeInv, Deref \/ DerefArg \/ Ref \/ RefArg
  PROVE  Treed
<1>1. /\ {"DerefArg", "RefArg"} \subseteq Building \ {"NegRhs"} /\ "UNARY" \in NodeKind
      /\ \A at \in {"DerefArg", "RefArg"} : KindsAt(at) = {"UNARY"}
  BY KindsTable DEF Building, NodeKind, ExpressionKind
<1>2. ASSUME NEW label, Running(label), UNCHANGED status,
             NEW op \in UnaryOp, NEW at \in {"DerefArg", "RefArg"}, NEW callee \in {"Ref", "Literal"},
             Add(<<[NewNode("UNARY") EXCEPT !.op = op]>>), Call(<<Fr(callee), FrNode(at, New)>>)
      PROVE  Treed
  <2> DEFINE nd == [NewNode("UNARY") EXCEPT !.op = op]
  <2>1. /\ NewNode("UNARY") \in Node /\ NewNode("UNARY").kind = "UNARY"
        /\ NewNode("UNARY").kids = FreshKids("UNARY")
    BY <1>1, NewNodeFields
  <2>2. nd \in Node /\ nd.kind = "UNARY" /\ nd.kids = FreshKids("UNARY") BY <2>1 DEF Node
  <2>3. Add(<<nd>>) BY <1>2
  <2> HIDE DEF nd
  <2>4. /\ Going(label) /\ Wired(0, {}) /\ FrNode(at, New) \in Frame
        /\ Holds(FrNode(at, New), {})
    BY <1>1, <1>2, <2>2, <2>3, BuildTree
  <2> QED BY <1>2, <2>4, PairCall, CallMore
<1>3. "DEREF" \in UnaryOp /\ "GET_PTR" \in UnaryOp BY DEF UnaryOp
<1>4. CASE Deref
  <2>1. Running("Deref") /\ UNCHANGED status BY <1>4 DEF Deref, Reads, Sees
  <2>2. CASE HandOn(<<Fr("Ref")>>) BY <2>1, <2>2, BareCalls, HandOnTree
  <2>3. CASE Add(<<[NewNode("UNARY") EXCEPT !.op = "DEREF"]>>) /\ Call(<<Fr("Ref"), FrNode("DerefArg", New)>>)
    BY <1>2, <1>3, <2>1, <2>3
  <2> QED BY <1>4, <2>2, <2>3 DEF Deref
<1>5. CASE Ref
  <2>1. Running("Ref") /\ UNCHANGED status BY <1>5 DEF Ref, Reads, Sees
  <2>2. CASE HandOn(<<Fr("Literal")>>) BY <2>1, <2>2, BareCalls, HandOnTree
  <2>3. CASE Add(<<[NewNode("UNARY") EXCEPT !.op = "GET_PTR"]>>) /\ Call(<<Fr("Literal"), FrNode("RefArg", New)>>)
    BY <1>2, <1>3, <2>1, <2>3
  <2> QED BY <1>5, <2>2, <2>3 DEF Ref
<1>6. CASE DerefArg BY <1>6, AttachedTree DEF DerefArg
<1>7. CASE RefArg BY <1>7, AttachedTree DEF RefArg
<1> QED BY <1>4, <1>5, <1>6, <1>7

LEMMA LiteralTree ==
  ASSUME IInv, IInv', TreeInv, Literal
  PROVE  Treed
<1>1. Running("Literal") /\ UNCHANGED status /\ At < NTokens BY DEF Literal, Sees
<1>2. /\ NewNode("LITERAL") \in Node /\ NewNode("IDENTIFIER") \in Node
      /\ NewNode("LITERAL").kind = "LITERAL" /\ NewNode("IDENTIFIER").kind = "IDENTIFIER"
      /\ NewNode("LITERAL").kids = FreshKids("LITERAL")
      /\ NewNode("IDENTIFIER").kids = FreshKids("IDENTIFIER")
      /\ "LITERAL" \in NodeKind /\ "IDENTIFIER" \in NodeKind
  BY NewNodeFields DEF NodeKind, ExpressionKind
<1>3. ASSUME Kind(At) \in LiteralTokens, Add(<<LiteralNode(At)>>), Return(New)
      PROVE  Treed
  <2> DEFINE ty == [value |-> TypeOfLiteral[Kind(At)], ptr |-> FALSE]
             rp == IF Kind(At) = "T_FLOAT" THEN "float" ELSE "int"
  <2>1. ty \in AstType
    <3>1. TypeOfLiteral[Kind(At)] \in ValueType
      BY <1>3 DEF LiteralTokens, TypeOfLiteral, ValueType
    <3> QED BY <3>1 DEF AstType
  <2>2. rp \in Encoding BY DEF Encoding
  <2>3. LiteralNode(At) = [NewNode("LITERAL") EXCEPT !.type = ty, !.ev = ty, !.rep = rp]
    BY Zenon DEF LiteralNode
  <2> HIDE DEF ty, rp
  <2>4. /\ LiteralNode(At) \in Node /\ LiteralNode(At).kind = "LITERAL"
        /\ LiteralNode(At).kids = FreshKids("LITERAL")
    BY <1>2, <2>1, <2>2, <2>3 DEF Node
  <2>5. /\ Fresh = {New} /\ nodes'[New] = LiteralNode(At)
        /\ \A i \in DOMAIN nodes : nodes'[i] = nodes[i]
        /\ Len(nodes) <= Len(nodes')
    BY <1>3, <2>4, OneNew
  <2>6. Going("Literal") BY <1>1, <2>5, GoesOn
  <2>7. Wired(0, {}) BY <1>2, <2>4, <2>5, <2>6, FreshNode, NoKidGiven
  <2>8. New \in Free \ {} BY <2>5, <2>6, Around
  <2> QED BY <1>3, <2>6, <2>7, <2>8, GiveBack
<1>4. ASSUME Identifier(At), idents' = Accessed(idents, Lexeme(At)),
             Add(<<NewNode("LITERAL"), IdentifierNode(idents'[Lexeme(At)])>>), Return(New + 1)
      PROVE  Treed
  <2>1. idents' \in [DOMAIN idents' -> AstIdentifier] /\ Lexeme(At) \in DOMAIN idents'
    BY <1>4 DEF IInv, TypeOK, Accessed, Emplace
  <2>2. PICK entry \in AstIdentifier : entry = idents'[Lexeme(At)] BY <2>1
  <2> DEFINE nd == IdentifierNode(entry)
  <2>3. nd \in Node /\ nd.kind = "IDENTIFIER" /\ nd.kids = FreshKids("IDENTIFIER")
    BY <1>2 DEF IdentifierNode, AstIdentifier, Node
  <2>4. Add(<<NewNode("LITERAL"), nd>>) BY <1>4, <2>2
  <2> HIDE DEF nd
  <2>5. /\ Fresh = {New, New + 1} /\ nodes'[New] = NewNode("LITERAL") /\ nodes'[New + 1] = nd
        /\ \A i \in DOMAIN nodes : nodes'[i] = nodes[i]
        /\ Len(nodes) <= Len(nodes') /\ New \in Nat
    BY <1>2, <2>3, <2>4, TwoNew
  <2>6. Going("Literal") BY <1>1, <2>5, GoesOn
  <2>7. \A i \in Fresh : ChildSet(nodes'[i].kids) = {} /\ Sized(nodes'[i])
    BY <1>2, <2>3, <2>5, FreshNode
  <2>8. Wired(0, {}) BY <2>5, <2>6, <2>7, NoKidGiven
  <2>9. New + 1 \in Free \ {} BY <2>5, <2>6, Around
  <2> QED BY <1>4, <2>6, <2>8, <2>9, GiveBack
<1> QED BY <1>3, <1>4 DEF Literal

-----------------------------------------------------------------------------
(* Every step keeps the shape.                                             *)

LEMMA StepTree ==
  ASSUME IInv, IInv', TreeInv, Step
  PROVE  Treed
<1>1. CASE Statement BY <1>1, StatementTree
<1>2. CASE IfOpen \/ IfCond \/ IfThen \/ IfElse BY <1>2, IfTree
<1>3. CASE Block \/ BlockLoop \/ BlockPush \/ BlockClose BY <1>3, BlockTree
<1>4. CASE DefName \/ Params \/ FuncType BY <1>4, DefNameTree, ParamsTree, FuncTypeTree
<1>5. CASE FuncOpen \/ AggOpen \/ MemberSemi \/ AggClose \/ FuncClose \/ FuncColon \/ ExprSemi
  BY <1>5, InsistingTree
<1>6. CASE FuncBody BY <1>6, AttachedTree DEF FuncBody
<1>7. CASE Decl \/ DeclType \/ DeclEq \/ DeclRhs BY <1>7, DeclTree
<1>8. CASE Assignment \/ AssignRhs BY <1>8, AssignmentTree
<1>9. CASE LogicRest \/ LogicRhs \/ FactorRest \/ FactorRhs BY <1>9, LogicTree
<1>10. CASE CmpRest \/ CmpRhs BY <1>10, ComparisonTree
<1>11. CASE TermFirst \/ TermLoop \/ TermRhs BY <1>11, TermTree
<1>12. CASE Unary \/ NegRhs \/ NotRhs BY <1>12, UnaryTree
<1>13. CASE Deref \/ DerefArg \/ Ref \/ RefArg BY <1>13, PointerTree
<1>14. CASE Literal BY <1>14, LiteralTree
<1> QED BY <1>1, <1>2, <1>3, <1>4, <1>5, <1>6, <1>7, <1>8, <1>9, <1>10, <1>11, <1>12, <1>13,
           <1>14 DEF Step

LEMMA StepMoves ==
  ASSUME IInv, TreeInv, Step
  PROVE  Moved
BY NextKeeps, StepTree DEF Next, Treed

LEMMA TreeKeeps == IInv /\ TreeInv /\ [Next]_vars => TreeInv'
<1> SUFFICES ASSUME IInv, TreeInv, [Next]_vars PROVE TreeInv'
  OBVIOUS
<1>1. IInv' BY NextKeeps
<1>2. CASE Step BY <1>1, <1>2, StepTree DEF Treed
<1>3. ASSUME NEW how, how # "accepted", NEW i, StopAt(how, i) PROVE TreeInv'
  BY <1>3 DEF StopAt, TreeInv, Pending, Top
<1>4. CASE Failure
  BY <1>3, <1>4 DEF Failure, NotAParameter, Undeclared, TwoPointers, Negative, OperandFails,
                    LiteralFails, RunOff, ExpectFails, MatchFails, AssertFails, Stop
<1>5. CASE Accept BY <1>5 DEF Accept, Stop, StopAt, TreeInv, Pending, Top
<1>6. CASE UNCHANGED vars BY <1>6 DEF vars, TreeInv, Pending, Top
<1> QED BY <1>2, <1>4, <1>5, <1>6 DEF Next

LEMMA InitTree == Init => TreeInv
<1> SUFFICES ASSUME Init PROVE TreeInv
  OBVIOUS
<1>1. nodes = <<>> /\ stack = <<Fr("Statement")>> /\ status = "running" BY DEF Init
<1>2. DOMAIN nodes = {} BY <1>1
<1>3. /\ Fr("Statement") \in Frame /\ Blank(Fr("Statement")) /\ Fr("Statement").at = "Statement"
      /\ "Statement" \notin Resumptions
  BY BareFrame DEF Labels, Building, Resumptions
<1>4. DOMAIN stack = {1} /\ stack[1] = Fr("Statement") /\ Top = Fr("Statement") /\ stack # <<>>
  BY <1>1 DEF Top
<1>5. Pending = {} BY <1>3, <1>4 DEF Pending
<1>6. Grasp(nodes, Fr("Statement")) = {} BY <1>2, <1>3 DEF Blank, Grasp, KidsOf
<1>7. Ordered(nodes, stack, Pending) BY <1>3, <1>4, <1>5, <1>6 DEF Ordered, Blank
<1>8. OneParent(nodes) /\ InOrder(nodes) /\ Orphans(nodes, Loose(stack, Pending))
      /\ \A i \in DOMAIN nodes : Sized(nodes[i])
  BY <1>2 DEF OneParent, InOrder, Orphans
<1>9. \A i \in DOMAIN stack : Suits(nodes, stack[i])
  BY <1>3, <1>4 DEF Blank, Suits, Building
<1> QED BY <1>1, <1>7, <1>8, <1>9 DEF TreeInv, TreeOf

LEMMA TreeStands == Spec => [](IInv /\ TreeInv)
BY InitKeeps, InitTree, NextKeeps, TreeKeeps, PTL DEF Spec

LEMMA TreeIsOrdered ==
  ASSUME IInv, TreeInv
  PROVE  OrderedTree
<1>1. /\ Ordered(nodes, stack, Pending) /\ OneParent(nodes) /\ InOrder(nodes)
      /\ Orphans(nodes, Loose(stack, Pending))
  BY DEF TreeInv, TreeOf
<1>2. 0 \notin DOMAIN nodes
  <2>1. DOMAIN nodes = 1 .. Len(nodes) BY LenProperties DEF IInv, TypeOK
  <2> QED BY <2>1
<1>3. ASSUME NEW c, NEW e \in Parents(c)
      PROVE  e = <<e[1], e[2]>> /\ e[1] \in DOMAIN nodes /\ e[2] \in DOMAIN nodes[e[1]].kids
             /\ nodes[e[1]].kids[e[2]] = c
  BY <1>3 DEF Parents
<1>4. ASSUME NEW c \in DOMAIN nodes, NEW e \in Parents(c), NEW f \in Parents(c) PROVE e = f
  <2>1. e[1] = f[1] /\ e[2] = f[2] BY <1>1, <1>2, <1>3 DEF OneParent
  <2> QED BY <1>3, <2>1
<1>5. ASSUME status = "accepted" PROVE Parents(ret) = {}
  <2>1. Pending = {ret} BY <1>5 DEF TreeInv, Pending
  <2>2. ret \in DOMAIN nodes /\ ret \in Loose(stack, Pending)
    BY <1>1, <2>1, PendingIsLoose DEF Ordered
  <2>3. ASSUME NEW e \in Parents(ret) PROVE FALSE
    <3>1. ret \in KidsOf(nodes, e[1]) BY <1>2, <1>3, <2>2, KidIn
    <3>2. e[1] \in DOMAIN nodes BY <1>3
    <3> QED BY <1>1, <2>2, <3>1, <3>2 DEF Orphans
  <2> QED BY <2>3
<1>6. \A i \in DOMAIN nodes :
        nodes[i].kind \in {"BINARY", "BLOCK"} => Increasing(nodes[i].kids)
  BY <1>1 DEF InOrder
<1> QED BY <1>4, <1>5, <1>6 DEF OrderedTree

(* Whatever it reads, the parser's nodes form a tree in source order: no   *)
(* node is the child of two or twice of one, no call, block or fold ever   *)
(* attaches a node twice, the node returned in the end is the child of     *)
(* none, and operands and statements stand as they were read.              *)
THEOREM TreeStaysOrdered == Spec => []OrderedTree
<1>1. IInv /\ TreeInv => OrderedTree BY TreeIsOrdered
<1> QED BY <1>1, TreeStands, PTL

-----------------------------------------------------------------------------
(* What a step writes to: new nodes, and the node under construction; and  *)
(* the zero of a negation.                                                 *)
Writes == \/ UNCHANGED nodes
          \/ \E nd : Add(<<nd>>)
          \/ \E nd, md : Add(<<nd, md>>)
          \/ \E nd : Update(nd)
          \/ /\ Top.at = "NegRhs"
             /\ \E nd, md : nodes' = [nodes EXCEPT ![Top.node] = nd, ![Top.left] = md]

LEMMA StepWrites == ASSUME Step PROVE Writes /\ stack # <<>>
<1>1. CASE Statement
  BY <1>1, Zenon DEF Statement, Writes, HandOn, Reads, Sees, Running
<1>2. CASE IfOpen \/ IfCond \/ IfThen \/ IfElse
  BY <1>2, Zenon DEF IfOpen, IfCond, IfThen, IfElse, Attach, Writes, Reads, Resumes, Sees, Running
<1>3. CASE Block \/ BlockLoop \/ BlockPush \/ BlockClose
  BY <1>3, Zenon DEF Block, BlockLoop, BlockPush, BlockClose, Insists, Writes, Reads, Resumes,
                     Sees, Running
<1>4. CASE DefName \/ Params \/ FuncType
  BY <1>4, Zenon DEF DefName, Params, AddMember, FuncType, Writes, Reads, Sees, Running
<1>5. CASE FuncOpen \/ AggOpen \/ MemberSemi \/ AggClose \/ FuncClose \/ FuncColon \/ ExprSemi
  BY <1>5, Zenon DEF FuncOpen, AggOpen, MemberSemi, AggClose, FuncClose, FuncColon, ExprSemi,
                     Insists, Writes, Reads, Sees, Running
<1>6. CASE FuncBody \/ DeclRhs \/ CmpRhs \/ DerefArg \/ RefArg
  BY <1>6, Zenon DEF FuncBody, DeclRhs, CmpRhs, DerefArg, RefArg, Attach, Writes, Resumes, Running
<1>7. CASE Decl \/ DeclType \/ DeclEq
  BY <1>7, Zenon DEF Decl, DeclType, DeclEq, CreateAssign, Writes, Reads, Sees, Running
<1>8. CASE Assignment \/ AssignRhs
  BY <1>8, Zenon DEF Assignment, AssignRhs, CreateAssign, HandOn, Writes, Reads, Resumes, Sees,
                     Running
<1>9. CASE LogicRest \/ CmpRest \/ FactorRest
  BY <1>9, Zenon DEF LogicRest, CmpRest, FactorRest, HandBack, Writes, Reads, Sees, Running
<1>10. CASE LogicRhs \/ FactorRhs \/ NotRhs
  BY <1>10, Zenon DEF LogicRhs, FactorRhs, NotRhs, Writes, Resumes, Running
<1>11. CASE TermFirst \/ TermLoop \/ TermRhs
  BY <1>11, Zenon DEF TermFirst, TermLoop, TermRhs, HandBack, Writes, Reads, Resumes, Sees, Running
<1>12. CASE Unary \/ Deref \/ Ref
  BY <1>12, Zenon DEF Unary, Deref, Ref, HandOn, Writes, Reads, Sees, Running
<1>13. CASE NegRhs BY <1>13, Zenon DEF NegRhs, Writes, Resumes, Running
<1>14. CASE Literal BY <1>14, Zenon DEF Literal, Writes, Sees, Running
<1> QED BY <1>1, <1>2, <1>3, <1>4, <1>5, <1>6, <1>7, <1>8, <1>9, <1>10, <1>11, <1>12, <1>13,
           <1>14 DEF Step

LEMMA FrontKept ==
  ASSUME NEW S, NEW s \in Seq(S), NEW R, NEW t \in Seq(R)
  PROVE  \A i \in DOMAIN s : i \in DOMAIN (s \o t) /\ (s \o t)[i] = s[i]
<1>1. /\ Len(s) \in Nat /\ DOMAIN s = 1 .. Len(s) /\ \A i \in 1 .. Len(s) : s[i] \in S
      /\ Len(t) \in Nat /\ DOMAIN t = 1 .. Len(t) /\ \A i \in 1 .. Len(t) : t[i] \in R
  BY LenProperties, ElementOfSeq
<1>2. s \in [1 .. Len(s) -> S \cup R] /\ t \in [1 .. Len(t) -> S \cup R]
  BY <1>1, LenProperties
<1>3. s \in Seq(S \cup R) /\ t \in Seq(S \cup R) BY <1>1, <1>2, SeqDef
<1>4. /\ s \o t \in Seq(S \cup R) /\ Len(s \o t) = Len(s) + Len(t)
      /\ \A i \in 1 .. Len(s) : (s \o t)[i] = s[i]
  BY <1>3, ConcatProperties
<1>5. DOMAIN (s \o t) = 1 .. Len(s) + Len(t) BY <1>4, LenProperties
<1> QED BY <1>1, <1>4, <1>5

LEMMA ChildrenKeep == IInv /\ TreeInv /\ [Next]_vars => ChildrenKept
<1> SUFFICES ASSUME IInv, TreeInv, [Next]_vars,
                    NEW i \in DOMAIN nodes, NEW k \in DOMAIN nodes[i].kids, nodes[i].kids[k] # 0
             PROVE  nodes[i].kids[k] \in DOMAIN nodes' /\ nodes'[nodes[i].kids[k]] = nodes[nodes[i].kids[k]]
  BY DEF ChildrenKept
<1> DEFINE c == nodes[i].kids[k]
<1>1. c \in DOMAIN nodes /\ c \notin Loose(stack, Pending) BY KidIn DEF TreeInv, TreeOf, Orphans
<1>2. nodes \in Seq(Node) /\ c # 0 BY DEF IInv, TypeOK
<1> HIDE DEF c
<1>3. CASE UNCHANGED nodes BY <1>1, <1>3 DEF c
<1>4. CASE Step
  <2>1. Writes /\ stack # <<>> BY <1>4, StepWrites
  <2>2. Own(Top) \subseteq Loose(stack, Pending) BY <2>1, HeadIsLoose DEF IInv, TypeOK, Top
  <2>3. c # Top.node BY <1>1, <1>2, <2>2 DEF Own
  <2>4. Top.at = "NegRhs" => c # Top.left BY <1>1, <1>2, <2>2 DEF Own
  <2>5. ASSUME NEW nd, Add(<<nd>>) PROVE c \in DOMAIN nodes' /\ nodes'[c] = nodes[c]
    <3>1. <<nd>> \in Seq({nd}) OBVIOUS
    <3> QED BY <1>1, <1>2, <2>5, <3>1, FrontKept DEF Add
  <2>6. ASSUME NEW nd, NEW md, Add(<<nd, md>>) PROVE c \in DOMAIN nodes' /\ nodes'[c] = nodes[c]
    <3>1. <<nd, md>> \in Seq({nd, md}) OBVIOUS
    <3> QED BY <1>1, <1>2, <2>6, <3>1, FrontKept DEF Add
  <2>7. ASSUME NEW nd, Update(nd) PROVE c \in DOMAIN nodes' /\ nodes'[c] = nodes[c]
    BY <1>1, <2>3, <2>7 DEF Update
  <2>8. ASSUME NEW nd, NEW md, Top.at = "NegRhs",
               nodes' = [nodes EXCEPT ![Top.node] = nd, ![Top.left] = md]
        PROVE  c \in DOMAIN nodes' /\ nodes'[c] = nodes[c]
    BY <1>1, <2>3, <2>4, <2>8
  <2> QED BY <1>3, <2>1, <2>5, <2>6, <2>7, <2>8 DEF Writes, c
<1>5. Failure \/ Accept \/ UNCHANGED vars => UNCHANGED nodes
  BY DEF Failure, NotAParameter, Undeclared, TwoPointers, Negative, OperandFails, LiteralFails,
         RunOff, ExpectFails, MatchFails, AssertFails, Accept, Stop, StopAt, vars
<1> QED BY <1>3, <1>4, <1>5 DEF Next

(* Whatever is parsed later, no step writes to a node that has its parent: *)
(* the copy a block keeps of a statement, and what an operator read of its *)
(* left operand, never go stale.                                           *)
THEOREM ChildrenAreFinal == Spec => ChildrenStay
<1>1. IInv /\ TreeInv /\ [Next]_vars => ChildrenKept BY ChildrenKeep
<1> QED BY <1>1, TreeStands, PTL DEF Spec, ChildrenStay

=============================================================================
