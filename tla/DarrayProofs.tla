---------------------------- MODULE DarrayProofs ----------------------------
(***************************************************************************)
(* Proofs about the dynamic arrays, for every set of arrays, every size of *)
(* the memory and every order in which memcpy() may copy: what the memory  *)
(* always satisfies, and that the arrays in it implement sequences of      *)
(* bytes.                                                                  *)
(***************************************************************************)
EXTENDS Darray, SequenceTheorems, TLAPS

AnyByte == Byte \cup {Junk, NodeByte, Nul}
Memory == [1 .. MemSize -> AnyByte]

(* What TypeOK, BlocksApart, CountsFit and NodesKept need to be inductive: *)
(* an array that is not initialised is NoStruct, only malloc() returns     *)
(* NULL, nodes lie in the part of the arena that is given out, and a call  *)
(* works on arrays that are initialised.                                   *)
Kept ==
  /\ \A a \in Array : ~Made(a) => da[a] = NoStruct
  /\ Allocator = "ARENA" => \A a \in Array : Made(a) => da[a].src # 0
  /\ Allocator = "DUMB" => nodes = {}
  /\ \A n \in nodes : NodeExtent(n) \subseteq 1 .. offset
  /\ job # NoJob => /\ Made(job.to)
                    /\ job.base <= da[job.to].count
                    /\ job.op = "concat" => Made(job.from)
                    /\ job.op # "reserve" => job.data \in Seq(Byte)

IInv == TypeOK /\ BlocksApart /\ CountsFit /\ NodesKept /\ Kept

-----------------------------------------------------------------------------
(* Memory.                                                                 *)

LEMMA JobType == TypeOK /\ job # NoJob => job \in Job
BY DEF TypeOK

(* A block that an allocator gives out belongs to nobody.                  *)
LEMMA NewBlock ==
  ASSUME IInv, NEW amount \in Nat \ {0}, NEW p \in Blocks(amount), p # 0
  PROVE  /\ p \in Nat /\ p + amount - 1 <= MemSize
         /\ \A a \in Array : (p .. p + amount - 1) \cap Extent(a) = {}
         /\ \A n \in nodes : (p .. p + amount - 1) \cap NodeExtent(n) = {}
         /\ Allocator = "ARENA" => p = offset + 1 /\ offset + amount <= MemSize
<1>1. offset \in Nat /\ MemSize \in Nat BY SizeAssumption DEF IInv, TypeOK
<1>2. CASE Allocator = "ARENA"
  <2>1. p = offset + 1 /\ offset + amount <= MemSize
    BY <1>1, <1>2 DEF Blocks, ArenaBlocks
  <2>2. \A a \in Array : Extent(a) \subseteq 1 .. offset BY <1>2 DEF IInv, BlocksApart
  <2>3. \A n \in nodes : NodeExtent(n) \subseteq 1 .. offset BY DEF IInv, Kept
  <2>4. \A i \in p .. p + amount - 1 : i \notin 1 .. offset BY <1>1, <2>1
  <2> QED BY <1>1, <2>1, <2>2, <2>3, <2>4
<1>3. CASE Allocator = "DUMB"
  <2>1. p \in HeapBlocks(amount) BY <1>3 DEF Blocks
  <2>2. /\ p \in 1 .. MemSize + 1 - amount
        /\ \A a \in Array : (p .. p + amount - 1) \cap Extent(a) = {}
    BY <2>1 DEF HeapBlocks
  <2>3. nodes = {} BY <1>3 DEF IInv, Kept
  <2> QED BY <1>1, <1>3, <2>2, <2>3
<1> QED BY <1>2, <1>3, AllocatorAssumption

(* Memory is bytes, whatever is written to it or moved in it.              *)
LEMMA WriteType ==
  ASSUME mem \in Memory, NEW at, NEW s, at \in Nat,
         s \in Seq(AnyByte)
  PROVE  Write(at, s) \in Memory
<1>1. ASSUME NEW p \in 1 .. MemSize, p \in at .. at + Len(s) - 1
      PROVE  s[p - at + 1] \in AnyByte
  <2>1. Len(s) \in Nat /\ MemSize \in Nat BY LenProperties, SizeAssumption
  <2>2. p - at + 1 \in 1 .. Len(s) BY <1>1, <2>1
  <2> QED BY <2>2, ElementOfSeq
<1> QED BY <1>1 DEF Write, Memory

LEMMA CopyType ==
  ASSUME mem \in Memory, NEW to \in Nat, NEW from \in Nat \ {0}, NEW n \in Nat,
         from + n - 1 <= MemSize
  PROVE  Copy(to, from, n) \in Memory
<1>1. MemSize \in Nat BY SizeAssumption
<1>2. ASSUME NEW p \in 1 .. MemSize, p \in to .. to + n - 1
      PROVE  from + p - to \in 1 .. MemSize
  BY <1>1, <1>2
<1> QED BY <1>2 DEF Copy, Memory

LEMMA Multiple ==
  ASSUME NEW s \in Nat \ {0}, NEW m \in Nat
  PROVE  s * (m \div s) \in 0 .. m
OBVIOUS

LEMMA SmearType ==
  ASSUME mem \in Memory, NEW to \in Nat, NEW from \in Nat \ {0}, NEW n \in Nat,
         to < from, from + n - 1 <= MemSize
  PROVE  Smear(to, from, n) \in Memory
<1> DEFINE s == from - to
           q(p) == s * ((n - 1 - (p - to)) \div s)
<1>1. MemSize \in Nat BY SizeAssumption
<1>2. ASSUME NEW p \in 1 .. MemSize, p \in to .. to + n - 1
      PROVE  from + (p - to) + q(p) \in 1 .. MemSize
  <2>1. s \in Nat \ {0} /\ n - 1 - (p - to) \in Nat BY <1>1, <1>2
  <2>2. q(p) \in 0 .. n - 1 - (p - to) BY <2>1, Multiple
  <2> HIDE DEF q, s
  <2> QED BY <1>1, <1>2, <2>2
<1> QED BY <1>2 DEF Smear, Memory

LEMMA FreedType ==
  ASSUME NEW m \in Memory, NEW a
  PROVE  Freed(m, a) \in Memory
BY DEF Freed, Memory, AnyByte

-----------------------------------------------------------------------------
(* The actions.                                                            *)

LEMMA InitSound == Init => IInv
<1> SUFFICES ASSUME Init PROVE IInv OBVIOUS
<1>0. MemSize \in Nat BY SizeAssumption
<1>1. TypeOK BY <1>0 DEF Init, TypeOK, NoStruct, Struct, AnyByte
<1>2. BlocksApart BY DEF Init, BlocksApart, NoStruct, Extent
<1>3. CountsFit BY DEF Init, CountsFit, NoStruct
<1>4. NodesKept /\ Kept BY DEF Init, NodesKept, Kept, NoStruct, Made
<1> QED BY <1>1, <1>2, <1>3, <1>4 DEF IInv

(* Nothing but the call under way, or how the process fares, changes.      *)
LEMMA CallSound ==
  ASSUME IInv, UNCHANGED <<mem, offset, da, nodes>>,
         status' \in {"running", "aborted", "segv"},
         \/ job' = NoJob \/ job' = job
         \/ /\ job' \in Job /\ Made(job'.to) /\ job'.base <= da[job'.to].count
            /\ job'.op = "concat" => Made(job'.from)
            /\ job'.op # "reserve" => job'.data \in Seq(Byte)
  PROVE  IInv'
<1>1. TypeOK' BY DEF IInv, TypeOK
<1>2. BlocksApart' BY DEF IInv, BlocksApart, Extent, NodeExtent
<1>3. CountsFit' /\ NodesKept' BY DEF IInv, CountsFit, NodesKept, NodeExtent
<1>4. Kept'
  <2>1. /\ \A a \in Array : ~Made(a) => da[a] = NoStruct
        /\ Allocator = "ARENA" => \A a \in Array : Made(a) => da[a].src # 0
        /\ Allocator = "DUMB" => nodes = {}
        /\ \A n \in nodes : NodeExtent(n) \subseteq 1 .. offset
    BY DEF IInv, Kept
  <2>2. job' # NoJob => /\ Made(job'.to)
                        /\ job'.base <= da[job'.to].count
                        /\ job'.op = "concat" => Made(job'.from)
                        /\ job'.op # "reserve" => job'.data \in Seq(Byte)
    BY DEF IInv, Kept
  <2> QED BY <2>1, <2>2 DEF Kept, Made, NodeExtent
<1> QED BY <1>1, <1>2, <1>3, <1>4 DEF IInv

(* An array gets a block of nobody.                                        *)
LEMMA BlockSound ==
  ASSUME IInv, NEW a \in Array, NEW amount \in Nat \ {0},
         NEW p \in Blocks(amount), NEW c \in 0 .. amount,
         da' = [da EXCEPT ![a] = [src |-> p, capacity |-> amount, count |-> c]],
         Taken(amount), UNCHANGED <<nodes, status>>,
         p # 0 \/ Allocator = "DUMB",
         mem' \in Memory, \A n \in nodes : \A q \in NodeExtent(n) : mem'[q] = mem[q],
         job' = job \/ job' \in Job,
         job' # NoJob => /\ da'[job'.to].capacity # 0 /\ job'.base <= da'[job'.to].count
                         /\ job'.op = "concat" => da'[job'.from].capacity # 0
                         /\ job'.op # "reserve" => job'.data \in Seq(Byte)
  PROVE  IInv'
<1>0. MemSize \in Nat /\ offset \in Nat /\ p \in Nat /\ c \in Nat
  BY SizeAssumption DEF IInv, TypeOK, Blocks, ArenaBlocks, HeapBlocks
<1>1. da'[a] = [src |-> p, capacity |-> amount, count |-> c]
      /\ \A b \in Array \ {a} : da'[b] = da[b]
  BY DEF IInv, TypeOK
<1>2. /\ p # 0 => p + amount - 1 <= MemSize
      /\ p # 0 => \A b \in Array : (p .. p + amount - 1) \cap Extent(b) = {}
      /\ p # 0 => \A n \in nodes : (p .. p + amount - 1) \cap NodeExtent(n) = {}
      /\ p # 0 /\ Allocator = "ARENA" => p = offset + 1 /\ offset + amount <= MemSize
  BY NewBlock
<1>3. /\ offset' \in Nat /\ offset <= offset' /\ offset' <= MemSize
      /\ Allocator = "ARENA" => offset' = offset + amount
  BY <1>0, <1>2, AllocatorAssumption DEF Taken, IInv, TypeOK
<1>4. /\ Extent(a)' = IF p = 0 THEN {} ELSE p .. p + amount - 1
      /\ \A b \in Array \ {a} : Extent(b)' = Extent(b)
  BY <1>1 DEF Extent
<1>5. TypeOK'
  <2>1. da' \in [Array -> Struct]
    <3>1. da'[a] \in Struct BY <1>0, <1>1 DEF Struct
    <3> QED BY <3>1, <1>0 DEF IInv, TypeOK, Struct
  <2>2. \A b \in Array : da'[b].src # 0 => da'[b].src + da'[b].capacity <= MemSize + 1
    <3>1. da'[a].src # 0 => da'[a].src + da'[a].capacity <= MemSize + 1
      BY <1>0, <1>1, <1>2
    <3> QED BY <3>1, <1>1 DEF IInv, TypeOK
  <2>3. mem' \in [1 .. MemSize -> Byte \cup {Junk, NodeByte, Nul}] BY DEF Memory, AnyByte
  <2>4. job' \in Job \cup {NoJob} BY DEF IInv, TypeOK
  <2> QED BY <1>0, <1>3, <2>1, <2>2, <2>3, <2>4 DEF IInv, TypeOK
<1>6. BlocksApart'
  <2>1. \A b, d \in Array : b # d => Extent(b)' \cap Extent(d)' = {}
    <3>1. \A b \in Array \ {a} : Extent(a)' \cap Extent(b)' = {} BY <1>2, <1>4
    <3>2. \A b, d \in Array \ {a} : b # d => Extent(b)' \cap Extent(d)' = {}
      BY <1>4 DEF IInv, BlocksApart
    <3> QED BY <3>1, <3>2, Zenon
  <2>2. \A b \in Array, n \in nodes : Extent(b)' \cap NodeExtent(n) = {}
    BY <1>2, <1>4 DEF IInv, BlocksApart
  <2>3. Allocator = "ARENA" => \A b \in Array : Extent(b)' \subseteq 1 .. offset'
    <3> SUFFICES ASSUME Allocator = "ARENA", NEW b \in Array
                 PROVE  Extent(b)' \subseteq 1 .. offset'
      OBVIOUS
    <3>1. CASE b = a BY <1>0, <1>2, <1>3, <1>4, <3>1
    <3>2. CASE b # a
      <4>1. Extent(b)' = Extent(b) /\ Extent(b) \subseteq 1 .. offset
        BY <1>4, <3>2 DEF IInv, BlocksApart
      <4> QED BY <1>0, <1>3, <4>1
    <3> QED BY <3>1, <3>2
  <2>4. \A n1, n2 \in nodes : n1 # n2 => NodeExtent(n1) \cap NodeExtent(n2) = {}
    BY DEF IInv, BlocksApart
  <2> QED BY <2>1, <2>2, <2>3, <2>4 DEF BlocksApart, NodeExtent
<1>7. CountsFit' BY <1>0, <1>1 DEF IInv, CountsFit
<1>8. NodesKept' BY DEF IInv, NodesKept, NodeExtent
<1>9. Kept'
  <2>1. Made(a)' /\ \A b \in Array \ {a} : Made(b)' = Made(b) BY <1>1 DEF Made
  <2>2. \A b \in Array : ~Made(b)' => da'[b] = NoStruct
    BY <1>1, <2>1 DEF IInv, Kept
  <2>3. Allocator = "ARENA" => \A b \in Array : Made(b)' => da'[b].src # 0
    BY <1>1, <2>1, AllocatorAssumption DEF IInv, Kept
  <2>4. \A n \in nodes : NodeExtent(n) \subseteq 1 .. offset'
    <3>1. 1 .. offset \subseteq 1 .. offset' BY <1>0, <1>3
    <3> QED BY <3>1 DEF IInv, Kept
  <2>5. Allocator = "DUMB" => nodes = {} BY DEF IInv, Kept
  <2>6. job' # NoJob => /\ da'[job'.to].capacity # 0 /\ job'.base <= da'[job'.to].count
                        /\ job'.op = "concat" => da'[job'.from].capacity # 0
                        /\ job'.op # "reserve" => job'.data \in Seq(Byte)
    OBVIOUS
  <2> QED BY <2>2, <2>3, <2>4, <2>5, <2>6 DEF Kept, NodeExtent, Made
<1> QED BY <1>5, <1>6, <1>7, <1>8, <1>9 DEF IInv

(* An array stays where it is and uses more or fewer bytes of its block.   *)
LEMMA CountSound ==
  ASSUME IInv, NEW a \in Array, Made(a), NEW c \in 0 .. da[a].capacity,
         da' = [da EXCEPT ![a].count = c],
         UNCHANGED <<offset, nodes, status>>,
         mem' \in Memory, \A n \in nodes : \A q \in NodeExtent(n) : mem'[q] = mem[q],
         job' = NoJob \/ job' \in Job,
         job' # NoJob => /\ da'[job'.to].capacity # 0 /\ job'.base <= da'[job'.to].count
                         /\ job'.op = "concat" => da'[job'.from].capacity # 0
                         /\ job'.op # "reserve" => job'.data \in Seq(Byte)
  PROVE  IInv'
<1>0. MemSize \in Nat /\ da[a] \in Struct /\ c \in Nat
  BY SizeAssumption DEF IInv, TypeOK, Struct
<1>1. /\ da'[a] = [da[a] EXCEPT !.count = c]
      /\ \A b \in Array \ {a} : da'[b] = da[b]
      /\ da' \in [Array -> Struct]
  BY <1>0 DEF IInv, TypeOK, Struct
<1>2. \A b \in Array : da'[b].src = da[b].src /\ da'[b].capacity = da[b].capacity
  BY <1>0, <1>1 DEF Struct
<1>3. \A b \in Array : Extent(b)' = Extent(b) BY <1>2 DEF Extent
<1>4. TypeOK'
  <2>1. mem' \in [1 .. MemSize -> Byte \cup {Junk, NodeByte, Nul}] BY DEF Memory, AnyByte
  <2> QED BY <1>1, <1>2, <2>1 DEF IInv, TypeOK
<1>5. BlocksApart' BY <1>3 DEF IInv, BlocksApart, NodeExtent
<1>6. CountsFit' BY <1>0, <1>1 DEF IInv, CountsFit, Struct
<1>7. NodesKept' BY DEF IInv, NodesKept, NodeExtent
<1>8. Kept'
  <2>1. \A b \in Array : da'[b].capacity = 0 => da'[b] = NoStruct
    BY <1>1, <1>2 DEF IInv, Kept, Made
  <2>2. Allocator = "ARENA" => \A b \in Array : da'[b].capacity # 0 => da'[b].src # 0
    BY <1>2 DEF IInv, Kept, Made
  <2>3. /\ Allocator = "DUMB" => nodes = {}
        /\ \A n \in nodes : NodeExtent(n) \subseteq 1 .. offset
    BY DEF IInv, Kept
  <2>4. job' # NoJob => /\ da'[job'.to].capacity # 0 /\ job'.base <= da'[job'.to].count
                        /\ job'.op = "concat" => da'[job'.from].capacity # 0
                        /\ job'.op # "reserve" => job'.data \in Seq(Byte)
    OBVIOUS
  <2> QED BY <2>1, <2>2, <2>3, <2>4 DEF Kept, NodeExtent, Made
<1> QED BY <1>4, <1>5, <1>6, <1>7, <1>8 DEF IInv

-----------------------------------------------------------------------------
(* The calls.                                                              *)

LEMMA BeginSound ==
  ASSUME IInv, Idle, NEW a \in Array, ~Made(a), Begin(a),
         \/ job' = job
         \/ /\ job' \in Job /\ job'.to = a /\ job'.from = a /\ job'.base = 0
            /\ job'.data \in Seq(Byte)
  PROVE  IInv'
<1>1. PICK p \in Blocks(8) :
        /\ da' = [da EXCEPT ![a] = [src |-> p, capacity |-> 8, count |-> 0]]
        /\ Taken(8)
        /\ UNCHANGED <<mem, nodes, status>>
  BY DEF Begin
<1>2. da'[a].capacity = 8 /\ da'[a].count = 0 BY <1>1 DEF IInv, TypeOK
<1>3. p # 0 \/ Allocator = "DUMB"
  BY AllocatorAssumption DEF IInv, TypeOK, Blocks, ArenaBlocks
<1>4. mem' \in Memory BY <1>1 DEF IInv, TypeOK, Memory, AnyByte
<1>5. job' = job \/ job' \in Job OBVIOUS
<1>6. job' # NoJob => /\ da'[job'.to].capacity # 0 /\ job'.base <= da'[job'.to].count
                      /\ job'.op = "concat" => da'[job'.from].capacity # 0
                      /\ job'.op # "reserve" => job'.data \in Seq(Byte)
  BY <1>2 DEF Idle
<1>7. \A n \in nodes : \A q \in NodeExtent(n) : mem'[q] = mem[q] BY <1>1
<1>8. 8 \in Nat \ {0} /\ 0 \in 0 .. 8 /\ UNCHANGED <<nodes, status>> BY <1>1
<1> QED BY <1>1, <1>3, <1>4, <1>5, <1>6, <1>7, <1>8, BlockSound, Zenon

LEMMA NodeSound == ASSUME IInv, CreateNode PROVE IInv'
<1>1. PICK p \in Blocks(NodeSize) :
        /\ nodes' = nodes \cup {p}
        /\ mem' = Write(p, [i \in 1 .. NodeSize |-> NodeByte])
  BY DEF CreateNode
<1> DEFINE s == [i \in 1 .. NodeSize |-> NodeByte]
<1>2. /\ MemSize \in Nat /\ NodeSize \in Nat \ {0} /\ offset \in Nat
      /\ Allocator = "ARENA" /\ offset' = offset + NodeSize
      /\ UNCHANGED <<da, job, status>>
  BY SizeAssumption DEF CreateNode, IInv, TypeOK, Taken
<1>3. p # 0 BY <1>2 DEF Blocks, ArenaBlocks
<1>4. /\ p = offset + 1 /\ offset + NodeSize <= MemSize
      /\ \A a \in Array : (p .. p + NodeSize - 1) \cap Extent(a) = {}
      /\ \A n \in nodes : (p .. p + NodeSize - 1) \cap NodeExtent(n) = {}
  BY <1>2, <1>3, NewBlock
<1>5. NodeExtent(p) = p .. p + NodeSize - 1 BY DEF NodeExtent
<1>6. s \in Seq(AnyByte) /\ Len(s) = NodeSize BY <1>2 DEF AnyByte
<1>7. mem' \in Memory /\ mem \in Memory
  BY <1>1, <1>2, <1>4, <1>6, WriteType DEF IInv, TypeOK, Memory, AnyByte
<1>8. \A q \in 1 .. MemSize : mem'[q] = IF q \in NodeExtent(p) THEN NodeByte ELSE mem[q]
  <2>1. \A q \in NodeExtent(p) : s[q - p + 1] = NodeByte BY <1>2, <1>4, <1>5
  <2> QED BY <1>1, <1>5, <1>6, <2>1 DEF Write
<1>9. /\ \A a \in Array : Extent(a)' = Extent(a)
      /\ \A n : NodeExtent(n)' = NodeExtent(n)
  BY <1>2 DEF Extent, NodeExtent
<1>10. TypeOK'
  <2>1. \A n \in nodes' : n \in Nat \ {0} /\ n + NodeSize <= MemSize + 1
    BY <1>1, <1>2, <1>4 DEF IInv, TypeOK
  <2>2. offset' \in 0 .. MemSize BY <1>2, <1>4
  <2>3. mem' \in [1 .. MemSize -> Byte \cup {Junk, NodeByte, Nul}]
    BY <1>7 DEF Memory, AnyByte
  <2> QED BY <1>2, <2>1, <2>2, <2>3 DEF IInv, TypeOK
<1>11. BlocksApart'
  <2>1. Allocator = "ARENA" => \A a \in Array : Extent(a) \subseteq 1 .. offset'
    <3>1. 1 .. offset \subseteq 1 .. offset' BY <1>2
    <3> QED BY <3>1 DEF IInv, BlocksApart
  <2>2. \A a \in Array, n \in nodes' : Extent(a) \cap NodeExtent(n) = {}
    BY <1>1, <1>4, <1>5 DEF IInv, BlocksApart
  <2>3. \A n1, n2 \in nodes' : n1 # n2 => NodeExtent(n1) \cap NodeExtent(n2) = {}
    <3>1. \A n \in nodes : NodeExtent(p) \cap NodeExtent(n) = {} BY <1>4, <1>5
    <3>2. \A n1, n2 \in nodes : n1 # n2 => NodeExtent(n1) \cap NodeExtent(n2) = {}
      BY DEF IInv, BlocksApart
    <3> QED BY <1>1, <3>1, <3>2
  <2>4. \A a, b \in Array : a # b => Extent(a) \cap Extent(b) = {}
    BY DEF IInv, BlocksApart
  <2> QED BY <1>9, <2>1, <2>2, <2>3, <2>4 DEF BlocksApart
<1>12. CountsFit' BY <1>2 DEF IInv, CountsFit
<1>13. NodesKept'
  <2>1. \A n \in nodes' : NodeExtent(n) \subseteq 1 .. MemSize
    <3>1. NodeExtent(p) \subseteq 1 .. MemSize BY <1>2, <1>4, <1>5
    <3>2. \A n \in nodes : NodeExtent(n) \subseteq 1 .. MemSize
      BY <1>2 DEF IInv, TypeOK, NodeExtent
    <3> QED BY <1>1, <3>1, <3>2
  <2>2. \A n \in nodes : \A q \in NodeExtent(n) : mem[q] = NodeByte
    BY DEF IInv, NodesKept
  <2>3. \A n \in nodes' : \A q \in NodeExtent(n) : mem'[q] = NodeByte
    BY <1>1, <1>8, <2>1, <2>2
  <2> QED BY <1>9, <2>3 DEF NodesKept
<1>14. Kept'
  <2>1. \A n \in nodes' : NodeExtent(n) \subseteq 1 .. offset'
    <3>1. NodeExtent(p) \subseteq 1 .. offset' BY <1>2, <1>4, <1>5
    <3>2. 1 .. offset \subseteq 1 .. offset' BY <1>2
    <3>3. \A n \in nodes : NodeExtent(n) \subseteq 1 .. offset BY DEF IInv, Kept
    <3> QED BY <1>1, <3>1, <3>2, <3>3
  <2>2. Allocator # "DUMB" BY <1>2
  <2>3. /\ \A a \in Array : da[a].capacity = 0 => da[a] = NoStruct
        /\ \A a \in Array : da[a].capacity # 0 => da[a].src # 0
        /\ job # NoJob => /\ da[job.to].capacity # 0 /\ job.base <= da[job.to].count
                          /\ job.op = "concat" => da[job.from].capacity # 0
                          /\ job.op # "reserve" => job.data \in Seq(Byte)
    BY <1>2 DEF IInv, Kept, Made
  <2> QED BY <1>2, <1>9, <2>1, <2>2, <2>3 DEF Kept, Made
<1> QED BY <1>10, <1>11, <1>12, <1>13, <1>14 DEF IInv

LEMMA FreeSound == ASSUME IInv, FreeDarray PROVE IInv'
<1>1. PICK a \in Array : /\ Made(a)
                         /\ da' = [da EXCEPT ![a] = NoStruct]
                         /\ mem' = Freed(mem, a)
  BY DEF FreeDarray
<1>2. /\ Allocator = "DUMB" /\ job = NoJob
      /\ UNCHANGED <<offset, nodes, job, status>>
  BY DEF FreeDarray, Idle
<1>3. nodes = {} BY <1>2 DEF IInv, Kept
<1>4. da'[a] = NoStruct /\ \A b \in Array \ {a} : da'[b] = da[b]
  BY <1>1 DEF IInv, TypeOK
<1>5. Extent(a)' = {} /\ \A b \in Array \ {a} : Extent(b)' = Extent(b)
  BY <1>4 DEF Extent, NoStruct
<1>6. TypeOK'
  <2>1. mem' \in [1 .. MemSize -> Byte \cup {Junk, NodeByte, Nul}]
    BY <1>1, FreedType DEF IInv, TypeOK, Memory, AnyByte
  <2>2. da' \in [Array -> Struct] BY <1>1 DEF IInv, TypeOK, NoStruct, Struct
  <2>3. \A b \in Array : da'[b].src # 0 => da'[b].src + da'[b].capacity <= MemSize + 1
    BY <1>4 DEF IInv, TypeOK, NoStruct
  <2> QED BY <1>2, <2>1, <2>2, <2>3 DEF IInv, TypeOK
<1>7. BlocksApart'
  <2>1. \A b, d \in Array : b # d => Extent(b)' \cap Extent(d)' = {}
    BY <1>5 DEF IInv, BlocksApart
  <2> QED BY <1>2, <1>3, <2>1, AllocatorAssumption DEF BlocksApart
<1>8. CountsFit' BY <1>4 DEF IInv, CountsFit, NoStruct
<1>9. NodesKept' BY <1>2, <1>3 DEF NodesKept
<1>10. Kept'
  <2>1. \A b \in Array : da'[b].capacity = 0 => da'[b] = NoStruct
    BY <1>4 DEF IInv, Kept, Made
  <2> QED BY <1>2, <1>3, <2>1 DEF Kept, Made
<1> QED BY <1>6, <1>7, <1>8, <1>9, <1>10 DEF IInv

(* Bytes of fewer kinds are bytes of more.                                *)
LEMMA SeqOfMore ==
  ASSUME NEW S, NEW T, S \subseteq T
  PROVE  Seq(S) \subseteq Seq(T)
BY SeqDef

Adds == {"push", "fill", "reserve", "concat"}

(* What is recorded of a call that adds bytes.                             *)
LEMMA NewJobSound ==
  ASSUME IInv, Starts, NEW a \in Array, NEW b \in Array, Made(a), Made(b),
         NEW op \in Adds, NEW data,
         data \in Seq(Byte) \/ (op = "reserve" /\ data \in Seq({Junk})),
         NewJob(op, a, b, data)
  PROVE  IInv'
<1>1. job' = [op |-> op, to |-> a, from |-> b, data |-> data,
              base |-> da[a].count, done |-> 0]
  BY DEF Starts, NewJob
<1>2. da[a].count \in Nat BY DEF IInv, TypeOK, Struct
<1>3. data \in Seq(Byte \cup {Junk})
  <2>1. Seq(Byte) \subseteq Seq(Byte \cup {Junk}) /\ Seq({Junk}) \subseteq Seq(Byte \cup {Junk})
    BY Zenon, SeqOfMore
  <2> QED BY <2>1
<1>4. job' \in Job BY <1>1, <1>2, <1>3 DEF Job, Adds
<1>5. job'.to = a /\ job'.from = b /\ job'.base = da[a].count /\ job'.op = op /\ job'.data = data
  BY <1>1
<1>6. UNCHANGED <<mem, offset, da, nodes, status>> /\ status' = "running"
  BY DEF Starts, Idle
<1> QED BY <1>2, <1>4, <1>5, <1>6, CallSound

LEMMA CallsSound ==
  ASSUME IInv, Push \/ PushReplicatedByte \/ Reserve \/ PushDarray
  PROVE  IInv'
<1>0. "push" \in Adds /\ "fill" \in Adds /\ "reserve" \in Adds /\ "concat" \in Adds
  BY DEF Adds
<1>1. CASE Push
  <2>1. PICK a \in Array, data \in Payload : Starts /\ Made(a) /\ NewJob("push", a, a, data)
    BY <1>1 DEF Push
  <2>2. data \in Seq(Byte) BY <2>1, PayloadAssumption
  <2> QED BY <1>0, <2>1, <2>2, NewJobSound, Zenon
<1>2. CASE PushReplicatedByte
  <2>1. PICK a \in Array, b \in Byte, n \in Reserved :
          Starts /\ Made(a) /\ NewJob("fill", a, a, [i \in 1 .. n |-> b])
    BY <1>2 DEF PushReplicatedByte
  <2>2. [i \in 1 .. n |-> b] \in Seq(Byte) BY SizeAssumption
  <2> QED BY <1>0, <2>1, <2>2, NewJobSound, Zenon
<1>3. CASE Reserve
  <2>1. PICK a \in Array, n \in Reserved :
          Starts /\ Made(a) /\ NewJob("reserve", a, a, [i \in 1 .. n |-> Junk])
    BY <1>3 DEF Reserve
  <2>2. [i \in 1 .. n |-> Junk] \in Seq({Junk}) BY SizeAssumption
  <2> QED BY <1>0, <2>1, <2>2, NewJobSound, Zenon
<1>4. CASE PushDarray
  <2>1. PICK a, b \in Array : Starts /\ Made(a) /\ Made(b) /\ NewJob("concat", a, b, <<>>)
    BY <1>4 DEF PushDarray
  <2>2. <<>> \in Seq(Byte) OBVIOUS
  <2> QED BY <1>0, <2>1, <2>2, NewJobSound, Zenon
<1> QED BY <1>1, <1>2, <1>3, <1>4

LEMMA StringSound == ASSUME IInv, StringInitFrom PROVE IInv'
<1>1. PICK a \in Array, data \in Payload :
        Idle /\ ~Made(a) /\ Begin(a) /\ NewJob("string", a, a, data)
  BY DEF StringInitFrom
<1>2. da'[a].count = 0 BY <1>1 DEF Begin, IInv, TypeOK
<1>3. data \in Seq(Byte) /\ data \in Seq(Byte \cup {Junk})
  BY PayloadAssumption, SeqOfMore, Zenon
<1>4. job' = [op |-> "string", to |-> a, from |-> a, data |-> data, base |-> 0, done |-> 0]
  BY <1>1, <1>2 DEF NewJob
<1>5. job' \in Job BY <1>3, <1>4 DEF Job
<1>6. job'.to = a /\ job'.from = a /\ job'.base = 0 /\ job'.data = data BY <1>4
<1> QED BY <1>1, <1>3, <1>5, <1>6, BeginSound

-----------------------------------------------------------------------------
(* The loop of a call that adds bytes.                                     *)

LEMMA ArrayFacts ==
  ASSUME IInv, NEW a \in Array
  PROVE  /\ da[a] \in Struct
         /\ da[a].src \in Nat /\ da[a].capacity \in Nat
         /\ da[a].count \in 0 .. da[a].capacity
         /\ da[a].src # 0 => da[a].src + da[a].capacity <= MemSize + 1
         /\ da[a].src # 0 => Extent(a) = da[a].src .. da[a].src + da[a].capacity - 1
BY DEF IInv, TypeOK, CountsFit, Struct, Extent

LEMMA BusyFacts ==
  ASSUME IInv, Busy
  PROVE  /\ job \in Job /\ job.to \in Array /\ job.from \in Array
         /\ job.base \in Nat /\ job.done \in Nat
         /\ job.data \in Seq(Byte \cup {Junk})
         /\ Made(job.to) /\ job.base <= Dest.count
         /\ job.op = "concat" => Made(job.from)
         /\ job.op # "reserve" => job.data \in Seq(Byte)
         /\ Dest.capacity # 0
<1>1. job \in Job BY DEF IInv, TypeOK, Busy
<1>2. /\ job.to \in Array /\ job.from \in Array
      /\ job.base \in Nat /\ job.done \in Nat /\ job.data \in Seq(Byte \cup {Junk})
  BY <1>1 DEF Job
<1>4. /\ Made(job.to) /\ job.base <= da[job.to].count
      /\ job.op = "concat" => Made(job.from)
      /\ job.op # "reserve" => job.data \in Seq(Byte)
  BY DEF IInv, Kept, Busy
<1> QED BY <1>1, <1>2, <1>4 DEF Dest, Made

LEMMA ChunkType ==
  ASSUME IInv, Adding, Readable
  PROVE  Chunk \in Seq(AnyByte) /\ Len(Chunk) = Size
<1>1. Busy BY DEF Adding
<1>2. CASE job.op = "concat"
  <2>1. da[job.from].src # 0 BY <1>2 DEF Readable
  <2>2. Chunks = da[job.from].count BY <1>2 DEF Chunks
  <2>3. job.done < da[job.from].count BY <2>2 DEF Adding
  <2>4. da[job.from].src + job.done \in 1 .. MemSize
    <3>1. job.from \in Array /\ job.done \in Nat BY <1>1, BusyFacts
    <3>2. /\ da[job.from].src \in Nat /\ da[job.from].capacity \in Nat
          /\ da[job.from].count \in 0 .. da[job.from].capacity
          /\ da[job.from].src + da[job.from].capacity <= MemSize + 1
      BY <2>1, <3>1, ArrayFacts
    <3> QED BY <2>1, <2>3, <3>1, <3>2, SizeAssumption
  <2>5. mem[da[job.from].src + job.done] \in AnyByte BY <2>4 DEF IInv, TypeOK, AnyByte
  <2>6. Chunk = <<mem[da[job.from].src + job.done]>> /\ Size = 1
    BY <1>2 DEF Chunk, Size
  <2> QED BY <2>5, <2>6
<1>3. CASE job.op = "string" /\ job.done = 1
  <2>1. Chunk = <<Nul>> /\ Size = 1 BY <1>3 DEF Chunk, Size
  <2> QED BY <2>1 DEF AnyByte
<1>4. CASE job.op # "concat" /\ ~(job.op = "string" /\ job.done = 1)
  <2>1. Chunk = job.data BY <1>4, Zenon DEF Chunk
  <2>2. Size = Len(job.data) BY <1>4 DEF Size
  <2>3. Byte \cup {Junk} \subseteq AnyByte BY DEF AnyByte
  <2>4. job.data \in Seq(AnyByte) BY <1>1, <2>3, BusyFacts, SeqOfMore, Zenon
  <2> QED BY <2>1, <2>2, <2>4
<1> QED BY <1>2, <1>3, <1>4

LEMMA SizeOfChunk == ASSUME IInv, Busy PROVE Size \in Nat
BY BusyFacts, LenProperties DEF Size

LEMMA NextTurn ==
  ASSUME job \in Job, job' = [job EXCEPT !.done = @ + 1]
  PROVE  /\ job' \in Job /\ job'.done = job.done + 1
         /\ job'.to = job.to /\ job'.from = job.from /\ job'.base = job.base
         /\ job'.op = job.op /\ job'.data = job.data
<1>1. job.done \in Nat /\ job.done + 1 \in Nat BY DEF Job
<1>2. job' \in Job BY <1>1 DEF Job
<1>3. job'.done = job.done + 1 BY DEF Job
<1>4. job'.to = job.to /\ job'.from = job.from /\ job'.base = job.base BY DEF Job
<1>5. job'.op = job.op /\ job'.data = job.data BY DEF Job
<1> QED BY <1>2, <1>3, <1>4, <1>5

LEMMA AbortSound ==
  ASSUME IInv, NEW how \in {"aborted", "segv"}, Abort(how)
  PROVE  IInv'
<1>1. UNCHANGED <<mem, offset, da, nodes, job>> /\ status' = how BY DEF Abort
<1> QED BY <1>1, CallSound

LEMMA ReturnSound == ASSUME IInv, Return PROVE IInv'
<1>1. UNCHANGED <<mem, offset, da, nodes>> /\ job' = NoJob /\ status' = "running"
  BY DEF Return, Busy
<1> QED BY <1>1, CallSound

LEMMA GrowSound == ASSUME IInv, Grow PROVE IInv'
<1> DEFINE a == job.to
<1>1. Busy /\ ~Room BY DEF Grow, Adding
<1>2. CASE \E p \in Blocks(Doubled) \ {0} :
             /\ Dest.src # 0
             /\ mem' = Moved(p)
             /\ da' = [da EXCEPT ![job.to] =
                        [src |-> p, capacity |-> Doubled, count |-> Dest.count]]
             /\ Taken(Doubled)
             /\ UNCHANGED <<nodes, job, status>>
  <2>1. PICK p \in Blocks(Doubled) \ {0} :
             /\ Dest.src # 0
             /\ mem' = Moved(p)
             /\ da' = [da EXCEPT ![a] =
                        [src |-> p, capacity |-> Doubled, count |-> Dest.count]]
             /\ Taken(Doubled)
             /\ UNCHANGED <<nodes, job, status>>
    BY <1>2
  <2>2. /\ a \in Array /\ da[a] \in Struct /\ da[a].capacity \in Nat \ {0}
        /\ da[a].src \in Nat \ {0} /\ da[a].count \in 0 .. da[a].capacity
        /\ da[a].src + da[a].capacity <= MemSize + 1
    <3>1. a \in Array /\ da[a].capacity # 0 /\ da[a].src # 0
      BY <1>1, <2>1, BusyFacts DEF Dest
    <3> HIDE DEF a
    <3> QED BY <3>1, ArrayFacts
  <2>3. Doubled \in Nat \ {0} /\ Doubled = 2 * da[a].capacity BY <2>2 DEF Doubled, Dest
  <2>4. da' = [da EXCEPT ![a] = [src |-> p, capacity |-> Doubled, count |-> da[a].count]]
    BY <2>1 DEF Dest
  <2>5. /\ p \in Nat /\ p + Doubled - 1 <= MemSize
        /\ \A n \in nodes : (p .. p + Doubled - 1) \cap NodeExtent(n) = {}
    BY <2>1, <2>3, NewBlock
  <2>6. MemSize \in Nat /\ mem \in Memory
    BY SizeAssumption DEF IInv, TypeOK, Memory, AnyByte
  <2>7. mem' = Freed(Copy(p, da[a].src, da[a].capacity), a) BY <2>1 DEF Moved, Dest
  <2>8. Copy(p, da[a].src, da[a].capacity) \in Memory
    BY <2>2, <2>5, <2>6, CopyType
  <2>9. mem' \in Memory BY <2>7, <2>8, FreedType
  <2>10. \A n \in nodes : \A q \in NodeExtent(n) : mem'[q] = mem[q]
    <3> SUFFICES ASSUME NEW n \in nodes, NEW q \in NodeExtent(n) PROVE mem'[q] = mem[q]
      OBVIOUS
    <3>1. Allocator # "DUMB" BY DEF IInv, Kept
    <3>2. q \in 1 .. MemSize BY <2>6, SizeAssumption DEF IInv, TypeOK, NodeExtent
    <3>3. q \notin p .. p + da[a].capacity - 1 BY <2>2, <2>3, <2>5
    <3> QED BY <2>7, <3>1, <3>2, <3>3 DEF Freed, Copy
  <2>11. /\ da'[a].capacity = Doubled /\ da'[a].count = da[a].count
         /\ \A b \in Array \ {a} : da'[b] = da[b]
    BY <2>2, <2>4 DEF IInv, TypeOK
  <2>12. job' # NoJob => /\ da'[job'.to].capacity # 0 /\ job'.base <= da'[job'.to].count
                         /\ job'.op = "concat" => da'[job'.from].capacity # 0
                         /\ job'.op # "reserve" => job'.data \in Seq(Byte)
    BY <1>1, <2>1, <2>3, <2>11, BusyFacts DEF Made, Dest
  <2>13. da[a].count \in 0 .. Doubled BY <2>2, <2>3
  <2>14. UNCHANGED <<nodes, status>> /\ job' = job /\ p \in Blocks(Doubled) /\ p # 0
    BY <2>1
  <2> HIDE DEF a
  <2> QED BY <2>1, <2>2, <2>3, <2>4, <2>9, <2>10, <2>12, <2>13, <2>14, BlockSound, Zenon
<1>3. CASE Abort("aborted") \/ Abort("segv") BY <1>3, AbortSound
<1> QED BY <1>2, <1>3 DEF Grow

LEMMA StoreSound == ASSUME IInv, Store PROVE IInv'
<1> DEFINE a == job.to
           n == IF job.op = "fill" THEN 0 ELSE Len(Chunk)
<1>1. /\ Busy /\ Adding /\ Room /\ Readable /\ Dest.src # 0
      /\ mem' = IF job.op = "reserve" THEN mem ELSE Write(Dest.src + Dest.count, Chunk)
      /\ da' = [da EXCEPT ![a].count = @ + n]
      /\ job' = [job EXCEPT !.done = @ + 1]
      /\ UNCHANGED <<offset, nodes, status>>
  BY DEF Store, Adding, Add
<1>2. /\ a \in Array /\ Made(a) /\ job \in Job
      /\ da[a].capacity \in Nat \ {0} /\ da[a].src \in Nat \ {0}
      /\ da[a].count \in 0 .. da[a].capacity
      /\ da[a].src + da[a].capacity <= MemSize + 1
  <2>1. a \in Array /\ Made(a) /\ job \in Job /\ da[a].capacity # 0 /\ da[a].src # 0
    BY <1>1, BusyFacts DEF Dest
  <2> HIDE DEF a
  <2> QED BY <2>1, ArrayFacts
<1>3. Size \in Nat /\ Chunk \in Seq(AnyByte) /\ Len(Chunk) = Size
  BY <1>1, ChunkType, SizeOfChunk
<1>4. n \in Nat /\ da[a].count + n \in 0 .. da[a].capacity
  BY <1>1, <1>2, <1>3 DEF Room, Dest
<1>5. da' = [da EXCEPT ![a].count = da[a].count + n] BY <1>1, <1>2 DEF IInv, TypeOK
<1>6. MemSize \in Nat /\ mem \in Memory BY SizeAssumption DEF IInv, TypeOK, Memory, AnyByte
<1>7. mem' \in Memory BY <1>1, <1>2, <1>3, <1>6, WriteType DEF Dest
<1>8. \A m \in nodes : \A q \in NodeExtent(m) : mem'[q] = mem[q]
  <2> SUFFICES ASSUME NEW m \in nodes, NEW q \in NodeExtent(m) PROVE mem'[q] = mem[q]
    OBVIOUS
  <2>1. q \in 1 .. MemSize BY <1>6, SizeAssumption DEF IInv, TypeOK, NodeExtent
  <2>2. q \notin Extent(a) BY <1>2 DEF IInv, BlocksApart
  <2>3. Extent(a) = da[a].src .. da[a].src + da[a].capacity - 1 BY <1>2 DEF Extent
  <2>4. q \notin da[a].src + da[a].count .. da[a].src + da[a].count + Len(Chunk) - 1
    <3>1. da[a].count + Size <= da[a].capacity BY <1>1 DEF Room, Dest
    <3> HIDE DEF a
    <3> QED BY <1>2, <1>3, <2>1, <2>2, <2>3, <3>1, SMTT(30)
  <2> QED BY <1>1, <2>1, <2>4 DEF Write, Dest
<1>9. /\ job' \in Job /\ job'.to = a /\ job'.from = job.from /\ job'.base = job.base
      /\ job'.op = job.op /\ job'.data = job.data
  BY <1>1, <1>2, NextTurn
<1>10. /\ da'[a].count = da[a].count + n /\ da'[a].capacity = da[a].capacity
       /\ \A b \in Array \ {a} : da'[b] = da[b]
  BY <1>2, <1>5, <1>1, BusyFacts DEF IInv, TypeOK, Struct
<1>11. job' # NoJob => /\ da'[job'.to].capacity # 0 /\ job'.base <= da'[job'.to].count
                       /\ job'.op = "concat" => da'[job'.from].capacity # 0
                       /\ job'.op # "reserve" => job'.data \in Seq(Byte)
  BY <1>1, <1>2, <1>4, <1>9, <1>10, BusyFacts DEF Made, Dest
<1> HIDE DEF a, n
<1> QED BY <1>1, <1>2, <1>4, <1>5, <1>7, <1>8, <1>9, <1>11, CountSound, Zenon

LEMMA StoreNowhereSound == ASSUME IInv, StoreNowhere PROVE IInv'
<1> DEFINE a == job.to
<1>1. CASE Abort("segv") BY <1>1, AbortSound
<1>2. CASE /\ job.op = "reserve"
           /\ Add(Len(Chunk)) /\ job' = [job EXCEPT !.done = @ + 1]
           /\ UNCHANGED <<mem, offset, nodes, status>>
  <2>1. /\ Busy /\ Adding /\ Room BY DEF StoreNowhere, Adding
  <2>2. Readable BY <1>2 DEF Readable
  <2>3. a \in Array /\ Made(a) /\ job \in Job BY <2>1, BusyFacts
  <2>4. da[a].capacity \in Nat /\ da[a].count \in 0 .. da[a].capacity
    <3> HIDE DEF a
    <3> QED BY <2>3, ArrayFacts
  <2>5. Len(Chunk) = Size /\ Size \in Nat BY <2>1, <2>2, ChunkType, SizeOfChunk
  <2>6. da[a].count + Size \in 0 .. da[a].capacity BY <2>1, <2>4, <2>5 DEF Room, Dest
  <2>7. da' = [da EXCEPT ![a].count = da[a].count + Size]
    BY <1>2, <2>3, <2>5 DEF Add, IInv, TypeOK
  <2>8. mem' \in Memory /\ UNCHANGED mem BY <1>2 DEF IInv, TypeOK, Memory, AnyByte
  <2>9. /\ job' \in Job /\ job'.to = a /\ job'.from = job.from /\ job'.base = job.base
        /\ job'.op = job.op /\ job'.data = job.data
    BY <1>2, <2>3, NextTurn
  <2>10. /\ da'[a].count = da[a].count + Size /\ da'[a].capacity = da[a].capacity
    BY <2>3, <2>7 DEF IInv, TypeOK, Struct
  <2>11. job' # NoJob => /\ da'[job'.to].capacity # 0 /\ job'.base <= da'[job'.to].count
                         /\ job'.op = "concat" => da'[job'.from].capacity # 0
                         /\ job'.op # "reserve" => job'.data \in Seq(Byte)
    BY <1>2, <2>1, <2>3, <2>4, <2>5, <2>9, <2>10, BusyFacts DEF Made, Dest
  <2>12. \A n \in nodes : \A q \in NodeExtent(n) : mem'[q] = mem[q] BY <2>8
  <2> HIDE DEF a
  <2> QED BY <1>2, <2>3, <2>6, <2>7, <2>8, <2>9, <2>11, <2>12, CountSound, Zenon
<1> QED BY <1>1, <1>2 DEF StoreNowhere

(* Of the items after the one removed, none lies outside the block.        *)
LEMMA ItemsFit ==
  ASSUME NEW count \in Nat, NEW size \in Nat \ {0}, NEW i \in Nat, i < count \div size
  PROVE  /\ count \div size - i - 1 \in Nat
         /\ size * i \in Nat /\ size * (count \div size - i - 1) \in Nat
         /\ size * i + size + size * (count \div size - i - 1) <= count
<1> DEFINE q == count \div size
           k == q - i - 1
<1>1. q \in Nat /\ size * q <= count BY Multiple
<1>2. k \in Nat BY <1>1
<1>3. size * i \in Nat /\ size * k \in Nat /\ size * q \in Nat BY <1>1, <1>2
<1>4. size * i + size + size * k = size * q BY <1>1, <1>2
<1> QED BY <1>1, <1>2, <1>3, <1>4

LEMMA RemoveSound == ASSUME IInv, RemoveItem PROVE IInv'
<1>1. PICK a \in Array, size \in ItemSizes : \E i \in 0 .. da[a].count : RemoveAt(a, size, i)
  BY DEF RemoveItem
<1>2. PICK i \in 0 .. da[a].count : RemoveAt(a, size, i) BY <1>1
<1> DEFINE at == da[a].src + size * i
           left == Left(a, size, i)
           n == size * left
<1>3. /\ Made(a) /\ da[a].src # 0 /\ i < da[a].count \div size
      /\ mem' \in IF left > 0 THEN Shifted(at, at + size, n) ELSE {mem}
      /\ da' = [da EXCEPT ![a].count = @ - size]
      /\ UNCHANGED <<offset, nodes, job, status>>
  BY <1>2 DEF RemoveAt
<1>4. /\ da[a].src \in Nat \ {0} /\ da[a].capacity \in Nat
      /\ da[a].count \in 0 .. da[a].capacity
      /\ da[a].src + da[a].capacity <= MemSize + 1
      /\ Extent(a) = da[a].src .. da[a].src + da[a].capacity - 1
  BY <1>1, <1>3, ArrayFacts
<1>5. size \in Nat \ {0} /\ i \in Nat BY <1>1, <1>4, SizeAssumption
<1>6. /\ left \in Nat /\ size * i \in Nat /\ n \in Nat
      /\ size * i + size + n <= da[a].count
  BY <1>3, <1>4, <1>5, ItemsFit DEF Left
<1> HIDE DEF n
<1>7. /\ at \in Nat \ {0} /\ at + size \in Nat \ {0} /\ at < at + size
      /\ da[a].src <= at /\ at + size + n <= da[a].src + da[a].count
  <2> DEFINE x == size * i
  <2>1. x \in Nat /\ n \in Nat /\ x + size + n <= da[a].count /\ at = da[a].src + x
    BY <1>6
  <2>2. da[a].src \in Nat \ {0} /\ da[a].count \in Nat /\ size \in Nat \ {0}
    BY <1>4, <1>5
  <2> HIDE DEF x, at
  <2> QED BY <2>1, <2>2
<1> HIDE DEF at, left
<1>8. /\ da[a].src \in Nat /\ da[a].count \in Nat /\ da[a].capacity \in Nat
      /\ da[a].count <= da[a].capacity
      /\ da[a].src + da[a].capacity <= MemSize + 1
  <2>1. da[a].src \in Nat /\ da[a].capacity \in Nat
        /\ da[a].count \in 0 .. da[a].capacity
    BY <1>4
  <2>2. da[a].count \in Nat /\ da[a].count <= da[a].capacity BY <2>1
  <2> QED BY <1>4, <2>1, <2>2
<1>9. /\ mem \in Memory /\ MemSize \in Nat
      /\ mem' = mem \/ mem' = Copy(at, at + size, n) \/ mem' = Smear(at, at + size, n)
  BY <1>3, SizeAssumption DEF Shifted, IInv, TypeOK, Memory, AnyByte
<1>10. at + size + n - 1 <= MemSize
  <2> DEFINE last == da[a].src + da[a].count
             limit == da[a].src + da[a].capacity
  <2>1. /\ at \in Nat /\ size \in Nat /\ n \in Nat /\ MemSize \in Nat
    BY <1>5, <1>6, <1>7, <1>9
  <2>2. at + size + n <= last BY <1>7
  <2>3. last \in Nat /\ limit \in Nat /\ last <= limit BY <1>8
  <2>4. limit <= MemSize + 1 BY <1>8
  <2> HIDE DEF last, limit
  <2> QED BY <2>1, <2>2, <2>3, <2>4
<1>11. mem' \in Memory BY <1>5, <1>6, <1>7, <1>9, <1>10, CopyType, SmearType
<1>12. \A m \in nodes : \A q \in NodeExtent(m) : mem'[q] = mem[q]
  <2> SUFFICES ASSUME NEW m \in nodes, NEW q \in NodeExtent(m) PROVE mem'[q] = mem[q]
    OBVIOUS
  <2>1. q \in 1 .. MemSize BY <1>9, SizeAssumption DEF IInv, TypeOK, NodeExtent
  <2>2. q \notin Extent(a) BY DEF IInv, BlocksApart
  <2>3. n \in Nat /\ size \in Nat \ {0} /\ q \in Nat BY <1>5, <1>6, <1>9, <2>1
  <2>4. q \notin at .. at + n - 1
    <3> DEFINE src == da[a].src
               last == da[a].src + da[a].count
               limit == da[a].src + da[a].capacity
    <3>1. at \in Nat /\ src <= at /\ at + size + n <= last BY <1>7
    <3>2. src \in Nat /\ last \in Nat /\ limit \in Nat /\ last <= limit BY <1>8
    <3>3. q \notin src .. limit - 1 BY <1>4, <2>2
    <3> HIDE DEF src, last, limit
    <3> QED BY <2>3, <3>1, <3>2, <3>3
  <2> QED BY <1>9, <2>1, <2>4 DEF Copy, Smear
<1>13. da[a].count - size \in 0 .. da[a].capacity
  <2> DEFINE x == size * i
             count == da[a].count
             capacity == da[a].capacity
  <2>1. x \in Nat /\ n \in Nat /\ x + size + n <= count BY <1>6
  <2>2. count \in Nat /\ capacity \in Nat /\ count <= capacity BY <1>8
  <2>3. size \in Nat BY <1>5
  <2> HIDE DEF x, count, capacity
  <2>4. count - size \in 0 .. capacity BY <2>1, <2>2, <2>3
  <2> QED BY <2>4 DEF count, capacity
<1>14. da' = [da EXCEPT ![a].count = da[a].count - size] BY <1>3 DEF IInv, TypeOK
<1>15. job' = NoJob BY <1>3 DEF RemoveItem, Idle
<1> QED BY <1>3, <1>11, <1>12, <1>13, <1>14, <1>15, CountSound, Zenon

-----------------------------------------------------------------------------
LEMMA StepSound == ASSUME IInv, [Next]_vars PROVE IInv'
<1>1. CASE InitDarray
  <2>1. PICK a \in Array : ~Made(a) /\ Begin(a) BY <1>1 DEF InitDarray
  <2> QED BY <1>1, <2>1, BeginSound DEF InitDarray
<1>2. CASE CreateNode BY <1>2, NodeSound
<1>3. CASE ArenaFull BY <1>3, AbortSound DEF ArenaFull
<1>4. CASE FreeDarray BY <1>4, FreeSound
<1>5. CASE Push \/ PushReplicatedByte \/ Reserve \/ PushDarray BY <1>5, CallsSound
<1>6. CASE StringInitFrom BY <1>6, StringSound
<1>7. CASE RemoveItem BY <1>7, RemoveSound
<1>8. CASE Grow BY <1>8, GrowSound
<1>9. CASE Store BY <1>9, StoreSound
<1>10. CASE StoreNowhere BY <1>10, StoreNowhereSound
<1>11. CASE Return BY <1>11, ReturnSound
<1>12. CASE UNCHANGED vars
  <2>1. UNCHANGED <<mem, offset, da, nodes>> /\ job' = job
        /\ status' \in {"running", "aborted", "segv"}
    BY <1>12 DEF vars, IInv, TypeOK
  <2> QED BY <2>1, CallSound
<1> QED BY <1>1, <1>2, <1>3, <1>4, <1>5, <1>6, <1>7, <1>8, <1>9, <1>10, <1>11, <1>12
        DEF Next, Call, Work

LEMMA Sound == Spec => []IInv
<1>1. IInv /\ [Next]_vars => IInv' BY StepSound
<1> QED BY <1>1, InitSound, PTL DEF Spec

(* Every struct, every byte of memory and the call under way stay what     *)
(* their types say, and no block reaches past the end of memory.           *)
THEOREM TypeCorrect == Spec => []TypeOK
<1>1. IInv => TypeOK BY DEF IInv
<1> QED BY <1>1, Sound, PTL

(* No byte ever belongs to two arrays, to an array and a node, or to two   *)
(* nodes.                                                                  *)
THEOREM BlocksStayApart == Spec => []BlocksApart
<1>1. IInv => BlocksApart BY DEF IInv
<1> QED BY <1>1, Sound, PTL

(* No array uses more bytes than its block has.                            *)
THEOREM CountsStayInBlocks == Spec => []CountsFit
<1>1. IInv => CountsFit BY DEF IInv
<1> QED BY <1>1, Sound, PTL

(* No call on an array changes a byte of a node.                           *)
THEOREM NodesStayWritten == Spec => []NodesKept
<1>1. IInv => NodesKept BY DEF IInv
<1> QED BY <1>1, Sound, PTL

-----------------------------------------------------------------------------
(* The arrays in memory implement sequences of bytes: every behaviour of   *)
(* Darray, seen through the mapping of its instance ABS, is one of         *)
(* ByteSeq, when memcpy() copies overlapping bytes in order.               *)

(* How far a call has come: the bytes after the first `base` are those it  *)
(* has added so far.                                                       *)
Progress ==
  job # NoJob =>
    /\ job.op \in {"push", "reserve"} =>
         \/ job.done = 0 /\ Dest.count = job.base
         \/ job.done = 1 /\ Dest.count = job.base + Len(job.data)
    /\ job.op = "push" /\ job.done = 1 =>
         \A i \in 1 .. Len(job.data) : At(job.to, job.base + i) = job.data[i]
    /\ job.op = "fill" => Dest.count = job.base
    /\ job.op = "concat" =>
         /\ job.done <= da[job.from].count /\ Dest.count = job.base + job.done
         /\ job.from = job.to => job.done = 0 \/ job.base # 0
         /\ \A i \in 1 .. job.done : At(job.to, job.base + i) = At(job.from, i)
    /\ job.op = "string" =>
         /\ job.base = 0
         /\ \/ job.done = 0 /\ Dest.count = 0
            \/ job.done = 1 /\ Dest.count = Len(job.data)
            \/ job.done = 2 /\ Dest.count = Len(job.data) + 1
         /\ job.done # 0 =>
              \A i \in 1 .. Len(job.data) : At(job.to, i) = job.data[i]
         /\ job.done = 2 => At(job.to, Len(job.data) + 1) = Nul

-----------------------------------------------------------------------------
(* What the steps of a call leave as it was.                               *)

LEMMA StoreFacts ==
  ASSUME IInv, Store
  PROVE  /\ Busy /\ job.done < Chunks /\ job \in Job
         /\ Len(Chunk) = Size /\ Size \in Nat
         /\ job' \in Job /\ job'.done = job.done + 1
         /\ job'.to = job.to /\ job'.from = job.from /\ job'.base = job.base
         /\ job'.op = job.op /\ job'.data = job.data
         /\ \A a \in Array \ {job.to} : da'[a] = da[a]
         /\ da'[job.to].src = Dest.src /\ da'[job.to].capacity = Dest.capacity
         /\ da'[job.to].count = Dest.count + IF job.op = "fill" THEN 0 ELSE Size
<1>1. /\ Busy /\ Adding /\ Readable /\ job.done < Chunks
      /\ job' = [job EXCEPT !.done = @ + 1]
      /\ da' = [da EXCEPT ![job.to].count = @ + IF job.op = "fill" THEN 0 ELSE Len(Chunk)]
  BY DEF Store, Adding, Add
<1>2. job \in Job /\ job.to \in Array BY <1>1, BusyFacts
<1>3. Len(Chunk) = Size /\ Size \in Nat BY <1>1, ChunkType, SizeOfChunk
<1>4. /\ \A a \in Array \ {job.to} : da'[a] = da[a]
      /\ da'[job.to].src = Dest.src /\ da'[job.to].capacity = Dest.capacity
      /\ da'[job.to].count = Dest.count + IF job.op = "fill" THEN 0 ELSE Size
  BY <1>1, <1>2, <1>3 DEF Dest, IInv, TypeOK, Struct
<1>5. /\ job' \in Job /\ job'.done = job.done + 1
      /\ job'.to = job.to /\ job'.from = job.from /\ job'.base = job.base
      /\ job'.op = job.op /\ job'.data = job.data
  BY <1>1, <1>2, NextTurn
<1> QED BY <1>1, <1>2, <1>3, <1>4, <1>5

(* A byte in use lies in its array's block.                                *)
LEMMA Address ==
  ASSUME IInv, NEW a \in Array, NEW i \in 1 .. da[a].count, da[a].src # 0
  PROVE  /\ da[a].src + i - 1 \in Extent(a)
         /\ da[a].src + i - 1 \in 1 .. MemSize
         /\ da[a].src + i - 1 < da[a].src + da[a].count
<1>1. /\ da[a].src \in Nat \ {0} /\ da[a].capacity \in Nat
      /\ da[a].count \in 0 .. da[a].capacity
      /\ da[a].src + da[a].capacity <= MemSize + 1
      /\ Extent(a) = da[a].src .. da[a].src + da[a].capacity - 1
  BY ArrayFacts
<1>2. i \in Nat /\ 1 <= i /\ i <= da[a].count BY <1>1
<1> DEFINE src == da[a].src
           count == da[a].count
           capacity == da[a].capacity
<1>3. /\ src \in Nat \ {0} /\ capacity \in Nat /\ count \in 0 .. capacity
      /\ src + capacity <= MemSize + 1 /\ MemSize \in Nat
      /\ i \in Nat /\ 1 <= i /\ i <= count
  BY <1>1, <1>2, SizeAssumption
<1>4. Extent(a) = src .. src + capacity - 1 BY <1>1
<1> HIDE DEF src, count, capacity
<1>5. /\ src + i - 1 \in src .. src + capacity - 1
      /\ src + i - 1 \in 1 .. MemSize
      /\ src + i - 1 < src + count
  BY <1>3
<1> QED BY <1>4, <1>5 DEF src, count

LEMMA Place ==
  ASSUME NEW s \in Nat \ {0}, NEW c \in Nat, NEW i \in Nat, NEW n \in Nat, NEW m \in Nat,
         1 <= i, i <= n, s + c + n <= m + 1
  PROVE  /\ s + (c + i) - 1 \in 1 .. m
         /\ s + (c + i) - 1 - (s + c) + 1 = i
         /\ s + (c + i) - 1 \in s + c .. s + c + n - 1
OBVIOUS

LEMMA StoreAt ==
  ASSUME IInv, Store
  PROVE  /\ \A a \in Array : \A i \in 1 .. da[a].count : At(a, i)' = At(a, i)
         /\ job.op # "reserve" =>
              \A i \in 1 .. Len(Chunk) : mem'[Dest.src + (Dest.count + i) - 1] = Chunk[i]
<1> DEFINE t == job.to
<1>1. /\ t \in Array /\ Dest = da[t] /\ Dest.src # 0 /\ Room
      /\ Len(Chunk) = Size /\ Size \in Nat
      /\ mem' = IF job.op = "reserve" THEN mem ELSE Write(da[t].src + da[t].count, Chunk)
  BY StoreFacts, BusyFacts DEF Store, Dest
<1>2. \A a \in Array : da'[a].src = da[a].src BY StoreFacts DEF Dest
<1> HIDE DEF t
<1>3. /\ da[t].src \in Nat \ {0} /\ da[t].count \in Nat /\ da[t].capacity \in Nat
      /\ da[t].src + da[t].capacity <= MemSize + 1
      /\ Extent(t) = da[t].src .. da[t].src + da[t].capacity - 1
      /\ da[t].count + Size <= da[t].capacity /\ MemSize \in Nat
  BY <1>1, ArrayFacts, SizeAssumption DEF Room
<1>4. ASSUME NEW a \in Array, NEW i \in 1 .. da[a].count PROVE At(a, i)' = At(a, i)
  <2>1. CASE da[a].src = 0 BY <1>2, <2>1 DEF At
  <2>2. CASE da[a].src # 0
    <3> DEFINE p == da[a].src + i - 1
    <3>1. p \in Extent(a) /\ p \in 1 .. MemSize /\ p < da[a].src + da[a].count
      BY <2>2, Address
    <3>2. p \notin da[t].src + da[t].count .. da[t].src + da[t].count + Len(Chunk) - 1
      <4>1. CASE a = t
        <5> HIDE DEF p
        <5> QED BY <1>1, <1>3, <3>1, <4>1, SMTT(30)
      <4>2. CASE a # t
        <5>1. p \notin Extent(t) BY <1>1, <3>1, <4>2 DEF IInv, BlocksApart
        <5> HIDE DEF p
        <5> QED BY <1>1, <1>3, <3>1, <5>1, SMTT(30)
      <4> QED BY <4>1, <4>2
    <3>3. mem'[p] = mem[p] BY <1>1, <3>1, <3>2 DEF Write
    <3> QED BY <1>2, <2>2, <3>3 DEF At
  <2> QED BY <2>1, <2>2
<1>5. ASSUME job.op # "reserve", NEW i \in 1 .. Len(Chunk)
      PROVE  mem'[da[t].src + (da[t].count + i) - 1] = Chunk[i]
  <2> DEFINE p == da[t].src + (da[t].count + i) - 1
  <2>1. i \in Nat /\ 1 <= i /\ i <= Size BY <1>1, <1>5
  <2>2. /\ p \in 1 .. MemSize /\ p - (da[t].src + da[t].count) + 1 = i
        /\ p \in da[t].src + da[t].count .. da[t].src + da[t].count + Len(Chunk) - 1
    <3>1. Len(Chunk) = Size /\ Size \in Nat BY <1>1
    <3>2. /\ da[t].src \in Nat \ {0} /\ da[t].count \in Nat /\ MemSize \in Nat
          /\ da[t].src + da[t].count + Size <= MemSize + 1
      BY <1>1, <1>3, SMTT(30)
    <3>3. /\ p \in 1 .. MemSize /\ p - (da[t].src + da[t].count) + 1 = i
          /\ p \in da[t].src + da[t].count .. da[t].src + da[t].count + Size - 1
      <4> DEFINE x == da[t].src
                 y == da[t].count
      <4>1. /\ x \in Nat \ {0} /\ y \in Nat /\ MemSize \in Nat /\ Size \in Nat
            /\ x + y + Size <= MemSize + 1
        BY <3>1, <3>2
      <4> HIDE DEF x, y
      <4>2. /\ x + (y + i) - 1 \in 1 .. MemSize /\ x + (y + i) - 1 - (x + y) + 1 = i
            /\ x + (y + i) - 1 \in x + y .. x + y + Size - 1
        BY <2>1, <4>1, Place
      <4> QED BY <2>1, <4>1, <4>2, SMTT(30) DEF x, y
    <3> QED BY <3>1, <3>3
  <2> HIDE DEF p
  <2>3. mem'[p] = Chunk[i] BY <1>1, <1>5, <2>2 DEF Write
  <2> QED BY <2>3 DEF p
<1> QED BY <1>1, <1>4, <1>5 DEF t

LEMMA GrowAt ==
  ASSUME IInv, Grow, status' = "running"
  PROVE  /\ job' = job /\ Dest.capacity # 0 /\ da'[job.to].capacity # 0
         /\ \A a \in Array \ {job.to} : da'[a] = da[a]
         /\ \A a \in Array : da'[a].count = da[a].count
         /\ \A a \in Array : \A i \in 1 .. da[a].count : At(a, i)' = At(a, i)
<1> DEFINE t == job.to
<1>1. PICK p \in Blocks(Doubled) \ {0} :
             /\ Dest.src # 0
             /\ mem' = Moved(p)
             /\ da' = [da EXCEPT ![t] =
                        [src |-> p, capacity |-> Doubled, count |-> Dest.count]]
             /\ UNCHANGED <<nodes, job, status>>
  BY DEF Grow, Abort
<1>2. t \in Array /\ Dest = da[t] /\ Dest.capacity # 0 /\ Busy
  BY BusyFacts DEF Grow, Adding, Dest
<1> HIDE DEF t
<1>3. /\ da[t].src \in Nat \ {0} /\ da[t].capacity \in Nat \ {0}
      /\ da[t].count \in 0 .. da[t].capacity
      /\ da[t].src + da[t].capacity <= MemSize + 1
      /\ Extent(t) = da[t].src .. da[t].src + da[t].capacity - 1
      /\ MemSize \in Nat
  BY <1>1, <1>2, ArrayFacts, SizeAssumption
<1>4. Doubled = 2 * da[t].capacity /\ Doubled \in Nat \ {0} BY <1>2, <1>3 DEF Doubled
<1>5. /\ p \in Nat \ {0} /\ p + Doubled - 1 <= MemSize
      /\ \A a \in Array : (p .. p + Doubled - 1) \cap Extent(a) = {}
  BY <1>1, <1>4, NewBlock
<1>6. /\ da'[t] = [src |-> p, capacity |-> Doubled, count |-> da[t].count]
      /\ \A a \in Array \ {t} : da'[a] = da[a]
  BY <1>1, <1>2 DEF IInv, TypeOK
<1>7. mem' = Freed(Copy(p, da[t].src, da[t].capacity), t) BY <1>1, <1>2 DEF Moved, t
<1>8. \A a \in Array : da'[a].count = da[a].count BY <1>6
<1>9. ASSUME NEW a \in Array, NEW i \in 1 .. da[a].count PROVE At(a, i)' = At(a, i)
  <2>1. CASE a = t
    <3> DEFINE q == p + i - 1
               r == da[t].src + i - 1
    <3>1. i \in Nat /\ 1 <= i /\ i <= da[t].capacity BY <1>3, <1>9, <2>1
    <3>2. /\ q \in 1 .. MemSize /\ q \in p .. p + da[t].capacity - 1
          /\ q \in p .. p + Doubled - 1
      <4> DEFINE c == da[t].capacity
      <4>1. c \in Nat /\ MemSize \in Nat BY <1>3
      <4>2. Doubled = 2 * c /\ i \in Nat /\ 1 <= i /\ i <= c BY <1>4, <3>1
      <4>3. p \in Nat \ {0} /\ p + Doubled - 1 <= MemSize BY <1>5
      <4> HIDE DEF c
      <4>4. i <= Doubled /\ Doubled \in Nat BY <4>1, <4>2
      <4>5. q \in p .. p + c - 1 /\ q \in p .. p + Doubled - 1
        BY <4>1, <4>2, <4>3, <4>4
      <4>6. q \in 1 .. MemSize BY <4>1, <4>2, <4>3, <4>4
      <4> QED BY <4>5, <4>6 DEF c
    <3>3. da[t].src + q - p = r BY <1>3, <1>5, <3>1
    <3>4. q \notin Extent(t) BY <1>2, <1>5, <3>2
    <3> HIDE DEF q, r
    <3>5. mem'[q] = mem[r] BY <1>7, <3>2, <3>3, <3>4 DEF Freed, Copy
    <3>6. At(a, i)' = mem'[q] BY <1>5, <1>6, <2>1 DEF At, q
    <3>7. At(a, i) = mem[r] BY <1>3, <2>1 DEF At, r
    <3> QED BY <3>5, <3>6, <3>7
  <2>2. CASE a # t
    <3>1. da'[a] = da[a] BY <1>6, <2>2
    <3>2. CASE da[a].src = 0 BY <3>1, <3>2 DEF At
    <3>3. CASE da[a].src # 0
      <4> DEFINE r == da[a].src + i - 1
      <4>1. r \in Extent(a) /\ r \in 1 .. MemSize BY <3>3, Address
      <4>2. r \notin Extent(t) BY <1>2, <2>2, <4>1 DEF IInv, BlocksApart
      <4>3. r \notin p .. p + Doubled - 1 BY <1>5, <4>1
      <4> HIDE DEF r
      <4>4. r \notin p .. p + da[t].capacity - 1 BY <1>3, <1>4, <1>5, <4>1, <4>3, SMTT(30)
      <4>5. mem'[r] = mem[r] BY <1>7, <4>1, <4>2, <4>4 DEF Freed, Copy
      <4> QED BY <3>1, <3>3, <4>5 DEF At, r
    <3> QED BY <3>2, <3>3
  <2> QED BY <2>1, <2>2
<1> QED BY <1>1, <1>2, <1>4, <1>6, <1>8, <1>9 DEF t

-----------------------------------------------------------------------------
LEMMA ProgressInit == Init => Progress
BY DEF Init, Progress

(* A job that starts has added nothing.                                    *)
LEMMA ProgressStart ==
  ASSUME IInv, NEW a \in Array, NEW b \in Array, NEW op, NEW data,
         op = "string" => da'[a].count = 0, da'[a].count \in Nat, da'[b].count \in Nat,
         NewJob(op, a, b, data)
  PROVE  Progress'
<1>1. job' = [op |-> op, to |-> a, from |-> b, data |-> data,
              base |-> da'[a].count, done |-> 0]
  BY DEF NewJob
<1>2. /\ job'.op = op /\ job'.to = a /\ job'.from = b /\ job'.done = 0
      /\ job'.base = da'[a].count
  BY <1>1
<1>3. Dest' = da'[a] BY <1>2 DEF Dest
<1> QED BY <1>2, <1>3 DEF Progress

(* The bytes and counts that Progress speaks of stay.                      *)
LEMMA ProgressKept ==
  ASSUME IInv, Progress, job' = job,
         job # NoJob =>
           \A a \in Array : /\ da'[a].count = da[a].count
                           /\ \A i \in 1 .. da[a].count : At(a, i)' = At(a, i)
  PROVE  Progress'
<1> SUFFICES ASSUME job # NoJob PROVE Progress'
  BY DEF Progress
<1> SUFFICES ASSUME NEW t, NEW f, t = job.to, f = job.from PROVE Progress'
  OBVIOUS
<1>1. /\ t \in Array /\ f \in Array /\ job.base \in Nat /\ job.done \in Nat
      /\ job.data \in Seq(Byte \cup {Junk})
  BY DEF IInv, TypeOK, Job
<1>2. Len(job.data) \in Nat BY <1>1, LenProperties
<1>3. Dest = da[t] /\ Dest' = da'[t] BY DEF Dest
<1>4. da'[t].count = da[t].count /\ da'[f].count = da[f].count BY <1>1
<1>5. da[t].count \in Nat /\ da[f].count \in Nat BY <1>1, ArrayFacts
<1>6. /\ \A i \in 1 .. da[t].count : At(t, i)' = At(t, i)
      /\ \A i \in 1 .. da[f].count : At(f, i)' = At(f, i)
  BY <1>1
<1>7. CASE job.op \in {"push", "reserve", "fill"}
  BY <1>1, <1>2, <1>3, <1>4, <1>5, <1>6, <1>7, SMTT(30) DEF Progress
<1>8. CASE job.op = "concat"
  BY <1>1, <1>3, <1>4, <1>5, <1>6, <1>8 DEF Progress
<1>9. CASE job.op = "string"
  BY <1>1, <1>2, <1>3, <1>4, <1>5, <1>6, <1>9 DEF Progress
<1> QED BY <1>7, <1>8, <1>9 DEF IInv, TypeOK, Job

LEMMA ProgressStore == ASSUME IInv, Progress, Store PROVE Progress'
<1> SUFFICES ASSUME NEW t, NEW f, NEW c, NEW b, NEW d, t = job.to, f = job.from,
                    c = da[t].count, b = job.base, d = job.data
             PROVE  Progress'
  OBVIOUS
<1>1. /\ t \in Array /\ f \in Array /\ job.base \in Nat /\ job.done \in Nat
      /\ job.data \in Seq(Byte \cup {Junk}) /\ job # NoJob /\ Busy
      /\ job.op \in {"push", "string", "fill", "reserve", "concat"}
  BY StoreFacts, BusyFacts DEF Busy, Job
<1>2. Len(job.data) \in Nat BY <1>1, LenProperties
<1>3. /\ job'.done = job.done + 1 /\ job'.to = t /\ job'.from = f
      /\ job'.base = job.base /\ job'.op = job.op /\ job'.data = job.data
      /\ job.done < Chunks /\ Size \in Nat /\ Len(Chunk) = Size
      /\ da'[t].src = da[t].src
      /\ da'[t].count = da[t].count + IF job.op = "fill" THEN 0 ELSE Size
      /\ \A a \in Array \ {t} : da'[a] = da[a]
  BY StoreFacts DEF Dest
<1>4. Dest = da[t] /\ Dest' = da'[t] BY <1>3 DEF Dest
<1>5. da[t].count \in Nat /\ da[f].count \in Nat BY <1>1, ArrayFacts
<1>6. /\ \A i \in 1 .. da[t].count : At(t, i)' = At(t, i)
      /\ \A i \in 1 .. da[f].count : At(f, i)' = At(f, i)
  BY <1>1, StoreAt
<1>7. job.op # "reserve" => \A i \in 1 .. Size : At(t, c + i)' = Chunk[i]
  <2> SUFFICES ASSUME job.op # "reserve", NEW i \in 1 .. Size
               PROVE  At(t, c + i)' = Chunk[i]
    OBVIOUS
  <2>1. mem'[da[t].src + (c + i) - 1] = Chunk[i] BY <1>3, <1>4, StoreAt
  <2>2. da[t].src # 0 BY <1>4 DEF Store
  <2> QED BY <1>3, <2>1, <2>2 DEF At
<1>8. CASE job.op \in {"push", "reserve"}
  <2>1. job.done = 0 /\ c = b BY <1>1, <1>3, <1>4, <1>8 DEF Progress, Chunks
  <2>2. Size = Len(job.data) BY <1>8 DEF Size
  <2>3. job.op = "push" => Chunk = job.data BY Zenon DEF Chunk
  <2> QED BY <1>1, <1>2, <1>3, <1>4, <1>5, <1>7, <1>8, <2>1, <2>2, <2>3 DEF Progress
<1>9. CASE job.op = "fill" BY <1>1, <1>3, <1>4, <1>5, <1>9 DEF Progress
<1>10. CASE job.op = "concat"
  <2>1. /\ Chunks = da[f].count /\ Size = 1 /\ Chunk = <<mem[da[f].src + job.done]>>
    BY <1>10 DEF Chunks, Size, Chunk
  <2>2. /\ job.done < da[f].count /\ c = b + job.done
        /\ f = t => b # 0
        /\ \A i \in 1 .. job.done : At(t, b + i) = At(f, i)
    <3>1. /\ c = b + job.done /\ (f = t => job.done = 0 \/ b # 0)
          /\ \A i \in 1 .. job.done : At(t, b + i) = At(f, i)
      BY <1>1, <1>4, <1>10 DEF Progress
    <3>2. job.done < da[f].count BY <1>3, <2>1
    <3>3. ASSUME f = t, b = 0 PROVE FALSE
      <4>1. job.done = 0 BY <3>1, <3>3
      <4>2. c = 0 BY <3>1, <3>3, <4>1
      <4>3. 0 < c BY <3>2, <3>3, <4>1
      <4> QED BY <4>2, <4>3
    <3> QED BY <3>1, <3>2, <3>3
  <2>3. At(t, c + 1)' = mem[da[f].src + job.done] BY <1>7, <1>10, <2>1
  <2>4. mem[da[f].src + job.done] = At(f, job.done + 1)
    <3>1. da[f].src # 0 /\ da[f].src \in Nat BY <1>1, <1>10, ArrayFacts DEF Store, Readable
    <3> QED BY <1>1, <3>1 DEF At
  <2>5. \A i \in 1 .. job.done + 1 : At(t, b + i)' = At(f, i)'
    <3> SUFFICES ASSUME NEW i \in 1 .. job.done + 1 PROVE At(t, b + i)' = At(f, i)'
      OBVIOUS
    <3>1. i \in Nat /\ i \in 1 .. da[f].count BY <1>1, <1>5, <2>2
    <3>2. At(f, i)' = At(f, i) BY <1>6, <3>1
    <3>3. CASE i = job.done + 1
      <4>1. c + 1 = b + i BY <1>1, <2>2, <3>3
      <4> QED BY <2>3, <2>4, <3>2, <3>3, <4>1
    <3>4. CASE i \in 1 .. job.done
      <4>1. b + i \in 1 .. c BY <1>1, <2>2, <3>4
      <4>2. At(t, b + i)' = At(t, b + i) BY <1>6, <4>1
      <4> QED BY <2>2, <3>2, <3>4, <4>2
    <3> QED BY <1>1, <3>3, <3>4
  <2>6. da'[t].count = b + (job.done + 1) BY <1>1, <1>3, <1>10, <2>1, <2>2
  <2>7. job.done + 1 <= da'[f].count
    <3>1. CASE f = t BY <1>1, <1>5, <2>2, <2>6, <3>1
    <3>2. CASE f # t BY <1>1, <1>3, <1>5, <2>2, <3>2
    <3> QED BY <3>1, <3>2
  <2> QED BY <1>1, <1>3, <1>4, <1>10, <2>2, <2>5, <2>6, <2>7 DEF Progress
<1>11. CASE job.op = "string"
  <2>1. /\ b = 0 /\ Chunks = 2 /\ job.done \in {0, 1}
        /\ job.done = 0 => c = 0
        /\ job.done = 1 => c = Len(d)
    BY <1>1, <1>3, <1>4, <1>11 DEF Progress, Chunks
  <2>2. CASE job.done = 0
    <3>1. Size = Len(d) BY <1>11, <2>2 DEF Size
    <3>2. Chunk = d
      <4>1. job.op # "concat" /\ ~(job.op = "string" /\ job.done = 1) BY <1>11, <2>2
      <4> QED BY <4>1, Zenon DEF Chunk
    <3>3. \A i \in 1 .. Len(d) : At(t, i)' = d[i]
      <4>1. \A i \in 1 .. Len(d) : At(t, c + i)' = d[i]
        BY <1>7, <1>11, <3>1, <3>2
      <4>2. \A i \in 1 .. Len(d) : c + i = i BY <1>2, <2>1, <2>2
      <4> QED BY <4>1, <4>2
    <3> QED BY <1>2, <1>3, <1>4, <1>11, <2>1, <2>2, <3>1, <3>3 DEF Progress
  <2>3. CASE job.done = 1
    <3>1. Size = 1 /\ Chunk = <<Nul>> BY <1>11, <2>3 DEF Size, Chunk
    <3>2. At(t, Len(d) + 1)' = Nul
      <4>1. At(t, c + 1)' = Nul BY <1>7, <1>11, <3>1
      <4> QED BY <2>1, <2>3, <4>1
    <3>3. \A i \in 1 .. Len(d) : At(t, i)' = d[i]
      BY <1>1, <1>6, <1>11, <2>1, <2>3 DEF Progress
    <3> QED BY <1>2, <1>3, <1>4, <1>11, <2>1, <2>3, <3>1, <3>2, <3>3 DEF Progress
  <2> QED BY <2>1, <2>2, <2>3
<1> QED BY <1>1, <1>8, <1>9, <1>10, <1>11

LEMMA ReserveFacts ==
  ASSUME IInv, StoreNowhere, status' = "running"
  PROVE  /\ Busy /\ job.op = "reserve" /\ job.done < Chunks /\ UNCHANGED mem
         /\ job' \in Job /\ job'.done = job.done + 1
         /\ job'.to = job.to /\ job'.from = job.from /\ job'.base = job.base
         /\ job'.op = job.op /\ job'.data = job.data
         /\ \A a \in Array \ {job.to} : da'[a] = da[a]
         /\ da'[job.to].src = Dest.src /\ da'[job.to].capacity = Dest.capacity
         /\ da'[job.to].count = Dest.count + Len(job.data)
<1>1. /\ Busy /\ Adding /\ job.done < Chunks /\ job.op = "reserve"
      /\ UNCHANGED mem /\ job' = [job EXCEPT !.done = @ + 1]
      /\ da' = [da EXCEPT ![job.to].count = @ + Len(Chunk)]
  BY DEF StoreNowhere, Adding, Add, Abort
<1>2. job \in Job /\ job.to \in Array BY <1>1, BusyFacts
<1>3. Len(Chunk) = Len(job.data) BY <1>1, ChunkType DEF Readable, Size
<1>4. /\ \A a \in Array \ {job.to} : da'[a] = da[a]
      /\ da'[job.to].src = Dest.src /\ da'[job.to].capacity = Dest.capacity
      /\ da'[job.to].count = Dest.count + Len(job.data)
  BY <1>1, <1>2, <1>3 DEF Dest, IInv, TypeOK, Struct
<1>5. /\ job' \in Job /\ job'.done = job.done + 1
      /\ job'.to = job.to /\ job'.from = job.from /\ job'.base = job.base
      /\ job'.op = job.op /\ job'.data = job.data
  BY <1>1, <1>2, NextTurn
<1> QED BY <1>1, <1>4, <1>5

LEMMA ProgressStep == ASSUME IInv, Progress, [Next]_vars PROVE Progress'
<1>1. CASE job' = NoJob BY <1>1 DEF Progress
<1>2. CASE job' = job /\ UNCHANGED <<mem, da>>
  <2>1. \A a \in Array : \A i : At(a, i)' = At(a, i) BY <1>2 DEF At
  <2> QED BY <1>2, <2>1, ProgressKept
<1>3. CASE Push \/ PushReplicatedByte \/ Reserve \/ PushDarray
  <2>1. \E a, b \in Array, op \in Adds : \E data : NewJob(op, a, b, data)
    BY <1>3 DEF Push, PushReplicatedByte, Reserve, PushDarray, Adds
  <2>2. PICK a \in Array, b \in Array, op \in Adds : \E data : NewJob(op, a, b, data) BY <2>1
  <2>3. op # "string" BY <2>2 DEF Adds
  <2>5. PICK data : NewJob(op, a, b, data) BY <2>2
  <2>4. da'[a].count \in Nat /\ da'[b].count \in Nat
    <3>1. da' = da BY <1>3 DEF Push, PushReplicatedByte, Reserve, PushDarray, Starts
    <3>2. da[a].count \in Nat /\ da[b].count \in Nat BY <2>2, ArrayFacts
    <3> QED BY <3>1, <3>2
  <2> QED BY <2>3, <2>4, <2>5, ProgressStart
<1>4. CASE StringInitFrom
  <2>1. PICK a \in Array, data \in Payload : Begin(a) /\ NewJob("string", a, a, data)
    BY <1>4 DEF StringInitFrom
  <2>2. da'[a].count = 0 BY <2>1 DEF Begin, IInv, TypeOK
  <2> QED BY <2>1, <2>2, ProgressStart
<1>5. CASE InitDarray \/ CreateNode \/ FreeDarray \/ RemoveItem \/ Return
  <2>1. job' = NoJob
    BY <1>5 DEF InitDarray, CreateNode, FreeDarray, RemoveItem, Return, Idle, RemoveAt
  <2> QED BY <1>1, <2>1
<1>6. CASE ArenaFull BY <1>2, <1>6 DEF ArenaFull, Abort
<1>7. CASE Grow
  <2>1. CASE status' = "running"
    <3>1. /\ job' = job /\ \A a \in Array : da'[a].count = da[a].count
          /\ \A a \in Array : \A i \in 1 .. da[a].count : At(a, i)' = At(a, i)
      BY <1>7, <2>1, GrowAt
    <3> QED BY <3>1, ProgressKept
  <2>2. CASE status' # "running"
    <3>1. UNCHANGED <<mem, da, job>>
      BY <1>7, <2>2 DEF Grow, Abort, Adding, Busy
    <3> QED BY <1>2, <3>1
  <2> QED BY <2>1, <2>2
<1>8. CASE Store BY <1>8, ProgressStore
<1>9. CASE StoreNowhere
  <2>1. CASE status' = "running"
    <3>1. /\ Busy /\ job.op = "reserve" /\ job.done < Chunks
          /\ job'.done = job.done + 1 /\ job'.to = job.to /\ job'.base = job.base
          /\ job'.op = job.op /\ job'.data = job.data
          /\ da'[job.to].count = Dest.count + Len(job.data)
      BY <1>9, <2>1, ReserveFacts
    <3>2. job.done \in Nat /\ job # NoJob BY <3>1, BusyFacts DEF Busy
    <3>3. job.done = 0 /\ Dest.count = job.base
      BY <3>1, <3>2 DEF Progress, Chunks
    <3>4. Dest' = da'[job.to] BY <3>1 DEF Dest
    <3> QED BY <3>1, <3>3, <3>4 DEF Progress
  <2>2. CASE status' # "running"
    <3>1. UNCHANGED <<mem, da, job>>
      BY <1>9, <2>2 DEF StoreNowhere, Abort, Adding, Busy
    <3> QED BY <1>2, <3>1
  <2> QED BY <2>1, <2>2
<1>10. CASE UNCHANGED vars BY <1>2, <1>10 DEF vars
<1> QED BY <1>3, <1>4, <1>5, <1>6, <1>7, <1>8, <1>9, <1>10 DEF Next, Call, Work

-----------------------------------------------------------------------------
(* The mapping.                                                            *)

(* How many bytes of an array its users see.                               *)
Seen(a) == IF job.to = a THEN job.base ELSE da[a].count

LEMMA BytesProperties ==
  ASSUME NEW a, NEW n \in Nat, \A i \in 1 .. n : At(a, i) \in AnyByte
  PROVE  /\ Bytes(a, n) \in Seq(AnyByte) /\ Len(Bytes(a, n)) = n
         /\ \A i \in 1 .. n : Bytes(a, n)[i] = At(a, i)
BY DEF Bytes

LEMMA AtType ==
  ASSUME IInv, NEW a \in Array, NEW i \in 1 .. da[a].count
  PROVE  At(a, i) \in AnyByte
<1>1. CASE da[a].src = 0 BY <1>1 DEF At, AnyByte
<1>2. CASE da[a].src # 0
  <2>1. da[a].src + i - 1 \in 1 .. MemSize BY <1>2, Address
  <2>2. mem[da[a].src + i - 1] \in AnyByte BY <2>1 DEF IInv, TypeOK, AnyByte
  <2> QED BY <1>2, <2>2 DEF At
<1> QED BY <1>1, <1>2

LEMMA SeenType ==
  ASSUME IInv, NEW a \in Array
  PROVE  Seen(a) \in Nat /\ Seen(a) <= da[a].count
<1>1. da[a].count \in Nat BY ArrayFacts
<1>2. CASE job = NoJob BY <1>1, <1>2, ArrayAssumption DEF Seen, NoJob
<1>3. CASE job # NoJob
  <2>1. job.base \in Nat BY <1>3 DEF IInv, TypeOK, Job
  <2>2. job.base <= da[job.to].count BY <1>3 DEF IInv, Kept
  <2> QED BY <1>1, <2>1, <2>2 DEF Seen
<1> QED BY <1>2, <1>3

LEMMA ContentsProperties ==
  ASSUME IInv, NEW a \in Array
  PROVE  /\ AllContents[a] = Bytes(a, Seen(a)) /\ AllContents[a] \in Seq(AnyByte)
         /\ Len(AllContents[a]) = Seen(a) /\ Seen(a) \in Nat
         /\ \A i \in 1 .. Seen(a) : AllContents[a][i] = At(a, i)
<1>1. Seen(a) \in Nat /\ Seen(a) <= da[a].count BY SeenType
<1>2. da[a].count \in Nat BY ArrayFacts
<1>3. \A i \in 1 .. Seen(a) : At(a, i) \in AnyByte
  <2>1. \A i \in 1 .. Seen(a) : i \in 1 .. da[a].count BY <1>1, <1>2
  <2> QED BY <2>1, AtType
<1>4. AllContents[a] = Bytes(a, Seen(a)) BY DEF AllContents, Contents, Seen
<1> QED BY <1>1, <1>3, <1>4, BytesProperties

LEMMA AllContentsProperties ==
  IInv => \A a \in Array :
            /\ AllContents[a] \in Seq(AnyByte) /\ Len(AllContents[a]) = Seen(a)
            /\ \A i \in 1 .. Seen(a) : AllContents[a][i] = At(a, i)
BY ContentsProperties

LEMMA ContentsNext ==
  ASSUME IInv'
  PROVE  \A a \in Array :
           /\ AllContents'[a] \in Seq(AnyByte) /\ Len(AllContents'[a]) = Seen(a)'
           /\ \A i \in 1 .. Seen(a)' : AllContents'[a][i] = At(a, i)'
<1>1. (IInv => \A a \in Array :
          /\ AllContents[a] \in Seq(AnyByte) /\ Len(AllContents[a]) = Seen(a)
          /\ \A i \in 1 .. Seen(a) : AllContents[a][i] = At(a, i))'
  BY AllContentsProperties, PTL
<1> QED BY <1>1

(* What users see of an array depends on how many bytes they see, and on   *)
(* these bytes.                                                            *)
LEMMA ContentsKept ==
  ASSUME IInv, NEW a \in Array, Seen(a)' = Seen(a),
         \A i \in 1 .. da[a].count : At(a, i)' = At(a, i)
  PROVE  AllContents'[a] = AllContents[a]
<1>1. Seen(a) \in Nat /\ Seen(a) <= da[a].count /\ da[a].count \in Nat
  BY SeenType, ArrayFacts
<1>2. \A i \in 1 .. Seen(a) : At(a, i)' = At(a, i) BY <1>1
<1>3. Contents(a) = [i \in 1 .. Seen(a) |-> At(a, i)] BY DEF Contents, Bytes, Seen
<1>4. Contents(a)' = [i \in 1 .. Seen(a)' |-> At(a, i)'] BY DEF Contents, Bytes, Seen
<1>5. Contents(a)' = Contents(a) BY <1>2, <1>3, <1>4
<1> QED BY <1>5 DEF AllContents

LEMMA AllContentsKept ==
  ASSUME IInv, \A a \in Array : AllContents'[a] = AllContents[a]
  PROVE  AllContents' = AllContents
BY DEF AllContents

LEMMA NoneSeen ==
  ASSUME NEW a \in Array, Seen(a) = 0
  PROVE  AllContents[a] = <<>>
<1>1. AllContents[a] = Bytes(a, 0) BY DEF AllContents, Contents, Seen
<1>2. Bytes(a, 0) = <<>> BY DEF Bytes
<1> QED BY <1>1, <1>2

LEMMA InitRefines == Init => ABS!Init
<1> SUFFICES ASSUME Init PROVE ABS!Init OBVIOUS
<1>1. \A a \in Array : Seen(a) = 0
  BY ArrayAssumption DEF Init, Seen, NoJob, NoStruct
<1>2. AllContents = [a \in Array |-> <<>>]
  <2>1. \A a \in Array : AllContents[a] = <<>> BY <1>1, NoneSeen
  <2> QED BY <2>1 DEF AllContents
<1>3. Initialised = {} BY DEF Init, Initialised, Made, NoStruct
<1>4. Asked = ABS!NoRequest BY DEF Init, Asked, NoJob, ABS!NoRequest
<1> QED BY <1>2, <1>3, <1>4 DEF Init, ABS!Init

-----------------------------------------------------------------------------
(* The calls.                                                              *)

(* Between calls, and while bytes are filled in, nothing is asked.         *)
LEMMA NothingAsked ==
  job = NoJob \/ job.op = "fill" => Asked = ABS!NoRequest
BY DEF Asked, NoJob, ABS!NoRequest

LEMMA IdleSeen ==
  ASSUME job = NoJob, NEW a \in Array
  PROVE  Seen(a) = da[a].count
BY ArrayAssumption DEF Seen, NoJob

LEMMA Stutters ==
  ASSUME UNCHANGED <<Initialised, AllContents, Asked, status>>
  PROVE  UNCHANGED ABS!vars
BY DEF ABS!vars

LEMMA InitDarrayRefines == ASSUME IInv, InitDarray PROVE ABS!Next
<1>1. PICK a \in Array : ~Made(a) /\ Begin(a) BY DEF InitDarray
<1>2. job = NoJob /\ job' = NoJob /\ status = "running" /\ UNCHANGED <<mem, status>>
  BY <1>1 DEF InitDarray, Idle, Begin
<1>3. /\ da'[a].capacity = 8 /\ da'[a].count = 0
      /\ \A b \in Array \ {a} : da'[b] = da[b]
  BY <1>1 DEF Begin, IInv, TypeOK
<1>4. da[a].count = 0 BY <1>1 DEF IInv, Kept, NoStruct
<1>5. Initialised' = Initialised \cup {a} /\ a \notin Initialised
  BY <1>1, <1>3 DEF Initialised, Made
<1>6. \A b \in Array : Seen(b)' = Seen(b)
  BY <1>2, <1>3, <1>4, ArrayAssumption DEF Seen, NoJob
<1>7. \A b \in Array : AllContents'[b] = AllContents[b]
  <2> SUFFICES ASSUME NEW b \in Array PROVE AllContents'[b] = AllContents[b]
    OBVIOUS
  <2>1. \A i \in 1 .. da[b].count : At(b, i)' = At(b, i)
    <3>1. CASE b = a BY <1>4, <3>1
    <3>2. CASE b # a BY <1>2, <1>3, <3>2 DEF At
    <3> QED BY <3>1, <3>2
  <2> QED BY <1>6, <2>1, ContentsKept
<1>8. AllContents' = AllContents BY <1>7, AllContentsKept
<1>9. Asked = ABS!NoRequest /\ Asked' = Asked BY <1>2, NothingAsked DEF Asked
<1>10. ABS!Create(a) BY <1>2, <1>5, <1>8, <1>9 DEF ABS!Create, ABS!Quiet
<1> QED BY <1>2, <1>10 DEF ABS!Next

LEMMA FreeRefines == ASSUME IInv, FreeDarray PROVE ABS!Next
<1>1. PICK a \in Array : /\ Made(a)
                         /\ da' = [da EXCEPT ![a] = NoStruct]
                         /\ mem' = Freed(mem, a)
  BY DEF FreeDarray
<1>2. job = NoJob /\ job' = NoJob /\ status = "running" /\ UNCHANGED status
  BY DEF FreeDarray, Idle
<1>3. da'[a] = NoStruct /\ \A b \in Array \ {a} : da'[b] = da[b]
  BY <1>1 DEF IInv, TypeOK
<1>4. Initialised' = Initialised \ {a} /\ a \in Initialised
  BY <1>1, <1>3 DEF Initialised, Made, NoStruct
<1>5. AllContents'[a] = <<>>
  <2>1. (Seen(a) = 0)' BY <1>2, <1>3, ArrayAssumption DEF Seen, NoJob, NoStruct
  <2>2. (Seen(a) = 0 => AllContents[a] = <<>>)' BY NoneSeen, PTL
  <2> QED BY <2>1, <2>2
<1>6. \A b \in Array \ {a} : AllContents'[b] = AllContents[b]
  <2> SUFFICES ASSUME NEW b \in Array \ {a} PROVE AllContents'[b] = AllContents[b]
    OBVIOUS
  <2>1. Seen(b)' = Seen(b) BY <1>2, <1>3, ArrayAssumption DEF Seen, NoJob
  <2>2. ASSUME NEW i \in 1 .. da[b].count PROVE At(b, i)' = At(b, i)
    <3>1. CASE da[b].src = 0 BY <1>3, <3>1 DEF At
    <3>2. CASE da[b].src # 0
      <4> DEFINE p == da[b].src + i - 1
      <4>1. p \in Extent(b) /\ p \in 1 .. MemSize BY <3>2, Address
      <4>2. p \notin Extent(a) BY <4>1 DEF IInv, BlocksApart
      <4>3. mem'[p] = mem[p] BY <1>1, <4>1, <4>2 DEF Freed
      <4> QED BY <1>3, <3>2, <4>3 DEF At
    <3> QED BY <3>1, <3>2
  <2> QED BY <2>1, <2>2, ContentsKept
<1>7. AllContents' = [AllContents EXCEPT ![a] = <<>>]
  BY <1>5, <1>6 DEF AllContents
<1>8. Asked = ABS!NoRequest /\ Asked' = Asked BY <1>2, NothingAsked DEF Asked
<1>9. ABS!Destroy(a) BY <1>2, <1>4, <1>7, <1>8 DEF ABS!Destroy, ABS!Quiet
<1> QED BY <1>2, <1>9 DEF ABS!Next

LEMMA NodeRefines == ASSUME IInv, CreateNode PROVE UNCHANGED ABS!vars
<1>1. PICK p \in Blocks(NodeSize) : mem' = Write(p, [i \in 1 .. NodeSize |-> NodeByte])
  BY DEF CreateNode
<1>2. UNCHANGED <<da, job, status>> /\ Allocator = "ARENA" /\ NodeSize \in Nat \ {0}
  BY SizeAssumption DEF CreateNode
<1>3. p # 0 BY <1>2 DEF Blocks, ArenaBlocks, IInv, TypeOK
<1>4. p \in Nat /\ \A a \in Array : (p .. p + NodeSize - 1) \cap Extent(a) = {}
  BY <1>2, <1>3, NewBlock
<1>5. \A a \in Array : AllContents'[a] = AllContents[a]
  <2> SUFFICES ASSUME NEW a \in Array PROVE AllContents'[a] = AllContents[a]
    OBVIOUS
  <2>1. Seen(a)' = Seen(a) BY <1>2 DEF Seen
  <2>2. ASSUME NEW i \in 1 .. da[a].count PROVE At(a, i)' = At(a, i)
    <3>1. CASE da[a].src = 0 BY <1>2, <3>1 DEF At
    <3>2. CASE da[a].src # 0
      <4> DEFINE q == da[a].src + i - 1
      <4>1. q \in Extent(a) /\ q \in 1 .. MemSize BY <3>2, Address
      <4>2. q \notin p .. p + NodeSize - 1 BY <1>4, <4>1
      <4>3. Len([k \in 1 .. NodeSize |-> NodeByte]) = NodeSize BY <1>2
      <4>4. mem'[q] = mem[q] BY <1>1, <4>1, <4>2, <4>3 DEF Write
      <4> QED BY <1>2, <3>2, <4>4 DEF At
    <3> QED BY <3>1, <3>2
  <2> QED BY <2>1, <2>2, ContentsKept
<1>6. AllContents' = AllContents BY <1>5, AllContentsKept
<1>7. UNCHANGED <<Initialised, Asked>> BY <1>2 DEF Initialised, Made, Asked
<1> QED BY <1>2, <1>6, <1>7, Stutters

(* What a call that starts asks for.                                       *)
LEMMA AskedType ==
  ASSUME IInv', job' # NoJob, job'.op # "fill"
  PROVE  /\ Asked' \in ABS!Request
         /\ Asked'.to = job'.to /\ Asked'.from = job'.from
         /\ job'.op \in {"push", "string"} => Asked'.op = "append"
<1>1. /\ job'.op \in {"push", "string", "reserve", "concat"}
      /\ job'.to \in Array /\ job'.from \in Array
      /\ job'.data \in Seq(Byte \cup {Junk})
  BY DEF IInv, TypeOK, Job
<1> DEFINE Abs == Byte \cup {Junk, NodeByte, Nul}
<1>2. job'.data \in Seq(Abs) /\ Append(job'.data, Nul) \in Seq(Abs) /\ <<>> \in Seq(Abs)
  <2>1. Byte \cup {Junk} \subseteq Abs /\ Nul \in Abs OBVIOUS
  <2> HIDE DEF Abs
  <2>2. job'.data \in Seq(Abs) BY <1>1, <2>1, SeqOfMore, Zenon
  <2> QED BY <2>1, <2>2
<1>3. Len(job'.data) \in Nat BY <1>1, LenProperties
<1>4. CASE job'.op = "push"
  <2>1. Asked' = [op |-> "append", to |-> job'.to, from |-> job'.from, data |-> job'.data]
    BY <1>4 DEF Asked
  <2> QED BY <1>1, <1>2, <1>4, <2>1 DEF ABS!Request
<1>5. CASE job'.op = "string"
  <2>1. Asked' = [op |-> "append", to |-> job'.to, from |-> job'.from,
                  data |-> Append(job'.data, Nul)]
    BY <1>5 DEF Asked
  <2> QED BY <1>1, <1>2, <1>5, <2>1 DEF ABS!Request
<1>6. CASE job'.op = "reserve"
  <2>1. Asked' = [op |-> "reserve", to |-> job'.to, from |-> job'.from,
                  data |-> Len(job'.data)]
    BY <1>6 DEF Asked
  <2> QED BY <1>1, <1>3, <1>6, <2>1 DEF ABS!Request
<1>7. CASE job'.op = "concat"
  <2>1. Asked' = [op |-> "concat", to |-> job'.to, from |-> job'.from, data |-> <<>>]
    BY <1>7 DEF Asked
  <2> QED BY <1>1, <1>2, <1>7, <2>1 DEF ABS!Request
<1> QED BY <1>1, <1>4, <1>5, <1>6, <1>7

LEMMA StartRefines ==
  ASSUME IInv, IInv', Starts, NEW a \in Array, NEW b \in Array, Made(a), Made(b),
         NEW op \in Adds, NEW data, NewJob(op, a, b, data)
  PROVE  ABS!Next \/ UNCHANGED ABS!vars
<1>1. /\ job = NoJob /\ status = "running" /\ UNCHANGED <<mem, da, status>>
  BY DEF Starts, Idle
<1>2. job' = [op |-> op, to |-> a, from |-> b, data |-> data,
              base |-> da[a].count, done |-> 0]
  BY <1>1 DEF NewJob
<1>3. job'.op = op /\ job'.to = a /\ job'.from = b /\ job'.base = da[a].count
  BY <1>2
<1>4. job' # NoJob
  <2>1. op # "none" BY DEF Adds
  <2> QED BY <1>3, <2>1 DEF NoJob
<1>5. \A c \in Array : AllContents'[c] = AllContents[c]
  <2> SUFFICES ASSUME NEW c \in Array PROVE AllContents'[c] = AllContents[c]
    OBVIOUS
  <2>1. Seen(c) = da[c].count BY <1>1, IdleSeen
  <2>2. Seen(c)' = da[c].count BY <1>1, <1>3 DEF Seen
  <2>3. \A i \in 1 .. da[c].count : At(c, i)' = At(c, i) BY <1>1 DEF At
  <2> QED BY <2>1, <2>2, <2>3, ContentsKept
<1>6. AllContents' = AllContents /\ Initialised' = Initialised
  BY <1>1, <1>5, AllContentsKept DEF Initialised, Made
<1>7. Asked = ABS!NoRequest BY <1>1, NothingAsked
<1>8. CASE op = "fill"
  <2>1. Asked' = Asked BY <1>3, <1>7, <1>8 DEF Asked, ABS!NoRequest
  <2> QED BY <1>1, <1>6, <2>1, Stutters
<1>9. CASE op # "fill"
  <2>1. /\ Asked' \in ABS!Request /\ Asked'.to = a /\ Asked'.from = b
    BY <1>3, <1>4, <1>9, AskedType
  <2>2. {Asked'.to, Asked'.from} \subseteq Initialised BY <2>1 DEF Initialised
  <2>3. ABS!Ask BY <1>1, <1>6, <1>7, <2>1, <2>2 DEF ABS!Ask, ABS!Quiet
  <2> QED BY <1>1, <2>3 DEF ABS!Next
<1> QED BY <1>8, <1>9

LEMMA CallsRefine ==
  ASSUME IInv, IInv', Push \/ PushReplicatedByte \/ Reserve \/ PushDarray
  PROVE  ABS!Next \/ UNCHANGED ABS!vars
<1>1. /\ Starts
      /\ \E a, b \in Array, op \in Adds : \E data :
           Made(a) /\ Made(b) /\ NewJob(op, a, b, data)
  BY DEF Push, PushReplicatedByte, Reserve, PushDarray, Adds
<1>2. PICK a \in Array, b \in Array, op \in Adds : \E data :
        Made(a) /\ Made(b) /\ NewJob(op, a, b, data)
  BY <1>1
<1>3. PICK data : Made(a) /\ Made(b) /\ NewJob(op, a, b, data) BY <1>2
<1> QED BY <1>1, <1>2, <1>3, StartRefines

LEMMA StringRefines == ASSUME IInv, IInv', StringInitFrom PROVE ABS!Next
<1>1. PICK a \in Array, data \in Payload :
        Idle /\ ~Made(a) /\ Begin(a) /\ NewJob("string", a, a, data)
  BY DEF StringInitFrom
<1>2. job = NoJob /\ status = "running" /\ UNCHANGED <<mem, status>>
  BY <1>1 DEF Idle, Begin
<1>3. /\ da'[a].capacity = 8 /\ da'[a].count = 0
      /\ \A b \in Array \ {a} : da'[b] = da[b]
  BY <1>1 DEF Begin, IInv, TypeOK
<1>4. da[a].count = 0 BY <1>1 DEF IInv, Kept, NoStruct
<1>5. job' = [op |-> "string", to |-> a, from |-> a, data |-> data, base |-> 0, done |-> 0]
  BY <1>1, <1>3 DEF NewJob
<1>6. job'.op = "string" /\ job'.to = a /\ job'.base = 0 /\ job' # NoJob
  <2>1. job'.op = "string" /\ job'.to = a /\ job'.base = 0 BY <1>5
  <2> QED BY <2>1 DEF NoJob
<1>7. Initialised' = Initialised \cup {a} /\ a \notin Initialised
  BY <1>1, <1>3 DEF Initialised, Made
<1>8. \A b \in Array : AllContents'[b] = AllContents[b]
  <2> SUFFICES ASSUME NEW b \in Array PROVE AllContents'[b] = AllContents[b]
    OBVIOUS
  <2>1. Seen(b) = da[b].count BY <1>2, IdleSeen
  <2>2. Seen(b)' = da[b].count BY <1>3, <1>4, <1>6 DEF Seen
  <2>3. \A i \in 1 .. da[b].count : At(b, i)' = At(b, i)
    <3>1. CASE b = a BY <1>4, <3>1
    <3>2. CASE b # a BY <1>2, <1>3, <3>2 DEF At
    <3> QED BY <3>1, <3>2
  <2> QED BY <2>1, <2>2, <2>3, ContentsKept
<1>9. AllContents' = AllContents BY <1>8, AllContentsKept
<1>10. Asked = ABS!NoRequest BY <1>2, NothingAsked
<1>11. /\ Asked' \in ABS!Request /\ Asked'.to = a /\ Asked'.op = "append"
  BY <1>6, AskedType
<1>12. ABS!CreateFrom(a)
  BY <1>2, <1>7, <1>9, <1>10, <1>11 DEF ABS!CreateFrom, ABS!Quiet
<1> QED BY <1>2, <1>12 DEF ABS!Next

-----------------------------------------------------------------------------
(* The loop of a call: nothing is to be seen of it but its end.            *)

(* The process ends; nothing else changes.                                 *)
LEMMA AbortRefines ==
  ASSUME IInv, status = "running", NEW how \in {"aborted", "segv"}, Abort(how)
  PROVE  ABS!Next
<1>1. UNCHANGED <<mem, da, job>> /\ status' # "running" BY DEF Abort
<1>2. \A a \in Array : AllContents'[a] = AllContents[a]
  <2> SUFFICES ASSUME NEW a \in Array PROVE AllContents'[a] = AllContents[a]
    OBVIOUS
  <2>1. Seen(a)' = Seen(a) /\ \A i \in 1 .. da[a].count : At(a, i)' = At(a, i)
    BY <1>1 DEF Seen, At
  <2> QED BY <2>1, ContentsKept
<1>3. UNCHANGED <<Initialised, AllContents, Asked>>
  BY <1>1, <1>2, AllContentsKept DEF Initialised, Made, Asked
<1>4. ABS!Fail BY <1>1, <1>3 DEF ABS!Fail
<1> QED BY <1>4 DEF ABS!Next

LEMMA GrowRefines ==
  ASSUME IInv, Grow
  PROVE  ABS!Next \/ UNCHANGED ABS!vars
<1>1. status = "running" /\ Busy BY DEF Grow, Adding, Busy
<1>2. CASE Abort("aborted") \/ Abort("segv") BY <1>1, <1>2, AbortRefines
<1>3. CASE ~(Abort("aborted") \/ Abort("segv"))
  <2>1. UNCHANGED status BY <1>3 DEF Grow
  <2>2. /\ job' = job /\ Dest.capacity # 0 /\ da'[job.to].capacity # 0
        /\ \A a \in Array \ {job.to} : da'[a] = da[a]
        /\ \A a \in Array : da'[a].count = da[a].count
        /\ \A a \in Array : \A i \in 1 .. da[a].count : At(a, i)' = At(a, i)
    BY <1>1, <2>1, GrowAt
  <2>3. \A a \in Array : AllContents'[a] = AllContents[a]
    <3> SUFFICES ASSUME NEW a \in Array PROVE AllContents'[a] = AllContents[a]
      OBVIOUS
    <3>1. Seen(a)' = Seen(a) BY <2>2 DEF Seen
    <3> QED BY <2>2, <3>1, ContentsKept
  <2>4. AllContents' = AllContents BY <2>3, AllContentsKept
  <2>5. UNCHANGED <<Initialised, Asked>> BY <2>2 DEF Initialised, Made, Asked, Dest
  <2> QED BY <2>1, <2>4, <2>5, Stutters
<1> QED BY <1>2, <1>3

(* A call adds bytes after those that were there when it began.            *)
LEMMA AddingRefines ==
  ASSUME IInv, Busy, UNCHANGED status,
         job' \in Job, job'.to = job.to, job'.from = job.from, job'.base = job.base,
         job'.op = job.op, job'.data = job.data,
         \A a \in Array \ {job.to} : da'[a] = da[a],
         da'[job.to].capacity = Dest.capacity,
         \A a \in Array : \A i \in 1 .. da[a].count : At(a, i)' = At(a, i)
  PROVE  UNCHANGED ABS!vars
<1>1. job.to \in Array BY BusyFacts
<1>2. \A a \in Array : AllContents'[a] = AllContents[a]
  <2> SUFFICES ASSUME NEW a \in Array PROVE AllContents'[a] = AllContents[a]
    OBVIOUS
  <2>1. Seen(a)' = Seen(a) BY DEF Seen
  <2> QED BY <2>1, ContentsKept
<1>3. AllContents' = AllContents BY <1>2, AllContentsKept
<1>4. Initialised' = Initialised
  <2>1. \A a \in Array : da'[a].capacity = da[a].capacity BY <1>1 DEF Dest
  <2> QED BY <2>1 DEF Initialised, Made
<1>5. Asked' = Asked BY DEF Asked
<1> QED BY <1>3, <1>4, <1>5, Stutters

LEMMA StoreRefines == ASSUME IInv, Store PROVE UNCHANGED ABS!vars
<1>1. UNCHANGED status BY DEF Store
<1>2. \A a \in Array : \A i \in 1 .. da[a].count : At(a, i)' = At(a, i) BY StoreAt
<1> QED BY <1>1, <1>2, StoreFacts, AddingRefines

LEMMA StoreNowhereRefines ==
  ASSUME IInv, StoreNowhere
  PROVE  ABS!Next \/ UNCHANGED ABS!vars
<1>1. status = "running" BY DEF StoreNowhere, Adding, Busy
<1>2. CASE Abort("segv") BY <1>1, <1>2, AbortRefines
<1>3. CASE ~Abort("segv")
  <2>1. UNCHANGED status BY <1>3 DEF StoreNowhere
  <2>2. job.to \in Array BY <1>1, <2>1, ReserveFacts, BusyFacts
  <2>3. \A a \in Array : da'[a].src = da[a].src /\ UNCHANGED mem
    BY <1>1, <2>1, <2>2, ReserveFacts DEF Dest
  <2>4. \A a \in Array : \A i \in 1 .. da[a].count : At(a, i)' = At(a, i)
    BY <2>3 DEF At
  <2> QED BY <1>1, <2>1, <2>4, ReserveFacts, AddingRefines
<1> QED BY <1>2, <1>3

-----------------------------------------------------------------------------
(* The end of a call.                                                      *)

LEMMA Joined ==
  ASSUME NEW S, NEW o \in Seq(S), NEW d \in Seq(S), NEW n \in Seq(S),
         Len(n) = Len(o) + Len(d),
         \A i \in 1 .. Len(o) : n[i] = o[i],
         \A i \in 1 .. Len(d) : n[Len(o) + i] = d[i]
  PROVE  n = o \o d
<1>1. Len(o) \in Nat /\ Len(d) \in Nat /\ Len(n) \in Nat BY LenProperties
<1>2. o \o d \in Seq(S) /\ Len(o \o d) = Len(o) + Len(d) BY ConcatProperties
<1>3. ASSUME NEW i \in 1 .. Len(n) PROVE n[i] = (o \o d)[i]
  <2>1. CASE i <= Len(o)
    <3>1. (o \o d)[i] = o[i] BY <1>1, <2>1, ConcatProperties
    <3>2. i \in 1 .. Len(o) BY <1>1, <2>1
    <3> QED BY <3>1, <3>2
  <2>2. CASE ~(i <= Len(o))
    <3> DEFINE k == i - Len(o)
    <3>1. (o \o d)[i] = d[k] BY <1>1, <2>2, ConcatProperties
    <3>2. k \in 1 .. Len(d) /\ i = Len(o) + k BY <1>1, <2>2
    <3> HIDE DEF k
    <3> QED BY <3>1, <3>2
  <2> QED BY <2>1, <2>2
<1> QED BY <1>1, <1>2, <1>3, SeqEqual

LEMMA ReturnRefines ==
  ASSUME IInv, IInv', Progress, Return
  PROVE  ABS!Next \/ UNCHANGED ABS!vars
<1> SUFFICES ASSUME NEW t, NEW f, NEW b, NEW d,
                    t = job.to, f = job.from, b = job.base, d = job.data
             PROVE  ABS!Next \/ UNCHANGED ABS!vars
  OBVIOUS
<1>1. /\ Busy /\ status = "running" /\ job.done >= Chunks /\ job' = NoJob
      /\ UNCHANGED <<mem, da, status>>
  BY DEF Return, Busy
<1>2. /\ t \in Array /\ f \in Array /\ b \in Nat /\ job.done \in Nat
      /\ d \in Seq(Byte \cup {Junk}) /\ job # NoJob /\ Dest = da[t]
      /\ job.op \in {"push", "string", "fill", "reserve", "concat"}
  BY <1>1, BusyFacts DEF Busy, Job, Dest
<1> DEFINE O == AllContents[t]
           N == AllContents'[t]
<1>3. /\ \A a \in Array : Seen(a)' = da[a].count
      /\ Seen(t) = b /\ \A a \in Array \ {t} : Seen(a) = da[a].count
      /\ \A a \in Array : \A i : At(a, i)' = At(a, i)
  BY <1>1, ArrayAssumption DEF Seen, NoJob, At
<1>4. \A a \in Array \ {t} : AllContents'[a] = AllContents[a]
  BY <1>3, ContentsKept
<1>5. /\ O \in Seq(AnyByte) /\ Len(O) = b /\ \A i \in 1 .. b : O[i] = At(t, i)
  BY <1>2, <1>3, ContentsProperties
<1>6. /\ N \in Seq(AnyByte) /\ Len(N) = da[t].count
      /\ \A i \in 1 .. da[t].count : N[i] = At(t, i)
  <2>1. /\ AllContents'[t] \in Seq(AnyByte) /\ Len(AllContents'[t]) = Seen(t)'
        /\ \A i \in 1 .. Seen(t)' : AllContents'[t][i] = At(t, i)'
    BY <1>2, ContentsNext
  <2> QED BY <1>2, <1>3, <2>1
<1>7. AllContents' = [AllContents EXCEPT ![t] = N] BY <1>4 DEF AllContents
<1>8. Initialised' = Initialised BY <1>1 DEF Initialised, Made
<1>9. Asked' = ABS!NoRequest BY <1>1 DEF Asked, NoJob, ABS!NoRequest
<1>10. da[t].count \in Nat /\ b <= da[t].count /\ Len(d) \in Nat
  BY <1>1, <1>2, ArrayFacts, BusyFacts, LenProperties
<1>11. \A i \in 1 .. b : N[i] = O[i] BY <1>2, <1>5, <1>6, <1>10
<1>12. d \in Seq(AnyByte) /\ Append(d, Nul) \in Seq(AnyByte)
  <2>1. Byte \cup {Junk} \subseteq AnyByte /\ Nul \in AnyByte BY DEF AnyByte
  <2>2. d \in Seq(AnyByte) BY <1>2, <2>1, SeqOfMore, Zenon
  <2> QED BY <2>1, <2>2
<1> HIDE DEF O, N
<1>20. ASSUME NEW x \in Seq(AnyByte), da[t].count = b + Len(x),
              \A i \in 1 .. Len(x) : At(t, b + i) = x[i]
       PROVE  N = O \o x
  <2>1. Len(N) = Len(O) + Len(x) BY <1>5, <1>6, <1>20
  <2>2. \A i \in 1 .. Len(O) : N[i] = O[i] BY <1>5, <1>11
  <2>3. \A i \in 1 .. Len(x) : N[Len(O) + i] = x[i]
    <3> SUFFICES ASSUME NEW i \in 1 .. Len(x) PROVE N[Len(O) + i] = x[i]
      OBVIOUS
    <3>1. Len(x) \in Nat BY <1>20, LenProperties
    <3>2. b + i \in 1 .. da[t].count BY <1>2, <1>20, <3>1
    <3> QED BY <1>5, <1>6, <1>20, <3>2
  <2> QED BY <1>5, <1>6, <2>1, <2>2, <2>3, Joined
<1>13. ASSUME Asked.op # "none", Asked.to = t, ABS!Outcome(O, N)
       PROVE  ABS!Next
  <2>1. AllContents[Asked.to] = O /\ AllContents'[Asked.to] = N BY <1>13 DEF O, N
  <2>2. ~ABS!Quiet BY <1>13 DEF ABS!Quiet, ABS!NoRequest
  <2>3. ABS!Answer
    BY <1>1, <1>7, <1>8, <1>9, <1>13, <2>1, <2>2 DEF ABS!Answer
  <2> QED BY <1>1, <2>3 DEF ABS!Next
<1>14. CASE job.op = "push"
  <2>1. Asked.op = "append" /\ Asked.to = t /\ Asked.data = d BY <1>14 DEF Asked
  <2>2. da[t].count = b + Len(d) /\ \A i \in 1 .. Len(d) : At(t, b + i) = d[i]
    BY <1>1, <1>2, <1>14 DEF Progress, Chunks
  <2>3. N = O \o d BY <1>12, <1>20, <2>2
  <2>4. ABS!Outcome(O, N) BY <2>1, <2>3 DEF ABS!Outcome
  <2> QED BY <1>13, <2>1, <2>4
<1>15. CASE job.op = "string"
  <2>1. Asked.op = "append" /\ Asked.to = t /\ Asked.data = Append(d, Nul)
    BY <1>15 DEF Asked
  <2>2. /\ job.done = 2 /\ b = 0 /\ da[t].count = Len(d) + 1
        /\ \A i \in 1 .. Len(d) : At(t, i) = d[i]
        /\ At(t, Len(d) + 1) = Nul
    BY <1>1, <1>2, <1>10, <1>15 DEF Progress, Chunks
  <2>3. Len(Append(d, Nul)) = Len(d) + 1 BY <1>12
  <2>4. \A i \in 1 .. Len(Append(d, Nul)) : At(t, b + i) = Append(d, Nul)[i]
    <3> SUFFICES ASSUME NEW i \in 1 .. Len(d) + 1
                 PROVE  At(t, b + i) = Append(d, Nul)[i]
      BY <2>3
    <3>1. b + i = i BY <1>10, <2>2
    <3>2. CASE i = Len(d) + 1 BY <1>12, <2>2, <3>1, <3>2
    <3>3. CASE i \in 1 .. Len(d) BY <1>12, <2>2, <3>1, <3>3
    <3>4. i = Len(d) + 1 \/ i \in 1 .. Len(d) BY <1>10
    <3> QED BY <3>2, <3>3, <3>4
  <2>5. N = O \o Append(d, Nul)
    <3>1. da[t].count = b + Len(Append(d, Nul)) BY <1>10, <2>2, <2>3
    <3> QED BY <1>12, <1>20, <2>4, <3>1
  <2>6. ABS!Outcome(O, N) BY <2>1, <2>5 DEF ABS!Outcome
  <2> QED BY <1>13, <2>1, <2>6
<1>16. CASE job.op = "reserve"
  <2>1. Asked.op = "reserve" /\ Asked.to = t /\ Asked.data = Len(d)
    BY <1>16 DEF Asked
  <2>2. da[t].count = b + Len(d) BY <1>1, <1>2, <1>16 DEF Progress, Chunks
  <2>3. SubSeq(N, 1, Len(O)) = O
    <3>1. \A i \in 1 .. b : N[i] \in AnyByte BY <1>5, <1>11, ElementOfSeq
    <3>2. /\ SubSeq(N, 1, b) \in Seq(AnyByte) /\ Len(SubSeq(N, 1, b)) = b
          /\ \A i \in 1 .. b : SubSeq(N, 1, b)[i] = N[i]
      BY <1>2, <3>1, SubSeqProperties
    <3> QED BY <1>5, <1>11, <3>2, SeqEqual
  <2>4. ABS!Outcome(O, N) BY <1>5, <1>6, <2>1, <2>2, <2>3 DEF ABS!Outcome
  <2> QED BY <1>13, <2>1, <2>4
<1>17. CASE job.op = "concat"
  <2>1. Asked.op = "concat" /\ Asked.to = t /\ Asked.from = f BY <1>17 DEF Asked
  <2>2. /\ job.done = da[f].count /\ da[t].count = b + job.done
        /\ \A i \in 1 .. job.done : At(t, b + i) = At(f, i)
        /\ f = t => job.done = 0 \/ b # 0
    <3>1. da[f].count \in Nat BY <1>2, ArrayFacts
    <3> QED BY <1>1, <1>2, <1>17, <3>1 DEF Progress, Chunks
  <2>3. f = t => job.done = 0 /\ b = 0
    <3>1. ASSUME f = t PROVE b = 0 BY <1>2, <2>2, <3>1
    <3> QED BY <2>2, <3>1
  <2>4. AllContents[f] \in Seq(AnyByte) /\ Len(AllContents[f]) = Seen(f)
        /\ \A i \in 1 .. Seen(f) : AllContents[f][i] = At(f, i)
    BY <1>2, ContentsProperties
  <2>5. Seen(f) = job.done BY <1>2, <1>3, <2>2, <2>3
  <2>6. N = O \o AllContents[f] BY <1>20, <2>2, <2>4, <2>5
  <2>7. ABS!Outcome(O, N) BY <2>1, <2>6 DEF ABS!Outcome
  <2> QED BY <1>13, <2>1, <2>7
<1>18. CASE job.op = "fill"
  <2>1. da[t].count = b BY <1>2, <1>18 DEF Progress
  <2>2. N = O BY <1>5, <1>6, <1>11, <2>1, SeqEqual
  <2>3. AllContents' = AllContents
    <3>1. \A a \in Array : AllContents'[a] = AllContents[a] BY <1>4, <2>2 DEF O, N
    <3> QED BY <3>1, AllContentsKept
  <2>4. Asked' = Asked BY <1>9, <1>18, NothingAsked
  <2> QED BY <1>1, <1>8, <2>3, <2>4, Stutters
<1> QED BY <1>2, <1>14, <1>15, <1>16, <1>17, <1>18

-----------------------------------------------------------------------------
(* A removal.                                                              *)

LEMMA Factor ==
  ASSUME NEW s \in Nat \ {0}, NEW n \in Nat, s * n = 0
  PROVE  n = 0
OBVIOUS

LEMMA WholeItems ==
  ASSUME NEW count \in Nat, NEW size \in Nat \ {0}, NEW i \in Nat,
         i < count \div size, count % size = 0
  PROVE  /\ count \div size - i - 1 \in Nat
         /\ size * i \in Nat /\ size * (count \div size - i - 1) \in Nat
         /\ size * i + size + size * (count \div size - i - 1) = count
         /\ size * (i + 1) + 1 = size * i + size + 1
<1> DEFINE q == count \div size
           k == q - i - 1
<1>1. q \in Nat /\ size * q = count OBVIOUS
<1> HIDE DEF q
<1>2. k \in Nat BY <1>1 DEF q
<1>3. size * i \in Nat /\ size * k \in Nat /\ size * q \in Nat BY <1>1, <1>2
<1>4. size * i + size + size * k = size * q BY <1>1, <1>2
<1>5. size * (i + 1) + 1 = size * i + size + 1 OBVIOUS
<1> QED BY <1>1, <1>2, <1>3, <1>4, <1>5 DEF q

(* n is o without the `size` bytes after the first x: with k bytes left    *)
(* after them, byte for byte; and as sequences are cut.                    *)
IsCut(o, n, x, size, k) ==
  /\ Len(o) = x + size + k /\ Len(n) = x + k
  /\ \A j \in 1 .. x : n[j] = o[j]
  /\ \A j \in 1 .. k : n[x + j] = o[x + size + j]

Cut(o, x, size) == SubSeq(o, 1, x) \o SubSeq(o, x + size + 1, Len(o))

LEMMA CutOut ==
  ASSUME NEW S, NEW o \in Seq(S), NEW n \in Seq(S),
         NEW x \in Nat, NEW size \in Nat \ {0}, NEW k \in Nat,
         IsCut(o, n, x, size, k)
  PROVE  n = Cut(o, x, size)
<1> DEFINE front == SubSeq(o, 1, x)
           back == SubSeq(o, x + size + 1, Len(o))
<1> USE DEF IsCut
<1>1. \A j \in 1 .. Len(o) : o[j] \in S BY ElementOfSeq
<1>2. front \in Seq(S) /\ Len(front) = x /\ \A j \in 1 .. x : front[j] = o[j]
  <2>1. \A j \in 1 .. x : j \in 1 .. Len(o) OBVIOUS
  <2>2. \A j \in 1 .. x : o[j] \in S BY <1>1, <2>1
  <2> QED BY <2>2, SubSeqProperties
<1>3. back \in Seq(S) /\ Len(back) = k /\ \A j \in 1 .. k : back[j] = o[x + size + j]
  <2> DEFINE m == x + size + 1
  <2>1. m \in Nat /\ Len(o) \in Nat /\ m <= Len(o) + 1 /\ Len(o) - m + 1 = k
    OBVIOUS
  <2>2. \A j \in m .. Len(o) : o[j] \in S
    <3>1. \A j \in m .. Len(o) : j \in 1 .. Len(o) OBVIOUS
    <3> QED BY <1>1, <3>1
  <2>3. \A j \in 1 .. k : m + j - 1 = x + size + j OBVIOUS
  <2> HIDE DEF m
  <2>4. /\ SubSeq(o, m, Len(o)) \in Seq(S)
        /\ Len(SubSeq(o, m, Len(o))) = k
        /\ \A j \in 1 .. k : SubSeq(o, m, Len(o))[j] = o[m + j - 1]
    BY <2>1, <2>2, SubSeqProperties
  <2>5. \A j \in 1 .. k : o[m + j - 1] = o[x + size + j] BY <2>3
  <2> QED BY <2>4, <2>5 DEF m
<1> HIDE DEF front, back
<1>4. /\ Len(n) = Len(front) + Len(back)
      /\ \A j \in 1 .. Len(front) : n[j] = front[j]
      /\ \A j \in 1 .. Len(back) : n[Len(front) + j] = back[j]
  BY <1>2, <1>3
<1>5. n = front \o back BY <1>2, <1>3, <1>4, Joined
<1> QED BY <1>5 DEF front, back, Cut

(* With a single item behind the one removed, no byte is copied that was   *)
(* overwritten before.                                                     *)
LEMMA SmearOfOne ==
  ASSUME NEW to \in Nat, NEW size \in Nat \ {0}
  PROVE  Smear(to, to + size, size) = Copy(to, to + size, size)
<1> DEFINE s == to + size - to
           once(p) == to + size + (p - to) + s * ((size - 1 - (p - to)) \div s)
<1>1. MemSize \in Nat BY SizeAssumption
<1>2. s = size OBVIOUS
<1>3. ASSUME NEW p \in 1 .. MemSize, p \in to .. to + size - 1
      PROVE  once(p) = to + size + p - to
  <2>1. PICK r \in Nat : r = size - 1 - (p - to) /\ r < size BY <1>1, <1>3
  <2>2. r \div size = 0 BY <2>1
  <2>3. s * ((size - 1 - (p - to)) \div s) = 0 BY <1>2, <2>1, <2>2
  <2> QED BY <1>1, <1>3, <2>3
<1>4. \A p \in 1 .. MemSize :
        (IF p \in to .. to + size - 1 THEN mem[once(p)] ELSE mem[p])
          = IF p \in to .. to + size - 1 THEN mem[to + size + p - to] ELSE mem[p]
  BY <1>3
<1> QED BY <1>4 DEF Smear, Copy

LEMMA Several ==
  ASSUME NEW size \in Nat \ {0}, NEW n \in Nat, n >= 2
  PROVE  size * n > size
<1>1. PICK m \in Nat : n = m + 2 OBVIOUS
<1>2. size * n = size * m + size * 2 BY <1>1
<1>3. size * m \in Nat OBVIOUS
<1> QED BY <1>2, <1>3

(* The item asked for is the one that is cut out.                          *)
LEMMA RemoveCutsOut ==
  ASSUME IInv, IInv', Idle, NEW a \in Array, NEW size \in ItemSizes,
         NEW i \in 0 .. da[a].count, RemoveAt(a, size, i)
  PROVE  /\ ABS!Without(AllContents[a], AllContents'[a], size, i)
         /\ ABS!Remove(a, size, i) /\ i \in 0 .. Len(AllContents[a])
<1>1. a \in Array /\ size \in ItemSizes OBVIOUS
<1>2. i \in 0 .. da[a].count /\ RemoveAt(a, size, i) OBVIOUS
<1> DEFINE c == da[a].count
           s == da[a].src
           x == size * i
           k == size * Left(a, size, i)
<1>3. /\ Made(a) /\ s # 0 /\ c % size = 0 /\ i < c \div size
      /\ mem' \in IF Left(a, size, i) > 0
                  THEN Shifted(s + x, s + x + size, k) ELSE {mem}
      /\ da' = [da EXCEPT ![a].count = @ - size]
      /\ UNCHANGED status /\ job = NoJob /\ job' = NoJob /\ status = "running"
  BY <1>2 DEF RemoveAt, Idle
<1>4. /\ s \in Nat \ {0} /\ da[a].capacity \in Nat /\ c \in Nat /\ c <= da[a].capacity
      /\ s + da[a].capacity <= MemSize + 1 /\ MemSize \in Nat
      /\ Extent(a) = s .. s + da[a].capacity - 1
      /\ size \in Nat \ {0} /\ i \in Nat
  BY <1>1, <1>3, ArrayFacts, SizeAssumption
<1>5. /\ x \in Nat /\ k \in Nat /\ Left(a, size, i) \in Nat
      /\ x + size + k = c
  BY <1>3, <1>4, WholeItems DEF Left
<1>24. size * (i + 1) + 1 = x + size + 1
  BY <1>3, <1>4, WholeItems DEF Left
<1>6. /\ da'[a].src = s /\ da'[a].count = x + k /\ da'[a].capacity = da[a].capacity
      /\ \A b \in Array \ {a} : da'[b] = da[b]
  <2>1. /\ da \in [Array -> Struct]
        /\ da' = [da EXCEPT ![a] = [da[a] EXCEPT !.count = c - size]]
    BY <1>1, <1>3 DEF IInv, TypeOK
  <2>2. c - size = x + k BY <1>4, <1>5
  <2>3. da[a] \in Struct BY <1>1, <2>1
  <2> HIDE DEF c, s, x, k
  <2>4. da'[a] = [da[a] EXCEPT !.count = x + k] BY <1>1, <2>1, <2>2
  <2>5. da'[a].src = da[a].src /\ da'[a].count = x + k /\ da'[a].capacity = da[a].capacity
    BY <2>3, <2>4 DEF Struct
  <2> QED BY <2>1, <2>5 DEF s
<1> DEFINE InOrder == k = 0 \/ mem' = Copy(s + x, s + x + size, k)
<1>7. InOrder \/ mem' = Smear(s + x, s + x + size, k)
  <2>1. CASE Left(a, size, i) > 0 BY <1>3, <2>1 DEF Shifted
  <2>2. CASE Left(a, size, i) = 0 BY <1>4, <2>2
  <2> QED BY <1>5, <2>1, <2>2
<1>21. CopyOrders = {"forward"} => InOrder
  <2>1. CASE Left(a, size, i) > 0 BY <1>3, <2>1 DEF Shifted
  <2>2. CASE Left(a, size, i) = 0 BY <1>4, <2>2
  <2> QED BY <1>5, <2>1, <2>2
<1>22. k <= size => InOrder
  <2>1. CASE Left(a, size, i) = 0 BY <1>4, <2>1
  <2>2. CASE Left(a, size, i) = 1
    <3>1. k = size BY <1>4, <2>2
    <3>4. s \in Nat /\ x \in Nat BY <1>4, <1>5
    <3> HIDE DEF s, x
    <3>2. s + x \in Nat BY <3>4
    <3>3. Smear(s + x, s + x + size, size) = Copy(s + x, s + x + size, size)
      BY <1>4, <3>2, SmearOfOne
    <3> HIDE DEF s, x, k
    <3> QED BY <1>7, <3>1, <3>3
  <2>3. CASE Left(a, size, i) >= 2
    <3>1. k > size BY <1>4, <1>5, <2>3, Several
    <3>2. size \in Nat /\ k \in Nat BY <1>4, <1>5
    <3> HIDE DEF k
    <3> QED BY <3>1, <3>2
  <2> QED BY <1>5, <2>1, <2>2, <2>3
<1>8. k = 0 => mem' = mem
  <2>1. k = 0 => Left(a, size, i) = 0 BY <1>4, <1>5, Factor
  <2> QED BY <1>3, <2>1
<1> HIDE DEF c, s, x, k
<1>25. /\ s \in Nat /\ x \in Nat /\ k \in Nat /\ size \in Nat /\ MemSize \in Nat
       /\ s > 0 /\ x + size + k = c /\ s + c <= MemSize + 1 /\ c \in Nat
  <2>1. /\ s \in Nat \ {0} /\ da[a].capacity \in Nat /\ c \in Nat /\ c <= da[a].capacity
        /\ s + da[a].capacity <= MemSize + 1 /\ MemSize \in Nat
    BY <1>4
  <2>2. PICK cap \in Nat : c <= cap /\ s + cap <= MemSize + 1 BY <2>1
  <2>3. s > 0 /\ s + c <= MemSize + 1 BY <2>1, <2>2
  <2>4. x \in Nat /\ k \in Nat /\ size \in Nat /\ x + size + k = c BY <1>4, <1>5
  <2> QED BY <2>1, <2>3, <2>4
<1>9. \A b \in Array : Seen(b) = da[b].count /\ Seen(b)' = da'[b].count
  BY <1>3, ArrayAssumption DEF Seen, NoJob
<1>10. \A b \in Array \ {a} : AllContents'[b] = AllContents[b]
  <2> SUFFICES ASSUME NEW b \in Array \ {a} PROVE AllContents'[b] = AllContents[b]
    OBVIOUS
  <2>1. Seen(b)' = Seen(b) BY <1>6, <1>9
  <2>2. ASSUME NEW j \in 1 .. da[b].count PROVE At(b, j)' = At(b, j)
    <3>1. CASE da[b].src = 0 BY <1>6, <3>1 DEF At
    <3>2. CASE da[b].src # 0
      <4> DEFINE p == da[b].src + j - 1
      <4>1. p \in Extent(b) /\ p \in 1 .. MemSize BY <3>2, Address
      <4>2. p \notin Extent(a) BY <1>1, <4>1 DEF IInv, BlocksApart
      <4> HIDE DEF p
      <4>3. size \in Nat \ {0} /\ p \in Nat BY <1>4, <4>1
      <4>4. p \notin s + x .. s + x + k - 1
        <5>1. \A q \in s + x .. s + x + k - 1 : q \in s .. s + da[a].capacity - 1
          <6>1. /\ s \in Nat /\ x \in Nat /\ k \in Nat /\ size \in Nat /\ c \in Nat
                /\ x + size + k = c /\ da[a].capacity \in Nat /\ c <= da[a].capacity
            BY <1>4, <1>5
          <6> QED BY <6>1
        <5> QED BY <1>4, <4>2, <5>1
      <4>5. mem'[p] = mem[p] BY <1>7, <1>8, <4>1, <4>4 DEF Copy, Smear
      <4> QED BY <1>6, <3>2, <4>5 DEF At, p
    <3> QED BY <3>1, <3>2
  <2> QED BY <2>1, <2>2, ContentsKept
<1> DEFINE O == AllContents[a]
           N == AllContents'[a]
<1>11. /\ O \in Seq(AnyByte) /\ Len(O) = c /\ \A j \in 1 .. c : O[j] = At(a, j)
  BY <1>1, <1>9, ContentsProperties DEF c
<1>12. /\ N \in Seq(AnyByte) /\ Len(N) = x + k
       /\ \A j \in 1 .. x + k : N[j] = At(a, j)'
  <2>1. /\ AllContents'[a] \in Seq(AnyByte) /\ Len(AllContents'[a]) = Seen(a)'
        /\ \A j \in 1 .. Seen(a)' : AllContents'[a][j] = At(a, j)'
    BY <1>1, ContentsNext
  <2> QED BY <1>1, <1>6, <1>9, <2>1
<1>13. ASSUME NEW j \in 1 .. x PROVE N[j] = O[j]
  <2> DEFINE p == s + j - 1
  <2>1. /\ j \in 1 .. c /\ j \in 1 .. x + k /\ p \in 1 .. MemSize
        /\ p \notin s + x .. s + x + k - 1
    BY <1>25
  <2>2. At(a, j)' = mem'[p] /\ At(a, j) = mem[p] BY <1>4, <1>6 DEF At, s
  <2> HIDE DEF p
  <2>3. mem'[p] = mem[p] BY <1>7, <1>8, <2>1 DEF Copy, Smear
  <2> QED BY <1>11, <1>12, <2>1, <2>2, <2>3
<1>14. ASSUME InOrder, NEW j \in 1 .. k PROVE N[x + j] = O[x + size + j]
  <2> DEFINE p == s + x + j - 1
             q == s + x + size + j - 1
  <2>1. /\ x + j \in 1 .. x + k /\ x + size + j \in 1 .. c /\ k # 0
        /\ p \in 1 .. MemSize /\ p \in s + x .. s + x + k - 1
        /\ s + x + size + p - (s + x) = q
        /\ p = s + (x + j) - 1 /\ q = s + (x + size + j) - 1
    <3>1. j \in Nat /\ 1 <= j /\ j <= k BY <1>25, <1>14
    <3> QED BY <1>25, <3>1
  <2>2. At(a, x + j)' = mem'[p] /\ At(a, x + size + j) = mem[q]
    BY <1>4, <1>6, <2>1 DEF At, s
  <2> HIDE DEF p, q
  <2>3. mem'[p] = mem[q] BY <1>14, <2>1 DEF Copy
  <2> QED BY <1>11, <1>12, <2>1, <2>2, <2>3
<1> HIDE DEF O, N
<1>15. ASSUME InOrder PROVE N = Cut(O, x, size)
  <2>1. x \in Nat /\ k \in Nat /\ size \in Nat \ {0} /\ Len(O) = x + size + k
    BY <1>4, <1>5, <1>11
  <2>2. O \in Seq(AnyByte) /\ N \in Seq(AnyByte) /\ Len(N) = x + k BY <1>11, <1>12
  <2>3. /\ \A j \in 1 .. x : N[j] = O[j]
        /\ \A j \in 1 .. k : N[x + j] = O[x + size + j]
    BY <1>13, <1>14, <1>15
  <2>4. IsCut(O, N, x, size, k) BY <2>1, <2>2, <2>3 DEF IsCut
  <2> QED BY <2>1, <2>2, <2>4, CutOut
<1> HIDE DEF InOrder
<1>16. ABS!Without(O, N, size, i)
  <2> PICK m \in Nat : m = x + size + 1 BY <1>4, <1>5
  <2> DEFINE after == SubSeq(O, m, Len(O))
  <2>6. /\ x \in Nat /\ k \in Nat /\ size \in Nat /\ Len(O) = x + size + k
        /\ Len(N) = x + k
    BY <1>4, <1>5, <1>11, <1>12
  <2>1. Len(N) = Len(O) - size BY <2>6
  <2>2. SubSeq(N, 1, x) = SubSeq(O, 1, x)
    <3>0. /\ x \in Nat /\ k \in Nat /\ size \in Nat /\ Len(O) = x + size + k
          /\ Len(N) = x + k
      BY <2>6
    <3>1. \A j \in 1 .. x : j \in 1 .. Len(O) /\ j \in 1 .. Len(N) BY <3>0
    <3>2. \A j \in 1 .. x : O[j] \in AnyByte /\ N[j] \in AnyByte
      BY <1>11, <1>12, <3>1, ElementOfSeq
    <3>3. /\ SubSeq(O, 1, x) \in Seq(AnyByte) /\ Len(SubSeq(O, 1, x)) = x
          /\ \A j \in 1 .. x : SubSeq(O, 1, x)[j] = O[j]
      BY <1>5, <1>11, <3>2, SubSeqProperties
    <3>4. /\ SubSeq(N, 1, x) \in Seq(AnyByte) /\ Len(SubSeq(N, 1, x)) = x
          /\ \A j \in 1 .. x : SubSeq(N, 1, x)[j] = N[j]
      BY <1>5, <1>12, <3>2, SubSeqProperties
    <3> QED BY <1>13, <3>3, <3>4, SeqEqual
  <2>3. Len(after) = k
    <3>1. Len(O) \in Nat /\ m \in Nat \ {0} /\ m <= Len(O) + 1 /\ Len(O) - m + 1 = k
      BY <2>6
    <3>2. \A j \in m .. Len(O) : j \in 1 .. Len(O) BY <3>1
    <3>3. \A j \in m .. Len(O) : O[j] \in AnyByte BY <1>11, <3>2, ElementOfSeq
    <3> QED BY <3>1, <3>3, SubSeqProperties
  <2>4. CopyOrders = {"forward"} \/ Len(after) <= size => N = SubSeq(O, 1, x) \o after
    BY <1>15, <1>21, <1>22, <2>3 DEF Cut
  <2> HIDE DEF after
  <2>5. m = size * (i + 1) + 1 BY <1>24
  <2> QED BY <2>1, <2>2, <2>4, <2>5 DEF ABS!Without, after, x
<1>23. AllContents' = [AllContents EXCEPT ![a] = AllContents'[a]]
  BY <1>10 DEF AllContents
<1>17. Initialised' = Initialised /\ a \in Initialised
  BY <1>3, <1>6 DEF Initialised, Made
<1>18. Asked = ABS!NoRequest /\ Asked' = Asked BY <1>3, NothingAsked DEF Asked
<1>19. ABS!Remove(a, size, i)
  BY <1>3, <1>11, <1>16, <1>17, <1>18, <1>23 DEF ABS!Remove, ABS!Quiet, O, N, c
<1>20. i \in 0 .. Len(AllContents[a]) BY <1>2, <1>11 DEF O, c
<1> QED BY <1>16, <1>19, <1>20 DEF O, N

LEMMA RemoveRefines ==
  ASSUME IInv, IInv', RemoveItem
  PROVE  ABS!Next
<1>1. PICK a \in Array, size \in ItemSizes :
        \E i \in 0 .. da[a].count : RemoveAt(a, size, i)
  BY DEF RemoveItem
<1>2. PICK i \in 0 .. da[a].count : RemoveAt(a, size, i) BY <1>1
<1>3. Idle BY DEF RemoveItem
<1>4. ABS!Remove(a, size, i) /\ i \in 0 .. Len(AllContents[a])
  BY <1>2, <1>3, RemoveCutsOut
<1> QED BY <1>1, <1>3, <1>4 DEF ABS!Next, Idle

-----------------------------------------------------------------------------
LEMMA StepRefines ==
  ASSUME IInv, IInv', Progress, [Next]_vars
  PROVE  [ABS!Next]_(ABS!vars)
<1>1. CASE InitDarray BY <1>1, InitDarrayRefines
<1>2. CASE CreateNode BY <1>2, NodeRefines
<1>3. CASE ArenaFull BY <1>3, AbortRefines DEF ArenaFull, Idle
<1>4. CASE FreeDarray BY <1>4, FreeRefines
<1>5. CASE Push \/ PushReplicatedByte \/ Reserve \/ PushDarray BY <1>5, CallsRefine
<1>6. CASE StringInitFrom BY <1>6, StringRefines
<1>7. CASE RemoveItem BY <1>7, RemoveRefines
<1>8. CASE Grow BY <1>8, GrowRefines
<1>9. CASE Store BY <1>9, StoreRefines
<1>10. CASE StoreNowhere BY <1>10, StoreNowhereRefines
<1>11. CASE Return BY <1>11, ReturnRefines
<1>12. CASE UNCHANGED vars
  BY <1>12 DEF vars, ABS!vars, Initialised, AllContents, Contents, Bytes, At, Asked, Made
<1> QED BY <1>1, <1>2, <1>3, <1>4, <1>5, <1>6, <1>7, <1>8, <1>9, <1>10, <1>11, <1>12
        DEF Next, Call, Work

(* Wherever blocks lie, however often arrays move and in whatever order    *)
(* memcpy() copies bytes that overlap: what users see of the arrays is     *)
(* what ByteSeq allows.                                                    *)
THEOREM ArraysAreByteSequences == Spec => IsByteSeq
<1>1. Init => ABS!Init BY InitRefines
<1>2. IInv /\ Progress /\ [Next]_vars => Progress' BY ProgressStep
<1>3. IInv /\ IInv' /\ Progress /\ [Next]_vars => [ABS!Next]_(ABS!vars)
  BY StepRefines
<1> QED BY <1>1, <1>2, <1>3, ProgressInit, Sound, PTL
        DEF Spec, IsByteSeq, ABS!Spec

(* Whatever the size of the items and the order of copying, a removal      *)
(* takes out the item asked for, and leaves those before it as they were.  *)
THEOREM RemovalsAreAsAsked == Spec => RemovedAsAsked
<1>1. IInv /\ IInv' => RemovesThatItem BY RemoveCutsOut DEF RemovesThatItem
<1> QED BY <1>1, Sound, PTL DEF Spec, RemovedAsAsked

-----------------------------------------------------------------------------
(* The turns a call has left.                                              *)

(* A loop adds bytes to a block, or moves to a larger one; both have an    *)
(* end, when the memory has.                                               *)
Turns == IF job.op = "concat" \/ job.done > 1 THEN 0 ELSE 2 - job.done

TurnsLeft ==
  IF ~Busy THEN 0
  ELSE 1 + (MemSize + 8 - Dest.capacity) + (MemSize + 8 - Dest.count) + Turns

SpendsTurns == Work => TurnsLeft' \in Nat /\ TurnsLeft' < TurnsLeft

(* An array that malloc() gave no memory has never grown.                  *)
Unplaced == \A a \in Array : da[a].src = 0 => da[a].capacity <= 8

LEMMA StaysUnplaced == ASSUME IInv, IInv', Unplaced, [Next]_vars PROVE Unplaced'
<1>1. CASE \A a \in Array : da'[a].src = da[a].src /\ da'[a].capacity = da[a].capacity
  BY <1>1 DEF Unplaced
<1>2. ASSUME NEW a \in Array, Begin(a) PROVE Unplaced'
  <2>1. PICK p \in Blocks(8) : da' = [da EXCEPT ![a] = [src |-> p, capacity |-> 8, count |-> 0]]
    BY <1>2 DEF Begin
  <2>2. /\ da'[a].capacity = 8 /\ \A b \in Array \ {a} : da'[b] = da[b]
    BY <2>1 DEF IInv, TypeOK
  <2> QED BY <2>2 DEF Unplaced
<1>3. CASE InitDarray \/ StringInitFrom BY <1>2, <1>3 DEF InitDarray, StringInitFrom
<1>4. CASE FreeDarray
  <2>1. PICK a \in Array : da' = [da EXCEPT ![a] = NoStruct] BY <1>4 DEF FreeDarray
  <2>2. /\ da'[a].capacity = 0 /\ \A b \in Array \ {a} : da'[b] = da[b]
    BY <2>1 DEF IInv, TypeOK, NoStruct
  <2> QED BY <2>2 DEF Unplaced
<1>5. CASE RemoveItem
  <2>1. PICK a \in Array, size \in ItemSizes : da' = [da EXCEPT ![a].count = @ - size]
    BY <1>5 DEF RemoveItem, RemoveAt
  <2>2. \A b \in Array : da'[b].src = da[b].src /\ da'[b].capacity = da[b].capacity
    BY <2>1 DEF IInv, TypeOK, Struct
  <2> QED BY <1>1, <2>2
<1>6. CASE UNCHANGED da BY <1>1, <1>6
<1>7. CASE Store
  <2>1. \A b \in Array : da'[b].src = da[b].src /\ da'[b].capacity = da[b].capacity
    BY <1>7, StoreFacts DEF Dest
  <2> QED BY <1>1, <2>1
<1>8. CASE StoreNowhere /\ status' = "running"
  <2>1. \A b \in Array : da'[b].src = da[b].src /\ da'[b].capacity = da[b].capacity
    BY <1>8, ReserveFacts DEF Dest
  <2> QED BY <1>1, <2>1
<1>9. CASE Grow
  <2>1. CASE Abort("aborted") \/ Abort("segv") BY <1>6, <2>1 DEF Abort
  <2>2. ASSUME NEW p \in Blocks(Doubled) \ {0},
               da' = [da EXCEPT ![job.to] =
                        [src |-> p, capacity |-> Doubled, count |-> Dest.count]]
        PROVE  Unplaced'
    <3>1. job.to \in Array BY <1>9, BusyFacts DEF Grow, Adding
    <3>2. /\ da'[job.to].src = p /\ p # 0
          /\ \A b \in Array \ {job.to} : da'[b] = da[b]
      BY <2>2, <3>1 DEF IInv, TypeOK
    <3> QED BY <3>2 DEF Unplaced
  <2> QED BY <1>9, <2>1, <2>2 DEF Grow
<1>10. CASE StoreNowhere /\ status' # "running"
  BY <1>6, <1>10 DEF StoreNowhere, Adding, Busy, Abort
<1>11. CreateNode \/ ArenaFull \/ Push \/ PushReplicatedByte \/ Reserve \/ PushDarray \/ Return
         \/ UNCHANGED vars => UNCHANGED da
  BY DEF CreateNode, ArenaFull, Push, PushReplicatedByte, Reserve, PushDarray, Return, Starts,
         Abort, vars
<1> QED BY <1>3, <1>4, <1>5, <1>6, <1>7, <1>8, <1>9, <1>10, <1>11 DEF Next, Call, Work

LEMMA TurnsType ==
  ASSUME IInv, Unplaced
  PROVE  /\ TurnsLeft \in Nat
         /\ Busy => /\ TurnsLeft > 0 /\ Turns \in Nat /\ MemSize \in Nat
                    /\ Dest.capacity \in Nat /\ Dest.count \in Nat
<1>1. MemSize \in Nat BY SizeAssumption
<1>2. ASSUME Busy
      PROVE  /\ TurnsLeft \in Nat /\ TurnsLeft > 0 /\ Turns \in Nat
             /\ Dest.capacity \in Nat /\ Dest.count \in Nat
  <2>1. job.to \in Array /\ job.done \in Nat BY <1>2, BusyFacts
  <2>2. /\ Dest.capacity \in Nat /\ Dest.count \in Nat /\ Dest.src \in Nat
        /\ Dest.count <= Dest.capacity
        /\ Dest.src # 0 => Dest.src + Dest.capacity <= MemSize + 1
    BY <2>1, ArrayFacts DEF Dest
  <2>3. Dest.src = 0 => Dest.capacity <= 8 BY <2>1 DEF Unplaced, Dest
  <2>4. Dest.capacity <= MemSize + 8 BY <1>1, <2>2, <2>3
  <2>5. Turns \in Nat BY <2>1 DEF Turns
  <2>6. TurnsLeft = 1 + (MemSize + 8 - Dest.capacity) + (MemSize + 8 - Dest.count) + Turns
    BY <1>2 DEF TurnsLeft
  <2> QED BY <1>1, <2>2, <2>4, <2>5, <2>6
<1>3. CASE ~Busy BY <1>3 DEF TurnsLeft
<1> QED BY <1>1, <1>2, <1>3

LEMMA TurnsCounted == (IInv /\ Unplaced => TurnsLeft \in Nat)'
<1>1. IInv /\ Unplaced => TurnsLeft \in Nat BY TurnsType
<1> QED BY <1>1, PTL

LEMMA WorkSpends == ASSUME IInv, IInv', Unplaced, Unplaced', Work PROVE SpendsTurns
<1>1. Busy BY DEF Work, Grow, Store, StoreNowhere, Return, Adding
<1>2. /\ TurnsLeft \in Nat /\ TurnsLeft > 0 /\ Turns \in Nat /\ MemSize \in Nat
      /\ Dest.capacity \in Nat /\ Dest.count \in Nat
      /\ TurnsLeft = 1 + (MemSize + 8 - Dest.capacity) + (MemSize + 8 - Dest.count) + Turns
  BY <1>1, TurnsType DEF TurnsLeft
<1>3. TurnsLeft' \in Nat BY TurnsCounted
<1>4. CASE ~Busy'
  <2>1. TurnsLeft' = 0 BY <1>4 DEF TurnsLeft
  <2> QED BY <1>2, <2>1 DEF SpendsTurns
<1>5. ASSUME NEW c \in Nat, NEW n \in Nat, NEW t \in Nat, Busy',
             Dest'.capacity = c, Dest'.count = n, Turns' = t,
             c + n - t > Dest.capacity + Dest.count - Turns
      PROVE  SpendsTurns
  <2>1. TurnsLeft' = 1 + (MemSize + 8 - c) + (MemSize + 8 - n) + t BY <1>5 DEF TurnsLeft
  <2>2. TurnsLeft' < TurnsLeft BY <1>2, <1>5, <2>1
  <2> QED BY <1>3, <2>2 DEF SpendsTurns
<1>6. job.to \in Array /\ job.done \in Nat /\ Dest = da[job.to] /\ Dest.capacity # 0
  BY <1>1, BusyFacts DEF Dest
<1>7. CASE Grow /\ Busy'
  <2>1. status' = "running" BY <1>7 DEF Busy
  <2>2. job' = job /\ da'[job.to].count = Dest.count BY <1>6, <1>7, <2>1, GrowAt
  <2>3. da'[job.to].capacity = 2 * Dest.capacity
    <3>1. PICK p \in Blocks(Doubled) \ {0} :
            da' = [da EXCEPT ![job.to] =
                    [src |-> p, capacity |-> Doubled, count |-> Dest.count]]
      BY <1>7, <2>1 DEF Grow, Abort
    <3> QED BY <1>6, <3>1 DEF Doubled, IInv, TypeOK
  <2>4. Turns' = Turns BY <2>2 DEF Turns
  <2>5. Dest' = da'[job.to] BY <2>2 DEF Dest
  <2>6. 2 * Dest.capacity + Dest.count - Turns > Dest.capacity + Dest.count - Turns
        /\ 2 * Dest.capacity \in Nat
    BY <1>2, <1>6
  <2> QED BY <1>2, <1>5, <1>7, <2>2, <2>3, <2>4, <2>5, <2>6
<1>8. ASSUME Busy', job.done < Chunks, job'.done = job.done + 1, job'.to = job.to,
             job'.op = job.op, da'[job.to].capacity = Dest.capacity,
             NEW k \in Nat, da'[job.to].count = Dest.count + k, job.op = "concat" => k = 1
      PROVE  SpendsTurns
  <2>1. Dest' = da'[job.to] BY <1>8 DEF Dest
  <2>2. CASE job.op = "concat"
    <3>1. Turns = 0 /\ Turns' = 0 BY <1>8, <2>2 DEF Turns
    <3> QED BY <1>2, <1>5, <1>8, <2>1, <2>2, <3>1
  <2>3. CASE job.op # "concat"
    <3>1. Chunks \in {1, 2} BY <2>3, Zenon DEF Chunks
    <3>2. job.done = 0 \/ job.done = 1 BY <1>6, <1>8, <3>1
    <3>3. Turns' \in Nat /\ Turns' < Turns BY <1>8, <2>3, <3>2 DEF Turns
    <3>4. Dest.count + k \in Nat
          /\ Dest.capacity + (Dest.count + k) - Turns' > Dest.capacity + Dest.count - Turns
      BY <1>2, <1>8, <3>3
    <3> QED BY <1>2, <1>5, <1>8, <2>1, <3>3, <3>4
  <2> QED BY <2>2, <2>3
<1>9. CASE Store /\ Busy'
  <2> DEFINE k == IF job.op = "fill" THEN 0 ELSE Size
  <2>1. k \in Nat /\ da'[job.to].count = Dest.count + k BY <1>9, StoreFacts
  <2>2. job.op = "concat" => k = 1 BY DEF Size
  <2> HIDE DEF k
  <2>3. /\ job.done < Chunks /\ job'.done = job.done + 1 /\ job'.to = job.to
        /\ job'.op = job.op /\ da'[job.to].capacity = Dest.capacity
    BY <1>9, StoreFacts
  <2> QED BY <1>8, <1>9, <2>1, <2>2, <2>3
<1>10. CASE StoreNowhere /\ Busy'
  <2>1. status' = "running" BY <1>10 DEF Busy
  <2>2. /\ job.done < Chunks /\ job'.done = job.done + 1 /\ job'.to = job.to
        /\ job'.op = job.op /\ da'[job.to].capacity = Dest.capacity
        /\ da'[job.to].count = Dest.count + Len(job.data) /\ job.op = "reserve"
    BY <1>10, <2>1, ReserveFacts
  <2>3. Len(job.data) \in Nat BY <1>1, BusyFacts, LenProperties
  <2> QED BY <1>8, <1>10, <2>2, <2>3
<1>11. CASE Return /\ Busy' BY <1>11 DEF Return, Busy
<1> QED BY <1>4, <1>7, <1>9, <1>10, <1>11 DEF Work

(* What CallsEnd rests on: no call turns more often than its block has     *)
(* bytes left and the memory has room to move to, even when an array is    *)
(* added to itself and its end moves on with every byte                    *)
(* (darray.h:11-16, darray.cc:64-68).                                      *)
THEOREM TurnsAreBounded ==
  Spec => [](TurnsLeft <= 2 * MemSize + 19) /\ [][SpendsTurns]_vars
<1>1. Init => Unplaced BY DEF Init, Unplaced, NoStruct
<1>2. IInv /\ IInv' /\ Unplaced /\ [Next]_vars => Unplaced' BY StaysUnplaced
<1>3. IInv /\ IInv' /\ Unplaced /\ Unplaced' /\ [Next]_vars => [SpendsTurns]_vars
  BY WorkSpends DEF SpendsTurns
<1>4. IInv /\ Unplaced => TurnsLeft <= 2 * MemSize + 19
  <2> SUFFICES ASSUME IInv, Unplaced PROVE TurnsLeft <= 2 * MemSize + 19
    OBVIOUS
  <2>1. MemSize \in Nat BY SizeAssumption
  <2>2. CASE ~Busy BY <2>1, <2>2 DEF TurnsLeft
  <2>3. CASE Busy
    <3>1. Dest.capacity \in Nat /\ Dest.count \in Nat BY <2>3, TurnsType
    <3>2. Turns <= 2 /\ Turns \in Nat BY <2>3, BusyFacts DEF Turns
    <3>3. TurnsLeft = 1 + (MemSize + 8 - Dest.capacity) + (MemSize + 8 - Dest.count) + Turns
      BY <2>3 DEF TurnsLeft
    <3> QED BY <2>1, <3>1, <3>2, <3>3
  <2> QED BY <2>2, <2>3
<1> QED BY <1>1, <1>2, <1>3, <1>4, Sound, PTL DEF Spec

=============================================================================
