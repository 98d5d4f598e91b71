------------------------------- MODULE Darray -------------------------------
(***************************************************************************)
(* Dynamic arrays of bytes (darray.cc) and strings (util.cc) in the memory *)
(* of an allocator (arena.cc).  An array is a block of memory, of which    *)
(* the first `count` bytes are in use; it moves to a block of twice the    *)
(* size when a call needs more.  Arena blocks follow one another and are   *)
(* never given back; "DUMB" blocks are malloc()'s.                         *)
(*                                                                         *)
(* A call that adds bytes is the variable `job`; its actions are the turns *)
(* of the loop in darray_grow and the write after it.  Besides arrays, the *)
(* arena holds nodes: blocks of one size that are written once and used    *)
(* for the whole run (create_ast_node in parser.cc).                       *)
(***************************************************************************)
EXTENDS Integers, Sequences, FiniteSets

CONSTANTS Array,        \* the darray structs
          NoArray,
          Allocator,    \* ARENA or DUMB
          MemSize,      \* the bytes the arena has, or the heap
          Align,        \* what malloc() aligns blocks to
          NodeSize,     \* sizeof(Ast_node)
          Byte,         \* the bytes that are pushed
          Payload,      \* the values and raw strings that are pushed
          Reserved,     \* the numbers of bytes that are reserved
          ItemSizes,    \* the sizes of the items that are removed
          CopyOrders    \* how memcpy() may copy overlapping bytes

ASSUME ArrayAssumption == NoArray \notin Array
ASSUME AllocatorAssumption == Allocator \in {"ARENA", "DUMB"}
ASSUME SizeAssumption ==
  /\ MemSize \in Nat /\ Align \in Nat \ {0} /\ NodeSize \in Nat \ {0}
  /\ Reserved \subseteq Nat /\ ItemSizes \subseteq Nat \ {0}
ASSUME PayloadAssumption == Payload \subseteq Seq(Byte)
ASSUME OrderAssumption == CopyOrders \subseteq {"forward", "backward"} /\ CopyOrders # {}

VARIABLES mem,          \* the bytes at addresses 1 .. MemSize; 0 is NULL
          offset,       \* arena->offset
          da,           \* the structs: src, capacity, count
          nodes,        \* the addresses of the nodes in the arena
          job,          \* the call that is adding bytes
          status        \* running, aborted or segv

vars == <<mem, offset, da, nodes, job, status>>

Junk == "junk"          \* the byte of memory that nobody has written
NodeByte == "node"      \* a byte of a node
Nul == "nul"            \* the byte zero

Struct == [src : Nat, capacity : Nat, count : Nat]
NoStruct == [src |-> 0, capacity |-> 0, count |-> 0]
Made(a) == da[a].capacity # 0

(* The bytes of an array's block, if it got one.                           *)
Extent(a) == IF da[a].src = 0 THEN {} ELSE da[a].src .. da[a].src + da[a].capacity - 1
NodeExtent(n) == n .. n + NodeSize - 1

Job == [op : {"push", "string", "fill", "reserve", "concat"},
        to : Array, from : Array,
        data : Seq(Byte \cup {Junk}),
        base : Nat,             \* the count of `to` when the call began
        done : Nat]             \* the chunks already added
NoJob == [op |-> "none", to |-> NoArray, from |-> NoArray, data |-> <<>>,
          base |-> 0, done |-> 0]

Idle == status = "running" /\ job = NoJob
Busy == status = "running" /\ job # NoJob

-----------------------------------------------------------------------------
(* The allocators.                                                         *)

(* arena_allocate(): the next bytes, if there are enough.                  *)
ArenaBlocksLoose(amount) == {offset + 1}      \* slip: the size is not checked
ArenaBlocks(amount) == IF offset + amount > MemSize THEN {} ELSE {offset + 1}

(* malloc(): aligned bytes of nobody, or NULL.                             *)
HeapBlocks(amount) ==
  {0} \cup {p \in 1 .. MemSize + 1 - amount :
              /\ p % Align = 1 % Align
              /\ \A a \in Array : (p .. p + amount - 1) \cap Extent(a) = {}}

Blocks(amount) == IF Allocator = "ARENA" THEN ArenaBlocks(amount) ELSE HeapBlocks(amount)

OffsetKept(amount) == UNCHANGED offset        \* slip: the arena does not advance
Taken(amount) == offset' = IF Allocator = "ARENA" THEN offset + amount ELSE offset

Abort(how) == status' = how /\ UNCHANGED <<mem, offset, da, nodes, job>>

Write(at, s) == [p \in 1 .. MemSize |->
                   IF p \in at .. at + Len(s) - 1 THEN s[p - at + 1] ELSE mem[p]]

Copy(to, from, n) == [p \in 1 .. MemSize |->
                        IF p \in to .. to + n - 1 THEN mem[from + p - to] ELSE mem[p]]

(* The same when the bytes overlap and the last is copied first: a byte    *)
(* that was already overwritten is copied again.                           *)
Smear(to, from, n) ==
  LET s == from - to
  IN  [p \in 1 .. MemSize |->
         IF p \in to .. to + n - 1
         THEN mem[from + (p - to) + s * ((n - 1 - (p - to)) \div s)] ELSE mem[p]]

(* What deallocate() leaves of a block: the arena keeps it, free() does    *)
(* as it likes.                                                            *)
Freed(m, a) == [p \in 1 .. MemSize |->
                  IF Allocator = "DUMB" /\ p \in Extent(a) THEN Junk ELSE m[p]]

-----------------------------------------------------------------------------
Init == /\ mem = [p \in 1 .. MemSize |-> Junk]
        /\ offset = 0
        /\ da = [a \in Array |-> NoStruct]
        /\ nodes = {}
        /\ job = NoJob
        /\ status = "running"

(* init_darray(): nobody looks whether malloc() returned NULL.             *)
Begin(a) == \E p \in Blocks(8) :
              /\ da' = [da EXCEPT ![a] = [src |-> p, capacity |-> 8, count |-> 0]]
              /\ Taken(8)
              /\ UNCHANGED <<mem, nodes, status>>

InitDarray == /\ Idle
              /\ \E a \in Array : ~Made(a) /\ Begin(a)
              /\ UNCHANGED job

(* Another user of the arena takes its bytes and writes them.              *)
CreateNode == /\ Idle /\ Allocator = "ARENA"
              /\ \E p \in Blocks(NodeSize) :
                   /\ nodes' = nodes \cup {p}
                   /\ mem' = Write(p, [i \in 1 .. NodeSize |-> NodeByte])
              /\ Taken(NodeSize)
              /\ UNCHANGED <<da, job, status>>

(* The arena is full.                                                      *)
ArenaFull == /\ Idle /\ Allocator = "ARENA"
             /\ \E amount \in {8, NodeSize} : Blocks(amount) = {}
             /\ Abort("aborted")

(* free_darray() is for blocks of malloc().                                *)
FreeDarray == /\ Idle /\ Allocator = "DUMB"
              /\ \E a \in Array : /\ Made(a)
                                  /\ da' = [da EXCEPT ![a] = NoStruct]
                                  /\ mem' = Freed(mem, a)
              /\ UNCHANGED <<offset, nodes, job, status>>

-----------------------------------------------------------------------------
(* The calls that add bytes.                                               *)

NewJob(op, a, b, data) ==
  job' = [op |-> op, to |-> a, from |-> b, data |-> data,
          base |-> da'[a].count, done |-> 0]

Starts == Idle /\ UNCHANGED <<mem, offset, da, nodes, status>>

(* darray_push(), push_string(), push_bytes(), push_dvalue                 *)
Push == /\ Starts
        /\ \E a \in Array, data \in Payload : Made(a) /\ NewJob("push", a, a, data)

(* push_replicated_byte()                                                  *)
PushReplicatedByte ==
  /\ Starts
  /\ \E a \in Array, b \in Byte, n \in Reserved :
       Made(a) /\ NewJob("fill", a, a, [i \in 1 .. n |-> b])

(* darray_reserve()                                                        *)
Reserve == /\ Starts
           /\ \E a \in Array, n \in Reserved :
                Made(a) /\ NewJob("reserve", a, a, [i \in 1 .. n |-> Junk])

(* push_darray(), which adds one byte at a time                            *)
PushDarray == /\ Starts
              /\ \E a, b \in Array :
                   Made(a) /\ Made(b) /\ NewJob("concat", a, b, <<>>)

(* string_init_from(), in memory of its own                                *)
StringInitFrom ==
  /\ Idle /\ Allocator = "DUMB"
  /\ \E a \in Array, data \in Payload :
       ~Made(a) /\ Begin(a) /\ NewJob("string", a, a, data)

(* Slip: a string is left without its zero.                               *)
NoTerminator == IF job.op = "concat" THEN da[job.from].count ELSE 1

Chunks == CASE job.op = "concat" -> da[job.from].count
            [] job.op = "string" -> 2
            [] OTHER -> 1
Chunk == CASE job.op = "concat" -> <<mem[da[job.from].src + job.done]>>
           [] job.op = "string" /\ job.done = 1 -> <<Nul>>
           [] OTHER -> job.data
Size == IF job.op = "concat" \/ (job.op = "string" /\ job.done = 1)
        THEN 1 ELSE Len(job.data)

Dest == da[job.to]
Adding == Busy /\ job.done < Chunks
Readable == job.op = "concat" => da[job.from].src # 0
RoomLoose == Dest.count + Size <= Dest.capacity + 1     \* slip
Room == Dest.count + Size <= Dest.capacity

(* grow_darray(): the block is copied before anybody looks whether there   *)
(* is one, and the old one is given back after the copy.                   *)
SameSize == Dest.capacity      \* slip: the capacity is not doubled
Doubled == 2 * Dest.capacity

CopyOfHalf(p) == Freed(Copy(p, Dest.src, Dest.capacity \div 2), job.to)   \* slip
Moved(p) == Freed(Copy(p, Dest.src, Dest.capacity), job.to)

Grow ==
  /\ Adding /\ ~Room
  /\ \/ \E p \in Blocks(Doubled) \ {0} :
          /\ Dest.src # 0
          /\ mem' = Moved(p)
          /\ da' = [da EXCEPT ![job.to] =
                     [src |-> p, capacity |-> Doubled, count |-> Dest.count]]
          /\ Taken(Doubled)
          /\ UNCHANGED <<nodes, job, status>>
     \/ Blocks(Doubled) = {} /\ Abort("aborted")
     \/ (Dest.src = 0 \/ 0 \in Blocks(Doubled)) /\ Abort("segv")

Add(n) == da' = [da EXCEPT ![job.to].count = @ + n]

Store == /\ Adding /\ Room /\ Dest.src # 0 /\ Readable
         /\ mem' = IF job.op = "reserve" THEN mem
                   ELSE Write(Dest.src + Dest.count, Chunk)
         /\ Add(IF job.op = "fill" THEN 0 ELSE Len(Chunk))
         /\ job' = [job EXCEPT !.done = @ + 1]
         /\ UNCHANGED <<offset, nodes, status>>

(* The write, or the read, of an array that got no memory; a reservation   *)
(* does neither.                                                           *)
StoreNowhere ==
  /\ Adding /\ Room /\ (Dest.src = 0 \/ ~Readable)
  /\ IF job.op = "reserve"
     THEN Add(Len(Chunk)) /\ job' = [job EXCEPT !.done = @ + 1]
          /\ UNCHANGED <<mem, offset, nodes, status>>
     ELSE Abort("segv")

Return == /\ Busy /\ job.done >= Chunks
          /\ job' = NoJob
          /\ UNCHANGED <<mem, offset, da, nodes, status>>

-----------------------------------------------------------------------------
(* darray_remove() of items of one size: the items after it are copied     *)
(* over it, with memcpy(), which may copy overlapping bytes in any order.  *)
Shifted(to, from, n) == (IF "forward" \in CopyOrders THEN {Copy(to, from, n)} ELSE {})
                   \cup (IF "backward" \in CopyOrders THEN {Smear(to, from, n)} ELSE {})

OneTooFew(a, size, i) == da[a].count \div size - i - 2      \* slip
Left(a, size, i) == da[a].count \div size - i - 1

RemoveAt(a, size, i) ==
  /\ Made(a) /\ da[a].src # 0
  /\ da[a].count % size = 0 /\ i < da[a].count \div size
  /\ LET at == da[a].src + size * i
     IN  mem' \in IF Left(a, size, i) > 0
                  THEN Shifted(at, at + size, size * Left(a, size, i)) ELSE {mem}
  /\ da' = [da EXCEPT ![a].count = @ - size]
  /\ UNCHANGED <<offset, nodes, job, status>>

RemoveItem == /\ Idle
              /\ \E a \in Array, size \in ItemSizes :
                   \E i \in 0 .. da[a].count : RemoveAt(a, size, i)

Call == \/ InitDarray \/ CreateNode \/ ArenaFull \/ FreeDarray
        \/ Push \/ PushReplicatedByte \/ Reserve \/ PushDarray \/ StringInitFrom
        \/ RemoveItem

Work == Grow \/ Store \/ StoreNowhere \/ Return

Next == Call \/ Work

(* A call that was made runs on; whether there is another is up to the     *)
(* user.                                                                   *)
Spec == Init /\ [][Next]_vars /\ WF_vars(Work)

-----------------------------------------------------------------------------
(* The properties.                                                         *)

(* The memory, the structs and the call under way are what their types     *)
(* say, and every block lies within the memory there is.                   *)
TypeOK ==
  /\ mem \in [1 .. MemSize -> Byte \cup {Junk, NodeByte, Nul}]
  /\ offset \in 0 .. MemSize
  /\ da \in [Array -> Struct]
  /\ \A a \in Array : da[a].src # 0 => da[a].src + da[a].capacity <= MemSize + 1
  /\ \A n \in nodes : n \in Nat \ {0} /\ n + NodeSize <= MemSize + 1
  /\ job \in Job \cup {NoJob}
  /\ status \in {"running", "aborted", "segv"}

(* No byte belongs to two arrays, or to an array and a node, and the arena *)
(* has given out every block that anybody has: nobody's push writes into   *)
(* another's memory (arena.cc:29-30, darray.cc:76-84).                     *)
BlocksApart ==
  /\ \A a, b \in Array : a # b => Extent(a) \cap Extent(b) = {}
  /\ \A a \in Array, n \in nodes : Extent(a) \cap NodeExtent(n) = {}
  /\ \A n1, n2 \in nodes : n1 # n2 => NodeExtent(n1) \cap NodeExtent(n2) = {}
  /\ Allocator = "ARENA" =>
       \A a \in Array : Extent(a) \subseteq 1 .. offset

(* An array never uses more bytes than it has, in the middle of a call     *)
(* either (the macro darray_grow, darray.h:11-16).                         *)
CountsFit == \A a \in Array : da[a].count <= da[a].capacity

(* What others wrote in the arena stays as they wrote it, whatever is      *)
(* added to arrays beside it: the nodes of the syntax tree are never       *)
(* overwritten while the token array and the strings grow.                 *)
NodesKept == \A n \in nodes : \A p \in NodeExtent(n) : mem[p] = NodeByte

(* The bytes an array had when the call began, and those it has now.       *)
At(a, i) == IF da[a].src = 0 THEN Junk ELSE mem[da[a].src + i - 1]
Bytes(a, n) == [i \in 1 .. n |-> At(a, i)]
Contents(a) == Bytes(a, IF job.to = a THEN job.base ELSE da[a].count)

(* What a call was asked to add.  push_replicated_byte() writes behind the *)
(* bytes in use and leaves the count (darray.cc:48): nothing, in effect.   *)
Asked ==
  CASE job.op = "push" ->
         [op |-> "append", to |-> job.to, from |-> job.from, data |-> job.data]
    [] job.op = "string" ->
         [op |-> "append", to |-> job.to, from |-> job.from, data |-> Append(job.data, Nul)]
    [] job.op = "reserve" ->
         [op |-> "reserve", to |-> job.to, from |-> job.from, data |-> Len(job.data)]
    [] job.op = "concat" ->
         [op |-> "concat", to |-> job.to, from |-> job.from, data |-> <<>>]
    [] OTHER -> [op |-> "none"]

Initialised == {a \in Array : Made(a)}
AllContents == [a \in Array |-> Contents(a)]

ABS == INSTANCE ByteSeq WITH Byte <- Byte \cup {Junk, NodeByte, Nul},
         Orderly <- CopyOrders = {"forward"},
         made <- Initialised, contents <- AllContents, asked <- Asked

(* However often an array moves while bytes are added to it, and wherever  *)
(* other blocks lie, its users see the bytes they pushed, in order: the    *)
(* array in memory implements the sequence of bytes of ByteSeq.  Two calls *)
(* do not keep what is said of them: push_replicated_byte() adds nothing   *)
(* (BytesArePushed, below), and a removal with two items or more behind it *)
(* leaves anything there unless memcpy() copies in order.                  *)
IsByteSeq == ABS!Spec

RemovesThatItem ==
  \A a \in Array, size \in ItemSizes : \A i \in 0 .. da[a].count :
    Idle /\ RemoveAt(a, size, i) => ABS!Without(AllContents[a], AllContents'[a], size, i)

(* Asked to remove item i, darray_remove() removes that one and no other:  *)
(* the items before it are not touched, and what stands behind it moves up *)
(* unharmed if memcpy() copies in order, or has one item to copy           *)
(* (darray.cc:118-128).                                                    *)
RemovedAsAsked == [][RemovesThatItem]_vars

(* Refuted: "Push same bytes a number of times" (darray.cc:45).  Once the  *)
(* bytes of push_replicated_byte() are written, the array has them.        *)
BytesArePushed ==
  job.op = "fill" /\ job.done = 1 => Contents(job.to) \o job.data = Bytes(job.to, Dest.count)

(* A call that adds bytes returns or ends the process, even when an array  *)
(* is added to itself and its end moves on with every byte                 *)
(* (darray.cc:64-68).                                                      *)
CallsEnd == job # NoJob ~> job = NoJob \/ status # "running"

=============================================================================
