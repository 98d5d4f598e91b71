------------------------------ MODULE ByteSeq -------------------------------
(***************************************************************************)
(* What a dynamic array promises its users: a sequence of bytes to which a *)
(* call adds exactly what it was asked to, whatever happens in memory,     *)
(* until the process ends.                                                 *)
(***************************************************************************)
EXTENDS Naturals, Sequences

CONSTANTS Array,        \* the arrays
          Byte,         \* the bytes
          ItemSizes,    \* the sizes of the items kept in arrays
          Orderly       \* whether bytes that overlap are copied in order

VARIABLES made,         \* the arrays that are initialised
          contents,     \* of each of them: a sequence of bytes
          asked,        \* the call under way
          status        \* running, or how the process ended

vars == <<made, contents, asked, status>>

Request == [op : {"append", "concat"}, to : Array, from : Array, data : Seq(Byte)]
           \cup [op : {"reserve"}, to : Array, from : Array, data : Nat]
NoRequest == [op |-> "none"]

Quiet == asked = NoRequest

Init == /\ made = {}
        /\ contents = [a \in Array |-> <<>>]
        /\ asked = NoRequest
        /\ status = "running"

Create(a) == /\ Quiet /\ a \notin made
             /\ made' = made \cup {a}
             /\ UNCHANGED <<contents, asked, status>>

Destroy(a) == /\ Quiet /\ a \in made
              /\ made' = made \ {a}
              /\ contents' = [contents EXCEPT ![a] = <<>>]
              /\ UNCHANGED <<asked, status>>

(* Item i is taken out of an array of items.  The items before it stay; the *)
(* items after it move up unharmed if bytes are copied in order, or if     *)
(* there is but one, and are anything otherwise.                           *)
Without(old, new, size, i) ==
  LET before == SubSeq(old, 1, size * i)
      after == SubSeq(old, size * (i + 1) + 1, Len(old))
  IN  /\ Len(new) = Len(old) - size
      /\ SubSeq(new, 1, size * i) = before
      /\ Orderly \/ Len(after) <= size => new = before \o after

Remove(a, size, i) ==
  /\ Quiet /\ a \in made
  /\ Len(contents[a]) % size = 0 /\ i < Len(contents[a]) \div size
  /\ contents' = [contents EXCEPT ![a] = contents'[a]]
  /\ Without(contents[a], contents'[a], size, i)
  /\ UNCHANGED <<made, asked, status>>

Ask == /\ Quiet
       /\ asked' \in Request /\ {asked'.to, asked'.from} \subseteq made
       /\ UNCHANGED <<made, contents, status>>

(* An array is created for bytes that are added at once.                   *)
CreateFrom(a) == /\ Quiet /\ a \notin made
                 /\ made' = made \cup {a}
                 /\ asked' \in Request /\ asked'.op = "append" /\ asked'.to = a
                 /\ UNCHANGED <<contents, status>>

(* The bytes that were there stay, at their places, and the new ones come  *)
(* after them; what is reserved may hold anything.                         *)
Outcome(old, new) ==
  \/ asked.op = "append"  /\ new = old \o asked.data
  \/ asked.op = "concat"  /\ new = old \o contents[asked.from]
  \/ asked.op = "reserve" /\ Len(new) = Len(old) + asked.data
                          /\ SubSeq(new, 1, Len(old)) = old

Answer == /\ ~Quiet
          /\ contents' = [contents EXCEPT ![asked.to] = contents'[asked.to]]
          /\ Outcome(contents[asked.to], contents'[asked.to])
          /\ asked' = NoRequest
          /\ UNCHANGED <<made, status>>

(* Memory runs out, in a call or before it.                                *)
Fail == /\ status' # "running"
        /\ UNCHANGED <<made, contents, asked>>

Next == /\ status = "running"
        /\ \/ \E a \in Array : Create(a) \/ Destroy(a) \/ CreateFrom(a)
           \/ \E a \in Array, size \in ItemSizes :
                \E i \in 0 .. Len(contents[a]) : Remove(a, size, i)
           \/ Ask \/ Answer \/ Fail

Spec == Init /\ [][Next]_vars

=============================================================================
