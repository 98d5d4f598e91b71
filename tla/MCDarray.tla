------------------------------ MODULE MCDarray ------------------------------
(***************************************************************************)
(* Instances of Darray: payloads of one, three and nine bytes, so that a   *)
(* call finds room, fills a block, or grows it, and reservations that grow *)
(* one more than once.                                                     *)
(***************************************************************************)
EXTENDS Darray

CONSTANTS a1, a2, b1, b2

Payloads == {<<b1, b2, b1>>, <<b2, b2, b2, b2, b1, b1, b2, b1, b1>>}
ShortPayloads == {<<b1, b2, b1>>}

=============================================================================
