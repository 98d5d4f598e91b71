------------------------------- MODULE MCElf --------------------------------
(* The names ".shrtrtab" and ".text", and machine code of up to 30 bytes.  *)
EXTENDS Elf

MCTextSizes == 0 .. 30
MCNameLengths == <<9, 5>>

=============================================================================
