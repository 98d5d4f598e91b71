-------------------------------- MODULE Elf ---------------------------------
(***************************************************************************)
(* The ELF writer (elf.cc): write_elf() appends a file header, a program   *)
(* header, the machine code, the section names and three section headers   *)
(* to one array and writes it to a file.  Every header speaks of places    *)
(* that are computed from literals and from the size of the names before   *)
(* the bytes are there; the model keeps the places where the bytes came to *)
(* be beside the numbers the headers hold.  What a push does to the array  *)
(* is in Darray.                                                           *)
(***************************************************************************)
EXTENDS Integers, Sequences

CONSTANTS TextSizes,    \* how many bytes of machine code there may be
          NameLengths,  \* the lengths of section_names, names and text
          StartAddr     \* START_ADDR

MaxInt == 2147483647

(* Sizes for which the int variable shoff is wide enough (elf.cc:37, 53).  *)
ASSUME ElfAssumption ==
  /\ TextSizes \subseteq Nat /\ NameLengths \in [1 .. 2 -> Nat] /\ StartAddr \in Nat
  /\ \A n \in TextSizes :
       64 + 56 + n + 1 + NameLengths[1] + 1 + NameLengths[2] + 1 <= MaxInt

VARIABLES pc,           \* the call of write_elf() that is next
          text_size,
          section_name_size,
          section_offsets,      \* of each name in the table of names
          count,        \* the bytes in the array
          at,           \* where each part begins in it
          header,       \* what the headers hold
          sections,
          written       \* the bytes that reached the file

vars == <<pc, text_size, section_name_size, section_offsets, count, at, header,
          sections, written>>

Names == 1 .. 2
Parts == {"file_header", "program_header", "text", "names", "name_1", "name_2",
          "table"}

(* The widths of the pushes of each header, in order.                      *)
FileHeaderSize == 4 + 1 + 1 + 1 + 1 + 1 + 7 + 2 + 2 + 4 + 8 + 8 + 8 + 4
                  + 2 + 2 + 2 + 2 + 2 + 2
ProgramHeaderSize == 4 + 4 + 8 + 8 + 8 + 8 + 8 + 8
SectionHeaderSize == 4 + 4 + 8 + 8 + 8 + 8 + 4 + 4 + 8 + 8

NoHeader == [entry |-> 0, phoff |-> 0, shoff |-> 0, ehsize |-> 0,
             phentsize |-> 0, phnum |-> 0, shentsize |-> 0, shnum |-> 0,
             shstrndx |-> 0, vaddr |-> 0, filesz |-> 0, memsz |-> 0]

Section == [name : Nat, type : {"null", "progbits", "strtab"}, addr : Nat,
            offset : Nat, size : Nat]

(* The names begin after a zero.                                           *)
AtZero == 0                             \* slip
FirstName == 1

Init == /\ pc = "measure"
        /\ text_size \in TextSizes
        /\ section_name_size = FirstName
        /\ section_offsets = [i \in Names |-> 0]
        /\ count = 0
        /\ at = [p \in Parts |-> 0]
        /\ header = NoHeader
        /\ sections = <<>>
        /\ written = 0

(* The next call appends its part.                                         *)
Appends(from, to, size) ==
  /\ pc = from /\ pc' = to
  /\ count' = count + size
  /\ UNCHANGED <<text_size, section_name_size, section_offsets, written>>

Placed(part) == at' = [at EXCEPT ![part] = count]

-----------------------------------------------------------------------------
(* Each name takes its length and a zero, after one zero for all.          *)
NameBytes(i) == NameLengths[i] + 1

Measure ==
  /\ pc = "measure" /\ pc' = "file_header"
  /\ section_offsets' = [i \in Names |->
       section_name_size + IF i = 2 THEN NameBytes(1) ELSE 0]
  /\ section_name_size' = section_name_size + NameBytes(1) + NameBytes(2)
  /\ UNCHANGED <<text_size, count, at, header, sections, written>>

Shoff == 64 + 56 + text_size + section_name_size

EntryLess == StartAddr + 64             \* slip
Entry == StartAddr + 64 + 56

FileHeader ==
  /\ Appends("file_header", "program_header", FileHeaderSize)
  /\ Placed("file_header")
  /\ header' = [header EXCEPT !.entry = Entry, !.phoff = 64, !.shoff = Shoff,
                  !.ehsize = 64, !.phentsize = 56, !.phnum = 1,
                  !.shentsize = 64, !.shnum = 3, !.shstrndx = 2]
  /\ UNCHANGED sections

ProgramHeader ==
  /\ Appends("program_header", "text", ProgramHeaderSize)
  /\ Placed("program_header")
  /\ header' = [header EXCEPT !.vaddr = StartAddr, !.filesz = Shoff, !.memsz = Shoff]
  /\ UNCHANGED sections

(* text->count bytes; the only caller hands write_elf() that very count as *)
(* text_size (compiler.cc:37).                                             *)
AddText ==
  /\ Appends("text", "names", text_size)
  /\ Placed("text")
  /\ UNCHANGED <<header, sections>>

AddSectionNames ==
  /\ Appends("names", "table", 1 + NameBytes(1) + NameBytes(2))
  /\ at' = [at EXCEPT !["names"] = count,
                      !["name_1"] = count + 1,
                      !["name_2"] = count + 1 + NameBytes(1)]
  /\ UNCHANGED <<header, sections>>

(* The null section, the text and the names.                               *)
TextSection == [name |-> section_offsets[2], type |-> "progbits",
                addr |-> Entry, offset |-> 64 + 56, size |-> text_size]
OffsetsInOrder == [name |-> section_offsets[2], type |-> "strtab",       \* slip
                   addr |-> 0, offset |-> 64 + 56 + text_size,
                   size |-> section_name_size]
NamesSection == [name |-> section_offsets[1], type |-> "strtab",
                 addr |-> 0, offset |-> 64 + 56 + text_size,
                 size |-> section_name_size]

SectionHeaderTable ==
  /\ Appends("table", "write", 3 * SectionHeaderSize)
  /\ Placed("table")
  /\ sections' = <<[name |-> 0, type |-> "null", addr |-> 0, offset |-> 0, size |-> 0],
                   TextSection, NamesSection>>
  /\ UNCHANGED header

(* write_to_file(): whether all bytes reached the disk is not looked at.   *)
WriteToFile ==
  /\ pc = "write"
  /\ \/ written' = 0 /\ pc' = "failed"
     \/ written' \in 0 .. count /\ pc' = "done"
  /\ UNCHANGED <<text_size, section_name_size, section_offsets, count, at,
                 header, sections>>

(* The array got no memory: see Darray.                                    *)
OutOfMemory ==
  /\ pc \in {"file_header", "program_header", "text", "names", "table"}
  /\ pc' = "segv"
  /\ UNCHANGED <<text_size, section_name_size, section_offsets, count, at,
                 header, sections, written>>

Next == \/ Measure \/ FileHeader \/ ProgramHeader \/ AddText \/ AddSectionNames
        \/ SectionHeaderTable \/ WriteToFile \/ OutOfMemory

Spec == Init /\ [][Next]_vars

-----------------------------------------------------------------------------
Running == {"measure", "file_header", "program_header", "text", "names", "table", "write"}
Laid == pc \in {"write", "failed", "done"}

(* Sizes, places and headers are numbers, and the section headers have     *)
(* their fields.                                                           *)
TypeOK ==
  /\ pc \in Running \cup {"failed", "done", "segv"}
  /\ text_size \in TextSizes /\ section_name_size \in Nat \ {0}
  /\ section_offsets \in [Names -> Nat]
  /\ count \in Nat /\ written \in 0 .. count
  /\ at \in [Parts -> 0 .. count]
  /\ header \in [DOMAIN NoHeader -> Nat]
  /\ sections \in Seq(Section)

(* What the file and program headers say of places and sizes is where the  *)
(* bytes came to be: the tables where phoff and shoff point, the first     *)
(* byte of the code at the entry address once the segment is loaded, all   *)
(* of the code and the names within the segment (elf.cc:34-47, 53-60).     *)
HeadersAgree ==
  Laid =>
    /\ header.ehsize = at["program_header"] /\ header.phoff = at["program_header"]
    /\ header.phoff + header.phnum * header.phentsize = at["text"]
    /\ header.shoff = at["table"]
    /\ header.shoff + header.shnum * header.shentsize = count
    /\ header.entry - header.vaddr = at["text"]
    /\ header.filesz = at["table"] /\ header.memsz = header.filesz

(* Each section header has the place, the size and the name of its         *)
(* section: the name is found where sh_name points into the section that   *)
(* e_shstrndx names (elf.cc:77-124).                                       *)
SectionsAgree ==
  Laid =>
    LET text == sections[2]
        names == sections[header.shstrndx + 1]
    IN  /\ Len(sections) = header.shnum
        /\ text.offset = at["text"] /\ text.offset + text.size = at["names"]
        /\ text.addr = header.entry
        /\ names.type = "strtab"
        /\ names.offset = at["names"] /\ names.offset + names.size = at["table"]
        /\ names.offset + text.name = at["name_2"]
        /\ names.offset + names.name = at["name_1"]

=============================================================================
