------------------------------ MODULE ElfProofs -----------------------------
(***************************************************************************)
(* The headers of the ELF writer agree with the bytes, for every size of   *)
(* the code, all lengths of the two names and every start address.         *)
(***************************************************************************)
EXTENDS Elf, TLAPS

(* What is known once a part has been appended.                            *)
AfterTable == {"write", "failed", "done"}
AfterNames == AfterTable \cup {"table"}
AfterText == AfterNames \cup {"names"}
AfterProgramHeader == AfterText \cup {"text"}
AfterFileHeader == AfterProgramHeader \cup {"program_header"}
AfterMeasure == AfterFileHeader \cup {"file_header"}

Measured ==
  /\ pc \in Running => written = 0
  /\ pc \in {"measure", "file_header"} => count = 0
  /\ pc = "measure" => section_name_size = 1
  /\ pc \in AfterMeasure =>
       /\ section_offsets[1] = 1 /\ section_offsets[2] = 1 + NameBytes(1)
       /\ section_name_size = 1 + NameBytes(1) + NameBytes(2)

Headers ==
  /\ pc \in AfterFileHeader =>
       /\ header.entry = Entry /\ header.phoff = 64 /\ header.shoff = Shoff
       /\ header.ehsize = 64 /\ header.phentsize = 56 /\ header.phnum = 1
       /\ header.shentsize = 64 /\ header.shnum = 3 /\ header.shstrndx = 2
  /\ pc \in AfterProgramHeader =>
       /\ at["program_header"] = 64
       /\ header.vaddr = StartAddr /\ header.filesz = Shoff /\ header.memsz = Shoff

Places ==
  /\ pc = "program_header" => count = 64
  /\ pc = "text" => count = 120
  /\ pc = "names" => count = 120 + text_size
  /\ pc = "table" => count = Shoff
  /\ pc \in AfterTable => count = Shoff + 192
  /\ pc \in AfterText => at["text"] = 120
  /\ pc \in AfterNames => /\ at["names"] = 120 + text_size
                          /\ at["name_1"] = 120 + text_size + 1
                          /\ at["name_2"] = 120 + text_size + 1 + NameBytes(1)
  /\ pc \in AfterTable =>
       /\ at["table"] = Shoff
       /\ Len(sections) = 3 /\ sections[2] = TextSection /\ sections[3] = NamesSection

IInv == TypeOK /\ Measured /\ Headers /\ Places

LEMMA Widths ==
  /\ FileHeaderSize = 64 /\ ProgramHeaderSize = 56 /\ 3 * SectionHeaderSize = 192
BY DEF FileHeaderSize, ProgramHeaderSize, SectionHeaderSize

LEMMA Numbers ==
  ASSUME TypeOK
  PROVE  /\ text_size \in Nat /\ NameBytes(1) \in Nat /\ NameBytes(2) \in Nat
         /\ Entry \in Nat /\ Shoff \in Nat /\ StartAddr \in Nat
         /\ section_offsets[1] \in Nat /\ section_offsets[2] \in Nat
         /\ section_name_size \in Nat
BY ElfAssumption DEF TypeOK, NameBytes, Entry, Shoff, Names

LEMMA InitSound == Init => IInv
<1> SUFFICES ASSUME Init PROVE IInv OBVIOUS
<1>1. /\ pc = "measure" /\ count = 0 /\ written = 0 /\ section_name_size = 1
      /\ text_size \in TextSizes /\ sections = <<>> /\ header = NoHeader
      /\ section_offsets = [i \in Names |-> 0] /\ at = [p \in Parts |-> 0]
  BY DEF Init, FirstName
<1>2. TypeOK
  <2>1. header \in [DOMAIN NoHeader -> Nat] BY <1>1 DEF NoHeader
  <2> QED BY <1>1, <2>1 DEF TypeOK, Running
<1>3. Measured /\ Headers /\ Places
  BY <1>1 DEF Measured, Headers, Places, AfterTable, AfterNames, AfterText,
              AfterProgramHeader, AfterFileHeader, AfterMeasure
<1> QED BY <1>2, <1>3 DEF IInv

-----------------------------------------------------------------------------
(* One lemma for each call.                                                *)

(* The array got longer: every place in it is one still.                   *)
LEMMA Longer ==
  ASSUME TypeOK, NEW size \in Nat, count' = count + size
  PROVE  /\ count' \in Nat /\ count \in 0 .. count'
         /\ \A p \in Parts : at[p] \in 0 .. count'
         /\ written \in 0 .. count'
<1>1. count \in Nat /\ \A p \in Parts : at[p] \in 0 .. count BY DEF TypeOK
<1>2. written \in 0 .. count BY DEF TypeOK
<1> QED BY <1>1, <1>2

LEMMA MeasureSound == ASSUME IInv, Measure PROVE IInv'
<1>1. /\ pc = "measure" /\ pc' = "file_header" /\ TypeOK
      /\ section_name_size = 1 /\ count = 0 /\ written = 0
      /\ UNCHANGED <<text_size, count, at, header, sections, written>>
  BY DEF Measure, IInv, Measured, Running
<1>2. NameBytes(1) \in Nat /\ NameBytes(2) \in Nat BY <1>1, Numbers
<1>3. /\ section_offsets' = [i \in Names |-> 1 + IF i = 2 THEN NameBytes(1) ELSE 0]
      /\ section_name_size' = 1 + NameBytes(1) + NameBytes(2)
  BY <1>1 DEF Measure
<1>4. section_offsets' \in [Names -> Nat] /\ section_name_size' \in Nat \ {0}
  BY <1>2, <1>3
<1>5. section_offsets'[1] = 1 /\ section_offsets'[2] = 1 + NameBytes(1)
  BY <1>2, <1>3 DEF Names
<1>6. TypeOK' BY <1>1, <1>4 DEF TypeOK, Running
<1>7. (Measured /\ Headers /\ Places)'
  BY <1>1, <1>3, <1>5 DEF Measured, Headers, Places, AfterTable, AfterNames,
     AfterText, AfterProgramHeader, AfterFileHeader, AfterMeasure, Running, NameBytes
<1> QED BY <1>6, <1>7 DEF IInv

LEMMA FileHeaderSound == ASSUME IInv, FileHeader PROVE IInv'
<1>1. /\ pc = "file_header" /\ pc' = "program_header" /\ TypeOK /\ Measured
      /\ count = 0 /\ count' = 64 /\ count' = count + 64
      /\ UNCHANGED <<text_size, section_name_size, section_offsets, sections, written>>
  BY Widths DEF FileHeader, Appends, IInv, Measured
<1>2. Entry \in Nat /\ Shoff \in Nat BY <1>1, Numbers
<1>3. header' = [header EXCEPT !.entry = Entry, !.phoff = 64, !.shoff = Shoff,
                  !.ehsize = 64, !.phentsize = 56, !.phnum = 1,
                  !.shentsize = 64, !.shnum = 3, !.shstrndx = 2]
      /\ header \in [DOMAIN NoHeader -> Nat]
  BY <1>1 DEF FileHeader, TypeOK
<1>4. /\ header'.entry = Entry /\ header'.phoff = 64 /\ header'.shoff = Shoff
      /\ header'.ehsize = 64 /\ header'.phentsize = 56 /\ header'.phnum = 1
      /\ header'.shentsize = 64 /\ header'.shnum = 3 /\ header'.shstrndx = 2
      /\ header' \in [DOMAIN NoHeader -> Nat]
  BY <1>2, <1>3 DEF NoHeader
<1>5. at' \in [Parts -> 0 .. count']
  <2>1. /\ at' = [at EXCEPT !["file_header"] = count] /\ at \in [Parts -> 0 .. count]
    BY <1>1 DEF FileHeader, Placed, TypeOK
  <2> QED BY <1>1, <2>1, Longer
<1>6. written \in 0 .. count' /\ count' \in Nat BY <1>1, Longer
<1>7. TypeOK' BY <1>1, <1>4, <1>5, <1>6 DEF TypeOK, Running
<1>8. Measured' BY <1>1 DEF Measured, Running, AfterMeasure, AfterFileHeader,
     AfterProgramHeader, AfterText, AfterNames, AfterTable, NameBytes
<1>9. (Headers /\ Places)'
  BY <1>1, <1>4 DEF Headers, Places, AfterFileHeader, AfterProgramHeader, AfterText,
     AfterNames, AfterTable, Entry, Shoff
<1> QED BY <1>7, <1>8, <1>9 DEF IInv

LEMMA ProgramHeaderSound == ASSUME IInv, ProgramHeader PROVE IInv'
<1>1. /\ pc = "program_header" /\ pc' = "text" /\ TypeOK /\ Measured /\ Headers
      /\ count = 64 /\ count' = 120 /\ count' = count + 56
      /\ UNCHANGED <<text_size, section_name_size, section_offsets, sections, written>>
  BY Widths DEF ProgramHeader, Appends, IInv, Places
<1>2. Shoff \in Nat /\ StartAddr \in Nat BY <1>1, Numbers
<1>3. header' = [header EXCEPT !.vaddr = StartAddr, !.filesz = Shoff, !.memsz = Shoff]
      /\ header \in [DOMAIN NoHeader -> Nat]
  BY <1>1 DEF ProgramHeader, TypeOK
<1>4. /\ header'.vaddr = StartAddr /\ header'.filesz = Shoff /\ header'.memsz = Shoff
      /\ header' \in [DOMAIN NoHeader -> Nat]
      /\ \A f \in {"entry", "phoff", "shoff", "ehsize", "phentsize", "phnum",
                   "shentsize", "shnum", "shstrndx"} : header'[f] = header[f]
  BY <1>2, <1>3 DEF NoHeader
<1>5. at' \in [Parts -> 0 .. count'] /\ at'["program_header"] = 64
  <2>1. /\ at' = [at EXCEPT !["program_header"] = count] /\ at \in [Parts -> 0 .. count]
    BY <1>1 DEF ProgramHeader, Placed, TypeOK
  <2> QED BY <1>1, <2>1, Longer DEF Parts
<1>6. written \in 0 .. count' /\ count' \in Nat BY <1>1, Longer
<1>7. TypeOK' BY <1>1, <1>4, <1>5, <1>6 DEF TypeOK, Running
<1>8. Measured' BY <1>1 DEF Measured, Running, AfterMeasure, AfterFileHeader,
     AfterProgramHeader, AfterText, AfterNames, AfterTable, NameBytes
<1>9. (Headers /\ Places)'
  BY <1>1, <1>4, <1>5 DEF Headers, Places, AfterFileHeader, AfterProgramHeader, AfterText,
     AfterNames, AfterTable, Entry, Shoff
<1> QED BY <1>7, <1>8, <1>9 DEF IInv

LEMMA TextSound == ASSUME IInv, AddText PROVE IInv'
<1>1. /\ pc = "text" /\ pc' = "names" /\ TypeOK /\ Measured /\ Headers /\ Places
      /\ count = 120 /\ count' = count + text_size
      /\ UNCHANGED <<text_size, section_name_size, section_offsets, sections, written,
                     header>>
  BY DEF AddText, Appends, IInv, Places
<1>2. text_size \in Nat BY <1>1, Numbers
<1>3. at' \in [Parts -> 0 .. count'] /\ at'["text"] = 120
      /\ at'["program_header"] = at["program_header"]
  <2>1. /\ at' = [at EXCEPT !["text"] = count] /\ at \in [Parts -> 0 .. count]
    BY <1>1 DEF AddText, Placed, TypeOK
  <2> QED BY <1>1, <1>2, <2>1, Longer DEF Parts
<1>4. written \in 0 .. count' /\ count' \in Nat BY <1>1, <1>2, Longer
<1>5. TypeOK' BY <1>1, <1>3, <1>4 DEF TypeOK, Running
<1>6. Measured' BY <1>1 DEF Measured, Running, AfterMeasure, AfterFileHeader,
     AfterProgramHeader, AfterText, AfterNames, AfterTable, NameBytes
<1>7. (Headers /\ Places)'
  BY <1>1, <1>3 DEF Headers, Places, AfterFileHeader, AfterProgramHeader, AfterText,
     AfterNames, AfterTable, Entry, Shoff
<1> QED BY <1>5, <1>6, <1>7 DEF IInv

LEMMA NamesSound == ASSUME IInv, AddSectionNames PROVE IInv'
<1>1. /\ pc = "names" /\ pc' = "table" /\ TypeOK /\ Measured /\ Headers /\ Places
      /\ count = 120 + text_size /\ count' = count + (1 + NameBytes(1) + NameBytes(2))
      /\ section_name_size = 1 + NameBytes(1) + NameBytes(2)
      /\ UNCHANGED <<text_size, section_name_size, section_offsets, sections, written,
                     header>>
  BY DEF AddSectionNames, Appends, IInv, Places, Measured, AfterMeasure, AfterFileHeader,
     AfterProgramHeader, AfterText
<1>2. text_size \in Nat /\ NameBytes(1) \in Nat /\ NameBytes(2) \in Nat BY <1>1, Numbers
<1>3. count' = Shoff BY <1>1, <1>2 DEF Shoff
<1>4. /\ at' \in [Parts -> 0 .. count'] /\ at'["names"] = count
      /\ at'["name_1"] = count + 1 /\ at'["name_2"] = count + 1 + NameBytes(1)
      /\ at'["program_header"] = at["program_header"] /\ at'["text"] = at["text"]
  <2>1. /\ at' = [at EXCEPT !["names"] = count, !["name_1"] = count + 1,
                            !["name_2"] = count + 1 + NameBytes(1)]
        /\ at \in [Parts -> 0 .. count]
    BY <1>1 DEF AddSectionNames, TypeOK
  <2>2. \A p \in Parts : at[p] \in 0 .. count' BY <1>1, <1>2, Longer
  <2>3. {count, count + 1, count + 1 + NameBytes(1)} \subseteq 0 .. count'
    BY <1>1, <1>2
  <2>4. {"names", "name_1", "name_2", "program_header", "text"} \subseteq Parts
    BY DEF Parts
  <2> QED BY <2>1, <2>2, <2>3, <2>4
<1>5. written \in 0 .. count' /\ count' \in Nat BY <1>1, <1>2, Longer
<1>6. TypeOK' BY <1>1, <1>4, <1>5 DEF TypeOK, Running
<1>7. Measured' BY <1>1 DEF Measured, Running, AfterMeasure, AfterFileHeader,
     AfterProgramHeader, AfterText, AfterNames, AfterTable, NameBytes
<1>8. (Headers /\ Places)'
  <2>1. Shoff' = Shoff /\ NameBytes(1)' = NameBytes(1) BY <1>1 DEF Shoff, NameBytes
  <2> QED BY <1>1, <1>3, <1>4, <2>1 DEF Headers, Places, AfterFileHeader,
          AfterProgramHeader, AfterText, AfterNames, AfterTable, Entry
<1> QED BY <1>6, <1>7, <1>8 DEF IInv

LEMMA TableSound == ASSUME IInv, SectionHeaderTable PROVE IInv'
<1>1. /\ pc = "table" /\ pc' = "write" /\ TypeOK /\ Measured /\ Headers /\ Places
      /\ count = Shoff /\ count' = count + 192 /\ written = 0
      /\ UNCHANGED <<text_size, section_name_size, section_offsets, written, header>>
  BY Widths DEF SectionHeaderTable, Appends, IInv, Places, Measured, Running
<1>2. /\ text_size \in Nat /\ Entry \in Nat /\ section_offsets[1] \in Nat
      /\ section_offsets[2] \in Nat /\ section_name_size \in Nat /\ Shoff \in Nat
  BY <1>1, Numbers
<1>3. /\ at' \in [Parts -> 0 .. count'] /\ at'["table"] = Shoff
      /\ \A p \in Parts \ {"table"} : at'[p] = at[p]
  <2>1. /\ at' = [at EXCEPT !["table"] = count] /\ at \in [Parts -> 0 .. count]
    BY <1>1 DEF SectionHeaderTable, Placed, TypeOK
  <2> QED BY <1>1, <2>1, Longer DEF Parts
<1>4. written \in 0 .. count' /\ count' \in Nat BY <1>1, Longer
<1>5. /\ sections' \in Seq(Section) /\ Len(sections') = 3
      /\ sections'[2] = TextSection /\ sections'[3] = NamesSection
  <2> DEFINE null == [name |-> 0, type |-> "null", addr |-> 0, offset |-> 0, size |-> 0]
  <2>1. sections' = <<null, TextSection, NamesSection>> BY DEF SectionHeaderTable
  <2>2. null \in Section BY DEF Section
  <2>3. TextSection \in Section BY <1>2 DEF Section, TextSection
  <2>4. NamesSection \in Section BY <1>2 DEF Section, NamesSection
  <2> HIDE DEF null
  <2> QED BY <2>1, <2>2, <2>3, <2>4
<1>6. TypeOK' BY <1>1, <1>3, <1>4, <1>5 DEF TypeOK, Running
<1>7. Measured' BY <1>1 DEF Measured, Running, AfterMeasure, AfterFileHeader,
     AfterProgramHeader, AfterText, AfterNames, AfterTable, NameBytes
<1>8. (Headers /\ Places)'
  <2>1. /\ Shoff' = Shoff /\ Entry' = Entry /\ NameBytes(1)' = NameBytes(1)
        /\ TextSection' = TextSection /\ NamesSection' = NamesSection
    BY <1>1 DEF Shoff, Entry, NameBytes, TextSection, NamesSection
  <2>2. \A p \in {"program_header", "text", "names", "name_1", "name_2"} : at'[p] = at[p]
    BY <1>3 DEF Parts
  <2> QED BY <1>1, <1>3, <1>5, <2>1, <2>2 DEF Headers, Places, AfterFileHeader,
          AfterProgramHeader, AfterText, AfterNames, AfterTable
<1> QED BY <1>6, <1>7, <1>8 DEF IInv

(* The file is written, or nothing happens, or memory runs out.            *)
LEMMA RestSound ==
  ASSUME IInv, WriteToFile \/ OutOfMemory \/ UNCHANGED vars
  PROVE  IInv'
<1>1. /\ UNCHANGED <<text_size, section_name_size, section_offsets, count, at, header,
                     sections>>
      /\ written' \in 0 .. count
  <2>1. count \in Nat /\ written \in 0 .. count BY DEF IInv, TypeOK
  <2> QED BY <2>1 DEF WriteToFile, OutOfMemory, vars
<1>2. \/ pc = "write" /\ pc' \in {"failed", "done"}
      \/ pc' = "segv" /\ written' = written
      \/ pc' = pc /\ written' = written
  BY DEF WriteToFile, OutOfMemory, vars
<1>3. /\ Shoff' = Shoff /\ Entry' = Entry /\ NameBytes(1)' = NameBytes(1)
      /\ NameBytes(2)' = NameBytes(2)
      /\ TextSection' = TextSection /\ NamesSection' = NamesSection
  BY <1>1 DEF Shoff, Entry, NameBytes, TextSection, NamesSection
<1>4. TypeOK' BY <1>1, <1>2 DEF IInv, TypeOK, Running
<1>5. Measured'
  BY <1>1, <1>2, <1>3 DEF IInv, Measured, Running, AfterMeasure, AfterFileHeader,
     AfterProgramHeader, AfterText, AfterNames, AfterTable
<1>6. Headers'
  BY <1>1, <1>2, <1>3 DEF IInv, Headers, AfterFileHeader,
     AfterProgramHeader, AfterText, AfterNames, AfterTable
<1>7. Places'
  BY <1>1, <1>2, <1>3 DEF IInv, Places, AfterFileHeader,
     AfterProgramHeader, AfterText, AfterNames, AfterTable
<1> QED BY <1>4, <1>5, <1>6, <1>7 DEF IInv

LEMMA Sound == Spec => []IInv
<1>1. IInv /\ [Next]_vars => IInv'
  BY MeasureSound, FileHeaderSound, ProgramHeaderSound, TextSound, NamesSound, TableSound,
     RestSound DEF Next
<1> QED BY <1>1, InitSound, PTL DEF Spec

-----------------------------------------------------------------------------
(* Every number the writer computes is one, and no place lies behind the   *)
(* end of the array.                                                       *)
THEOREM TypeCorrect == Spec => []TypeOK
<1>1. IInv => TypeOK BY DEF IInv
<1> QED BY <1>1, Sound, PTL

(* The numbers in the file header and the program header are the places    *)
(* and sizes of what they speak of.                                        *)
THEOREM HeadersTellPlaces == Spec => []HeadersAgree
<1>1. ASSUME IInv PROVE HeadersAgree
  <2> SUFFICES ASSUME Laid PROVE HeadersAgree BY DEF HeadersAgree
  <2>1. pc \in AfterTable BY DEF Laid, AfterTable
  <2>2. TypeOK /\ Headers /\ Places BY <1>1 DEF IInv
  <2>3. text_size \in Nat /\ StartAddr \in Nat /\ Shoff \in Nat BY <2>2, Numbers
  <2> QED BY <2>1, <2>2, <2>3 DEF HeadersAgree, Headers, Places, Entry, AfterFileHeader,
          AfterProgramHeader, AfterText, AfterNames
<1> QED BY <1>1, Sound, PTL

(* Each section header tells where its section lies, how long it is and    *)
(* what its name is.                                                       *)
THEOREM SectionsTellPlaces == Spec => []SectionsAgree
<1>1. ASSUME IInv PROVE SectionsAgree
  <2> SUFFICES ASSUME Laid PROVE SectionsAgree BY DEF SectionsAgree
  <2>1. pc \in AfterTable BY DEF Laid, AfterTable
  <2>2. TypeOK /\ Measured /\ Headers /\ Places BY <1>1 DEF IInv
  <2>3. /\ text_size \in Nat /\ StartAddr \in Nat /\ section_name_size \in Nat
        /\ NameBytes(1) \in Nat /\ NameBytes(2) \in Nat
    BY <2>2, Numbers
  <2>4. /\ header.shstrndx = 2 /\ header.shnum = 3 /\ header.entry = Entry
        /\ at["text"] = 120 /\ at["names"] = 120 + text_size /\ at["table"] = Shoff
        /\ at["name_1"] = 120 + text_size + 1
        /\ at["name_2"] = 120 + text_size + 1 + NameBytes(1)
        /\ section_offsets[1] = 1 /\ section_offsets[2] = 1 + NameBytes(1)
        /\ Len(sections) = 3 /\ sections[2] = TextSection /\ sections[3] = NamesSection
    BY <2>1, <2>2 DEF Measured, Headers, Places, AfterMeasure, AfterFileHeader,
       AfterProgramHeader, AfterText, AfterNames
  <2>5. /\ sections[2].name = section_offsets[2] /\ sections[2].addr = Entry
        /\ sections[2].offset = 120 /\ sections[2].size = text_size
    BY <2>4 DEF TextSection
  <2>6. /\ sections[3].name = section_offsets[1] /\ sections[3].type = "strtab"
        /\ sections[3].offset = 120 + text_size /\ sections[3].size = section_name_size
    BY <2>3, <2>4 DEF NamesSection
  <2>7. sections[header.shstrndx + 1] = sections[3] BY <2>4
  <2> QED BY <2>3, <2>4, <2>5, <2>6, <2>7 DEF SectionsAgree, Shoff
<1> QED BY <1>1, Sound, PTL

=============================================================================
