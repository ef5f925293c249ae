------------------------------- MODULE ElfImage -------------------------------
(***************************************************************************)
(* What the loader reads of an executable or library: signed files made    *)
(* into plain ones, segments, dynamic tags, symbols, needed libraries and  *)
(* relocations (src/src/loader.rs).                                        *)
(*                                                                         *)
(* A file is a sequence of cells, each a header, table entry, string or    *)
(* datum; offsets and addresses count cells.  A library's name is its stem *)
(* and extension, a symbol's the encoded or plain form of a function and   *)
(* the suffix that follows a '#'.                                          *)
(***************************************************************************)
EXTENDS Integers, Sequences, FiniteSets, SequencesExt

Zero == [kind |-> "zero"]

NoText == [form |-> "none"]

\* The cell at an offset.
At(b, o) == b[o + 1]

IsElf(b) == b # << >> /\ b[1].kind = "elf"

\* Program headers, up to the end of the file.
Phdrs(b) == SubSeq(b, b[1].phoff + 1, b[1].phoff + b[1].phnum)

LoadHeaders(b) == SelectSeq(Phdrs(b), LAMBDA p : p.type = "load")

\* The last dynamic segment's header counts; at offset 0 it counts for none.
Dynamics(b) == SelectSeq(Phdrs(b), LAMBDA p : p.type = "dynamic")

HasDynamic(b) == Dynamics(b) # << >> /\ Last(Dynamics(b)).off # 0

\* va_to_offset: through the first segment whose file part holds the address.
OffsetOf(b, va) ==
  LET in == SelectSeq(LoadHeaders(b), LAMBDA p : /\ p.va <= va /\ va < p.va + p.memsz
                                                  /\ va - p.va < p.filesz)
  IN  IF in = << >> THEN -1 ELSE in[1].off + (va - in[1].va)

\* The entries of the dynamic segment before the first null one.
Tags(b) ==
  LET d   == Last(Dynamics(b))
      all == SubSeq(b, d.off + 1, d.off + d.filesz)
      end == SelectInSeq(all, LAMBDA e : e.tag = "null")
  IN  IF end = 0 THEN all ELSE SubSeq(all, 1, end - 1)

\* The last value of a tag, 0 without one.
TagOf(b, names) ==
  LET own == SelectSeq(Tags(b), LAMBDA e : e.tag \in names)
  IN  IF own = << >> THEN 0 ELSE Last(own).val

-------------------------------------------------------------------------------
\* A string table's entry; outside it there is no string.
TextAt(b, o) == IF o < Len(b) /\ At(b, o).kind = "str" THEN At(b, o).text ELSE NoText

\* A cell that is no symbol, read as one: what stands where its name's offset
\* should be points beyond the file.
Misread == [name |-> NoText, value |-> 0, shndx |-> 0]

SymbolAt(b, strtab, o) ==
  IF At(b, o).kind # "sym" THEN Misread
  ELSE [name |-> IF At(b, o).name = 0 THEN NoText ELSE TextAt(b, strtab + At(b, o).name),
        value |-> At(b, o).value, shndx |-> At(b, o).shndx]

\* With the newer hash table alone, 5000 symbols are looked for.
ManySymbols == 5000

\* How many symbols a hash table announces.
SymbolCount(b) ==
  LET hash == TagOf(b, {"hash"}) IN
  IF hash # 0 THEN LET o == OffsetOf(b, hash) IN IF o = -1 THEN 0 ELSE At(b, o).nchain
  ELSE IF TagOf(b, {"gnu_hash"}) # 0 THEN ManySymbols ELSE 0

\* parse_custom_symbols
Symbols(b) ==
  IF ~IsElf(b) \/ ~HasDynamic(b) THEN << >>
  ELSE LET sym == OffsetOf(b, TagOf(b, {"symtab"}))
           str == OffsetOf(b, TagOf(b, {"strtab"}))
           n   == IF SymbolCount(b) < Len(b) - sym THEN SymbolCount(b) ELSE Len(b) - sym
       IN  IF TagOf(b, {"symtab"}) = 0 \/ TagOf(b, {"strtab"}) = 0 \/ sym = -1 \/ str = -1 THEN << >>
           ELSE [i \in 1 .. n |-> SymbolAt(b, str, sym + i - 1)]

\* get_elf_needed_libraries: the platform's own tags count too.
Needed(b) ==
  IF ~IsElf(b) \/ ~HasDynamic(b) THEN << >>
  ELSE LET strtab == TagOf(b, {"strtab", "os_strtab"})
           strsz  == TagOf(b, {"strsz", "os_strsz"})
           str    == OffsetOf(b, strtab)
           tags   == SelectSeq(Tags(b), LAMBDA e : /\ e.tag \in {"needed", "os_import", "os_import_1"}
                                                    /\ e.val < strsz)
           names  == [i \in 1 .. Len(tags) |-> TextAt(b, str + tags[i].val)]
       IN  IF strtab = 0 \/ str = -1 THEN << >> ELSE SelectSeq(names, LAMBDA n : n # NoText)

\* The entries of one of the relocation tables; none when its address is not in
\* the file.
Table(b, address, size) ==
  LET o == OffsetOf(b, TagOf(b, {address})) IN
  IF TagOf(b, {address}) = 0 \/ TagOf(b, {size}) = 0 THEN << >>
  ELSE SubSeq(b, o + 1, o + TagOf(b, {size}))

TableMissing(b, address, size) ==
  TagOf(b, {address}) # 0 /\ TagOf(b, {size}) # 0 /\ OffsetOf(b, TagOf(b, {address})) = -1

\* Defect: the table of calls is read with the size of the other.
RelocationsOneSize(b) ==
  IF ~HasDynamic(b) \/ TableMissing(b, "rela", "relasz") THEN << >>
  ELSE Table(b, "rela", "relasz") \o Table(b, "jmprel", "relasz")

\* apply_custom_relocations, the entries in the order they are processed: a table
\* that is missing ends it.
Relocations(b) ==
  IF ~HasDynamic(b) \/ TableMissing(b, "rela", "relasz") THEN << >>
  ELSE Table(b, "rela", "relasz")
       \o IF TableMissing(b, "jmprel", "pltrelsz") THEN << >> ELSE Table(b, "jmprel", "pltrelsz")

\* get_elf_tls_size: the size of the first thread-local segment.
TlsSize(b) ==
  LET tls == SelectSeq(Phdrs(b), LAMBDA p : p.type = "tls")
  IN  IF tls = << >> THEN 0 ELSE tls[1].memsz

\* The range of addresses of the segments that have a size.
Occupied(b) == {i \in DOMAIN LoadHeaders(b) : LoadHeaders(b)[i].memsz > 0}

MinVaddr(b) == Min({LoadHeaders(b)[i].va : i \in Occupied(b)})

MaxVaddr(b) == Max({LoadHeaders(b)[i].va + LoadHeaders(b)[i].memsz : i \in Occupied(b)})

-------------------------------------------------------------------------------
\* Signed files

Signed(b) == b # << >> /\ b[1].kind = "self"

\* The file from the plain header on, as long as its segments need.
Padded(b, size) == b \o [i \in 1 .. (IF size > Len(b) THEN size - Len(b) ELSE 0) |-> Zero]

Spliced(b, at, cells) ==
  LET p == Padded(b, at + Len(cells))
  IN  SubSeq(p, 1, at) \o cells \o SubSeq(p, at + Len(cells) + 1, Len(p))

\* Segments with a payload and a program header.
Payloads(b) ==
  SelectSeq(SubSeq(b, 2, 1 + b[1].count),
            LAMBDA s : s.blocked /\ s.phdr < b[2 + b[1].count].phnum)

\* reconstruct_self_to_elf
Reconstructed(b) ==
  LET plain == SubSeq(b, 2 + b[1].count, Len(b))
      Put(e, s) == Spliced(e, Phdrs(e)[s.phdr + 1].off, SubSeq(b, s.off + 1, s.off + s.size))
  IN  FoldLeft(Put, plain, Payloads(b))

\* It fails on a file cut short.
CutShort(b) ==
  \/ Len(b) < 2 + b[1].count
  \/ Len(b) < 1 + b[1].count + b[2 + b[1].count].phoff + b[2 + b[1].count].phnum
  \/ \E i \in DOMAIN Payloads(b) : Payloads(b)[i].off + Payloads(b)[i].size > Len(b)

\* preprocess_elf_buffer: a section table that is not in the file is forgotten.
Preprocessed(b) ==
  IF IsElf(b) /\ b[1].shoff + b[1].shnum > Len(b)
    THEN [b EXCEPT ![1].shoff = 0, ![1].shnum = 0] ELSE b

Plain(file) == Preprocessed(IF Signed(file) THEN Reconstructed(file) ELSE file)

\* Whether a file can be loaded at all: it is whole, is an image, has segments.
Loadable(file) ==
  /\ ~(Signed(file) /\ CutShort(file))
  /\ IsElf(Plain(file))
  /\ Occupied(Plain(file)) # {}

-------------------------------------------------------------------------------
\* The stub files and lists a kit comes with name encoded functions.

\* What stands for a function that has no encoded form in its stub file: a number
\* computed of its name, which is not the function's own.
Computed(name) == [computed |-> name]

\* parse_stub_symbols, and the list of names in the form load_executable reads:
\* pairs of an encoded form and a name.  A shared stub has as many encoded forms
\* as symbols; an archive's member has one, for its first function, or none.
StubEntries(b) ==
  CASE b.kind = "shared" ->
         {[nid |-> b.nids[i], name |-> b.names[i].of] :
            i \in {j \in DOMAIN b.nids \cap DOMAIN b.names : b.nids[j] # NoText /\ b.names[j] # NoText}}
    [] b.kind = "archive" ->
         UNION {LET functions == SelectSeq(b.members[i].names, LAMBDA n : n.kind = "function")
                IN  IF b.members[i].nid = NoText
                      THEN {[nid |-> Computed(f.of), name |-> f.of] : f \in Range(functions)}
                    ELSE IF functions = << >> THEN {}
                    ELSE {[nid |-> b.members[i].nid, name |-> functions[1].of]} :
                i \in DOMAIN b.members}
    [] b.kind = "list" -> {e \in b.entries : e.name # NoText}

\* All that is read of a file.
Image(file) ==
  LET b == Plain(file) IN
  [symbols |-> Symbols(b), needed |-> Needed(b), relocations |-> Relocations(b),
   tls |-> TlsSize(b), min |-> MinVaddr(b), size |-> MaxVaddr(b) - MinVaddr(b),
   entry |-> b[1].entry, pg |-> b[1].pg,
   segments |-> [i \in DOMAIN LoadHeaders(b) |-> [va |-> LoadHeaders(b)[i].va, size |-> LoadHeaders(b)[i].memsz]]]
===============================================================================
