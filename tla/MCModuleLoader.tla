---------------------------- MODULE MCModuleLoader ----------------------------
(***************************************************************************)
(* Small games, made by a linker written from the format's rules, loaded   *)
(* while two guest threads load, unload and allocate.                      *)
(***************************************************************************)
EXTENDS ModuleLoader, TLC

CONSTANTS f1, f2, f3, f4, m0, t1, t2

Nid(f, x)   == [form |-> "nid", of |-> f, suffix |-> x]
Named(f)    == [form |-> "plain", of |-> f, suffix |-> "none"]
Lib(s, e)   == [stem |-> s, ext |-> e]

-------------------------------------------------------------------------------
\* The linker: a description of a library, and its file.

\* An import and the relocation that fills its slot.
Import(n, type) == [name |-> n, type |-> type]

Library(exports, imports, needs, wrapped, hash, tls) ==
  [exports |-> exports, imports |-> imports, needs |-> needs,
   wrapped |-> wrapped, hash |-> hash, tls |-> tls]

Header == 5   \* cells of the headers
Gap == 2      \* between offsets and addresses, and between the segments

Count(s) == Len(s)

TextStrings(d) ==
  <<[kind |-> "str", text |-> NoText]>>
  \o [i \in DOMAIN d.exports |-> [kind |-> "str", text |-> d.exports[i]]]
  \o [i \in DOMAIN d.imports |-> [kind |-> "str", text |-> d.imports[i].name]]
  \o [i \in DOMAIN d.needs |-> [kind |-> "str", text |-> d.needs[i]]]

Syms(d) == 1 + Len(d.exports) + Len(d.imports)
SymtabOff == Header
StrtabOff(d) == SymtabOff + Syms(d)
HashOff(d) == StrtabOff(d) + Len(TextStrings(d))
RelaOff(d) == HashOff(d) + 1

Jumps(d) == SelectSeq(d.imports, LAMBDA m : m.type = "jump_slot")
Others(d) == SelectSeq(d.imports, LAMBDA m : m.type # "jump_slot")
TextEnd(d) == RelaOff(d) + 1 + Len(d.imports)

Va(o) == o + Gap
DataOff(d) == TextEnd(d)
DataVa(d) == Va(TextEnd(d)) + Gap
DynCount == 9
DynCells(d) == DynCount + Len(d.needs)
SlotVa(d, i) == DataVa(d) + DynCells(d) + i

SymbolIndex(d, m) ==
  Len(d.exports) + SelectInSeq(d.imports, LAMBDA x : x = m)

Rela(d, m) == [kind |-> "rela", off |-> SlotVa(d, SymbolIndex(d, m)), sym |-> SymbolIndex(d, m),
               type |-> m.type, addend |-> IF m.type = "64" THEN 1 ELSE 0]

Relas(d) ==
  <<[kind |-> "rela", off |-> SlotVa(d, 0), sym |-> 0, type |-> "relative", addend |-> Va(SymtabOff)]>>
  \o [i \in DOMAIN Others(d) |-> Rela(d, Others(d)[i])]
  \o [i \in DOMAIN Jumps(d) |-> Rela(d, Jumps(d)[i])]

MeantSymbols(d) ==
  <<[name |-> NoText, value |-> 0, shndx |-> 0]>>
  \o [i \in DOMAIN d.exports |-> [name |-> d.exports[i], value |-> Va(SymtabOff) + i, shndx |-> 1]]
  \o [i \in DOMAIN d.imports |-> [name |-> d.imports[i].name,
        value |-> IF d.imports[i].type = "tpoff" THEN 1 ELSE 0, shndx |-> 0]]

TextCells(d) ==
  [i \in 1 .. Syms(d) |-> [kind |-> "sym", name |-> i - 1, value |-> MeantSymbols(d)[i].value,
                           shndx |-> MeantSymbols(d)[i].shndx]]
  \o TextStrings(d)
  \o <<[kind |-> "hash", nchain |-> Syms(d)]>>
  \o Relas(d)

Tag(t, v) == [kind |-> "dyn", tag |-> t, val |-> v]

DataCells(d) ==
  <<Tag("strtab", Va(StrtabOff(d))), Tag("strsz", Len(TextStrings(d))),
    Tag("symtab", Va(SymtabOff)), Tag(d.hash, Va(HashOff(d)))>>
  \o [i \in DOMAIN d.needs |->
        Tag("needed", 1 + Len(d.exports) + Len(d.imports) + i - 1)]
  \o <<Tag("rela", Va(RelaOff(d))), Tag("relasz", 1 + Len(Others(d))),
       Tag("jmprel", Va(RelaOff(d)) + 1 + Len(Others(d))), Tag("pltrelsz", Len(Jumps(d))),
       Tag("null", 0)>>

DataSize(d) == DynCells(d) + Syms(d) + 1

Phdr(type, off, va, filesz, memsz) ==
  [kind |-> "phdr", type |-> type, off |-> off, va |-> va, filesz |-> filesz, memsz |-> memsz]

HeaderCells(d) ==
  <<[kind |-> "elf", phoff |-> 1, phnum |-> 4, shoff |-> 900, shnum |-> 1,
     entry |-> Va(SymtabOff), pg |-> << >>],
    Phdr("load", Header, Va(Header), Len(TextCells(d)), Len(TextCells(d))),
    Phdr("load", DataOff(d), DataVa(d), Len(DataCells(d)), DataSize(d)),
    Phdr("dynamic", DataOff(d), DataVa(d), Len(DataCells(d)), Len(DataCells(d))),
    Phdr("tls", 0, 0, 0, d.tls)>>

\* Signed files hold the data before the text.
File(d) ==
  IF ~d.wrapped THEN HeaderCells(d) \o TextCells(d) \o DataCells(d)
  ELSE LET at == 4 + Header IN
       <<[kind |-> "self", count |-> 3],
         [kind |-> "seg", blocked |-> TRUE, phdr |-> 0, off |-> at + Len(DataCells(d)), size |-> Len(TextCells(d))],
         [kind |-> "seg", blocked |-> FALSE, phdr |-> 1, off |-> 0, size |-> 0],
         [kind |-> "seg", blocked |-> TRUE, phdr |-> 1, off |-> at, size |-> Len(DataCells(d))]>>
       \o HeaderCells(d) \o DataCells(d) \o TextCells(d)

\* What the loader should read of it; with the newer hash table it reads on
\* beyond the symbols, and finds nothing there that has a name.
ReadAsMeant(image, d) ==
  LET n == Len(MeantSymbols(d)) IN
  /\ SubSeq(image.symbols, 1, n) = MeantSymbols(d)
  /\ d.hash = "hash" => Len(image.symbols) = n
  /\ \A i \in n + 1 .. Len(image.symbols) : image.symbols[i].name = NoText
  /\ image.needed = d.needs
  /\ image.relocations = Relas(d)
  /\ image.tls = d.tls
  /\ image.min = Va(Header)
  /\ image.size = DataVa(d) + DataSize(d) - Va(Header)

-------------------------------------------------------------------------------
Path(dir, s, e) == [dir |-> dir, name |-> Lib(s, e)]

Exe == Path("disc", "eboot", "bin")

Empty(needs) == Library(<< >>, << >>, needs, FALSE, "hash", 0)

Libs ==
  \* The executable, a library and one that both need.
  <<Exe :> Library(<<Nid(f1, "A")>>,
                   <<Import(Nid(f2, "B"), "jump_slot"), Import(Nid(f4, "C"), "jump_slot")>>,
                   <<Lib("libA", "prx"), Lib("libB", "none")>>, TRUE, "hash", 4)
    @@ Path("module", "libA", "prx") :>
         Library(<<Nid(f2, "X")>>, <<Import(Nid(f3, "Y"), "jump_slot"), Import(Nid(f1, "Y"), "glob_dat")>>,
                 <<Lib("libB", "sprx")>>, FALSE, "gnu_hash", 2)
    @@ Path("app0", "libB", "sprx") :>
         Library(<<Nid(f3, "Z"), Named(f4)>>, << >>, << >>, FALSE, "hash", 0),
  \* The game's own C library beside the firmware's, a missing library and calls
  \* of functions nobody has.
    Exe :> Library(<< >>, <<Import(Nid(f2, "B"), "jump_slot"), Import(Nid(f4, "B"), "jump_slot"),
                            Import(Nid(f3, "B"), "tpoff"), Import(Nid(f1, "B"), "copy")>>,
                   <<Lib("libc", "prx"), Lib("libA", "prx"), Lib("libZ", "prx")>>, FALSE, "hash", 4)
    @@ Path("app0", "libA", "prx") :>
         Library(<<Nid(f1, "Y")>>, <<Import(Nid(f3, "Y"), "jump_slot")>>,
                 <<Lib("libc", "prx")>>, TRUE, "hash", 0)
    @@ Path("module", "libc", "prx") :> Library(<<Nid(f4, "Q")>>, << >>, << >>, FALSE, "hash", 0)
    @@ Path("system", "libSceLibcInternal", "sprx") :> Library(<<Nid(f4, "Q")>>, << >>, << >>, FALSE, "hash", 0),
  \* Two libraries that need each other.
    Exe :> Empty(<<Lib("libA", "prx")>>)
    @@ Path("module", "libA", "prx") :> Empty(<<Lib("libB", "prx")>>)
    @@ Path("module", "libB", "prx") :> Empty(<<Lib("libA", "prx")>>),
  \* A file that is cut short.
    Exe :> Empty(<< >>)>>

Broken == {4}

FileIn(g, p) ==
  IF g \in Broken THEN SubSeq(File([Libs[g][p] EXCEPT !.wrapped = TRUE]), 1, 12) ELSE File(Libs[g][p])

\* Each game's files.
GamesOf ==
  FoldLeft(LAMBDA games, g : Append(games, FoldSet(LAMBDA p, files : files @@ (p :> FileIn(g, p)), << >>, DOMAIN Libs[g])),
           << >>, [g \in DOMAIN Libs |-> g])

\* TLC keeps the value of GamesOf, not that of what replaces a constant.
MCGames == GamesOf

\* A stub library with two forms, one of them of nothing, and an archive whose
\* members have a form for a function after a section's name, and none.
Function(f) == [kind |-> "function", of |-> f]
Section == [kind |-> "section", of |-> "text"]

MCStubs ==
  <<[kind |-> "shared", nids |-> <<f1, NoText, f2>>, names |-> <<Function(f1), Function(f4), Function(f2)>>],
    [kind |-> "archive", members |-> <<[nid |-> f3, names |-> <<Section, Function(f3)>>],
                                       [nid |-> NoText, names |-> <<Section, Function(f4)>>]>>],
    [kind |-> "list", entries |-> {[nid |-> f2, name |-> f2]}]>>
MCAmpr == {f4}
MCWritten == {f3}
MCGenerated == {f1, f3}
MCThreads == {m0, t1, t2}

Symmetry == Permutations({t1, t2})

\* What the loader reads of a file is what the linker put there: through a
\* signed file's pieces in another order, either hash table, and addresses that
\* are no offsets (reconstruct_self_to_elf, parse_custom_symbols,
\* get_elf_needed_libraries, apply_custom_relocations).
ParsedAsLinked ==
  \A t \in Threads :
    Is(t, "map") =>
      ReadAsMeant(Top(t).image, Libs[game][Top(t).path])
===============================================================================
