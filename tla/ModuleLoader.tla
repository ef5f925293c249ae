----------------------------- MODULE ModuleLoader -----------------------------
(***************************************************************************)
(* Loading the executable and dynamic modules into the guest's memory      *)
(* (src/src/loader.rs, the module calls of src/src/kernel_hle.rs and the   *)
(* start of src/src/main.rs), while guest threads use that memory.         *)
(*                                                                         *)
(* A load is a frame on its thread's stack: the file is mapped, its        *)
(* exports are registered one by one, the libraries it needs are loaded in *)
(* frames of their own, its relocations are applied one by one, and it is  *)
(* put in the table of modules.  Each table has a lock that is held for    *)
(* one access: two loads interleave between any two of these steps.        *)
(***************************************************************************)
EXTENDS GuestMemory, ElfImage

CONSTANTS
  Main,        \* the thread that starts the program
  Games,       \* for each game: its files by path
  Executable,  \* path of the executable
  Builtin,     \* functions the program's own tables have the encoded form of
  StubFiles,   \* files that name more of them, in the order they are read
  Ampr,        \* functions of the AMPR library's table
  Written,     \* functions of the hand-written table
  Blank,       \* functions it knows by the beginning of their name only
  Generated,   \* functions of the generated table
  Noop,        \* the function that does nothing but answer 0
  StubSlots,   \* stubs the allocator of stubs has room for
  StackDepth   \* frames the host's stack has room for

LoadHeader == [kind : {"phdr"}, type : {"load"}, off : Nat, va : Nat, filesz : Nat, memsz : Nat]

\* A segment's pages stay in those of its file: segments begin at pages of the
\* guest's size, or where the host refuses to unmap them.
HasOwnPages(b, h) ==
  LET at == h.va - MinVaddr(b) IN
  h.memsz > 0 /\ at % HostPage = 0 =>
    at + RoundUp(h.memsz, GuestPage) <= RoundUp(MaxVaddr(b) - MinVaddr(b), GuestPage)

IsName(name) == name = [stem |-> name.stem, ext |-> name.ext]

ASSUME LoaderAssumption ==
  /\ Main \in Threads /\ StubSlots \in Nat /\ StackDepth \in Nat
  /\ \A g \in DOMAIN Games :
       /\ IsFiniteSet(DOMAIN Games[g]) /\ Executable \in DOMAIN Games[g]
       /\ \A p \in DOMAIN Games[g] :
            /\ IsName(p.name)
            /\ LET file == Games[g][p] IN
               Loadable(file) =>
                 /\ LoadHeaders(Plain(file)) \in Seq(LoadHeader)
                 /\ \A h \in Range(LoadHeaders(Plain(file))) : HasOwnPages(Plain(file), h)

VARIABLES
  game,        \* which of the games it is
  process,     \* "off", "loading", "running", "idle", or how it ended
  stack,       \* the frames of each thread, the last one active
  modules,     \* LOADED_MODULES, by id
  moduleCount, \* MODULE_COUNTER
  globals,     \* GLOBAL_SYMBOLS: addresses by name
  gotNames,    \* GOT_SYMBOL_MAPPINGS: names by address
  slots,       \* what relocations have written, by address
  stubs,       \* the functions stubs have been made for, in order
  tlsSize,     \* STATIC_TLS_SIZE
  placed,      \* history: where files have been mapped
  handles,     \* history: what loads have answered to the guest
  dependencies,\* history: loads as a dependency that are listed, by thread
  trapped      \* history: the call that ended the process and the name reported

loaderVars == <<game, process, stack, modules, moduleCount, globals, gotNames,
                slots, stubs, tlsSize, placed, handles, dependencies, trapped>>

vars == <<loaderVars, memoryVars, calls, refusals>>

Files == Games[game]

-------------------------------------------------------------------------------
\* Names of libraries

Normalized(name) == [name EXCEPT !.ext = "sprx"]

\* The names a library may have in the game's directories.
FileNames(name) ==
  CASE name.ext = "prx"  -> <<name, [name EXCEPT !.ext = "sprx"]>>
    [] name.ext = "sprx" -> <<name, [name EXCEPT !.ext = "prx"]>>
    [] OTHER             -> <<name, [name EXCEPT !.ext = "prx"], [name EXCEPT !.ext = "sprx"]>>

\* find_firmware_library: two libraries have another name there.
FirmwareName(name) ==
  IF name.stem = "libc" /\ name.ext # "sprx" THEN [stem |-> "libSceLibcInternal", ext |-> "sprx"]
  ELSE Normalized(name)

PathsIn(dir, names) == [i \in DOMAIN names |-> [dir |-> dir, name |-> names[i]]]

\* The first of these paths where there is a file.
FirstOf(paths) ==
  LET there == {i \in DOMAIN paths : paths[i] \in DOMAIN Files}
  IN  IF there = {} THEN << >> ELSE <<paths[Min(there)]>>

Firmware(name) == FirstOf(<<[dir |-> "system", name |-> FirmwareName(name)],
                            [dir |-> "system_ex", name |-> FirmwareName(name)]>>)

\* Where load_needed_libraries finds a library.
Found(name) ==
  LET own == FirstOf(PathsIn("module", FileNames(name)) \o PathsIn("app0", FileNames(name)))
  IN  IF own = << >> THEN Firmware(name) ELSE own

\* Defect: the name is compared as the importing file has it.
IsListedAsWritten(name) == \E id \in DOMAIN modules : modules[id].name = name

\* is_module_loaded: by the firmware's name for it when the firmware has it.
IsModuleLoaded(name) ==
  LET listed == IF Firmware(name) = << >> THEN Normalized(name) ELSE Firmware(name)[1].name
  IN  \E id \in DOMAIN modules : modules[id].name = listed

\* The name the library at a path is listed by.
ListedAs(path) == IF path = Executable THEN path.name ELSE Normalized(path.name)

-------------------------------------------------------------------------------
\* Names of symbols and their addresses

Base(n) == [n EXCEPT !.suffix = "none"]

Human(f) == [form |-> "plain", of |-> f, suffix |-> "none"]

\* The names encoded forms are known by (register_nid_name): the program's own,
\* then those of each file, which names a form once.
BuiltinNames == [f \in Builtin |-> f]

NidNames ==
  LET Read(names, b) ==
        [x \in DOMAIN names \cup {e.nid : e \in StubEntries(b)} |->
           IF \E e \in StubEntries(b) : e.nid = x
             THEN (CHOOSE e \in StubEntries(b) : e.nid = x).name ELSE names[x]]
  IN  FoldLeft(Read, BuiltinNames, StubFiles)

\* An encoded name that is known stands for that function's own.
Decoded(n) == IF n.form = "nid" /\ n.of \in DOMAIN NidNames THEN Human(NidNames[n.of]) ELSE n

\* Defect: the suffix is kept.
NamesWithSuffix(n) == {n, Decoded(n)}

\* register_global_symbol: as it is, without its suffix, by its known name.
RegisteredNames(n) == {n, Base(n), Decoded(Base(n))}

Exports(n, address) ==
  [x \in DOMAIN globals \cup RegisteredNames(n) |->
     IF x \in RegisteredNames(n) THEN address ELSE globals[x]]

\* resolve_symbol_name, which knows encoded names for the executable alone, and
\* the names its own symbol table has for slots.
SymbolName(path, pg, n, offset) ==
  IF path # Executable THEN n
  ELSE IF offset \in DOMAIN pg THEN Human(pg[offset])
  ELSE Decoded(n)

\* The tables of the program's own functions.
AmprFunction(n) == IF n.of \in Ampr THEN <<[table |-> "ampr", of |-> n.of]>> ELSE << >>

\* Whatever looks like an encoded name is in this table, and does nothing.
WrittenFunction(n) ==
  CASE n.form = "plain" /\ n.of \in Written -> <<[table |-> "written", of |-> n.of]>>
    [] n.form = "nid" \/ n.of \in Blank      -> <<[table |-> "written", of |-> Noop]>>
    [] OTHER                                 -> << >>

\* The functions of the generated table log that they were called and answer 0,
\* as those of the AMPR library do.
DoesNothing(f) == f.table \in {"ampr", "generated"} \/ f.of = Noop

GeneratedFunction(n) ==
  IF n.form = "plain" /\ n.of \in Generated THEN <<[table |-> "generated", of |-> n.of]>> ELSE << >>

\* Those of a name, the one it stands for first.
Implementations(n) ==
  LET raw == Base(n)
      r   == Decoded(raw)
  IN  AmprFunction(r) \o WrittenFunction(r) \o AmprFunction(raw) \o WrittenFunction(raw)
      \o GeneratedFunction(r) \o GeneratedFunction(raw)

\* resolve_symbol_address_impl: exports of modules and the executable, then the
\* program's own functions.
Addresses(n) ==
  LET Exported(x) == IF x \in DOMAIN globals THEN <<[kind |-> "at", at |-> globals[x]]>> ELSE << >>
      own == Implementations(n)
  IN  Exported(Decoded(Base(n))) \o Exported(Base(n))
      \o [i \in DOMAIN own |-> [kind |-> "hle", of |-> own[i]]]

\* wrap_hle_address: one stub for each function.
StubOf(f) == IF f \in Range(stubs) THEN SelectInSeq(stubs, LAMBDA g : g = f) ELSE Len(stubs) + 1

NoRoom(f) == f \notin Range(stubs) /\ Len(stubs) = StubSlots

-------------------------------------------------------------------------------
Active(t) == stack[t] # << >>
Top(t)    == Last(stack[t])
Img(t)    == Top(t).image
Is(t, phase) == Active(t) /\ Top(t).phase = phase /\ process \in {"loading", "running"}

\* The active frame goes on.
Continues(t, frame) == stack' = [stack EXCEPT ![t] = [@ EXCEPT ![Len(@)] = frame]]

Goes(t, phase, i) == Continues(t, [Top(t) EXCEPT !.phase = phase, !.i = i])

Frame(path, dep) ==
  [path |-> path, dependency |-> dep, phase |-> "read", image |-> << >>, base |-> None,
   i |-> 1, with |-> {}]

InitLoader ==
  /\ game \in DOMAIN Games
  /\ process = "off"
  /\ stack = [t \in Threads |-> << >>]
  /\ modules = << >> /\ moduleCount = 1
  /\ globals = << >> /\ gotNames = << >> /\ slots = << >>
  /\ stubs = << >> /\ tlsSize = 0
  /\ placed = {} /\ handles = {} /\ dependencies = {} /\ trapped = {}

\* Everything but the stack; an action says what else it changes.
symbolVars == <<globals, gotNames, slots, stubs, tlsSize>>
tableVars  == <<modules, moduleCount, handles, dependencies, trapped>>

\* The program starts with the path of an executable.
Start ==
  /\ process = "off"
  /\ process' = "loading"
  /\ stack' = [stack EXCEPT ![Main] = <<Frame(Executable, FALSE)>>]
  /\ UNCHANGED <<game, symbolVars, placed, tableVars, memoryVars, calls, refusals>>

\* A load that fails gives nothing to the guest; a dependency's failure is logged
\* and its parent goes on.
Fails(t) ==
  /\ stack' = [stack EXCEPT ![t] = Front(@)]
  /\ process' = IF Len(stack[t]) = 1 /\ process = "loading" THEN "idle" ELSE process

\* The file is read and checked; the executable's thread-local size counts for all.
ReadFile(t) ==
  /\ Is(t, "read")
  /\ LET file == Files[Top(t).path] IN
     IF ~Loadable(file) THEN Fails(t) /\ UNCHANGED tlsSize
     ELSE /\ Continues(t, [Top(t) EXCEPT !.phase = "map", !.image = Image(file)])
          /\ tlsSize' = IF Top(t).path = Executable THEN Image(file).tls ELSE tlsSize
          /\ UNCHANGED process
  /\ UNCHANGED <<game, globals, gotNames, slots, stubs, placed, tableVars, memoryVars, calls, refusals>>

Defined(image) == SelectSeq(image.symbols, LAMBDA s : s.shndx # 0 /\ s.value # 0 /\ s.name # NoText)

DefinedAt(image, base) ==
  {[name |-> s.name, at |-> base + (s.value - image.min)] : s \in Range(Defined(image))}

\* It gets memory of its own, and the executable's end becomes the break
\* (load_executable, load_sprx_module).
MapFile(t) ==
  /\ Is(t, "map")
  /\ \E o \in Allocations(0, Img(t).size, "module") :
       /\ Take(o)
       /\ IF o.base = None THEN Fails(t) /\ UNCHANGED <<brk, placed>>
          ELSE /\ Continues(t, [Top(t) EXCEPT !.phase = "export", !.base = o.base])
               /\ brk' = IF Top(t).path = Executable
                           THEN RoundUp(o.base + Img(t).size, GuestPage) ELSE brk
               /\ placed' = placed \cup DefinedAt(Img(t), o.base)
               /\ UNCHANGED process
  /\ UNCHANGED <<game, symbolVars, tableVars, allocs, mappings, jit, nextFd, call, shrunk, calls>>

Address(t, value) == Top(t).base + (value - Img(t).min)

\* Its next defined symbol is registered.
Export(t) ==
  /\ Is(t, "export")
  /\ LET defined == Defined(Img(t))
         i == Top(t).i
     IN  IF i > Len(defined) THEN Goes(t, "needs", 1) /\ UNCHANGED globals
         ELSE /\ Goes(t, "export", i + 1)
              /\ globals' = Exports(defined[i].name, Address(t, defined[i].value))
  /\ UNCHANGED <<game, process, gotNames, slots, stubs, tlsSize, placed, tableVars, memoryVars, calls, refusals>>

\* History: what is exported by the modules it needs, as far as they are listed.
ExportsOf(needed) ==
  UNION {{s.name : s \in DefinedAt(modules[id].image, 0)} : id \in {i \in DOMAIN modules :
     \E j \in DOMAIN needed : Found(needed[j]) # << >>
        /\ modules[i].name = Normalized(Found(needed[j])[1].name)}}

\* The next library it needs: skipped when it is listed or nowhere to be found,
\* else loaded first, as long as the host's stack has room (load_needed_libraries).
Need(t) ==
  /\ Is(t, "needs")
  /\ LET needed == Img(t).needed
         i      == Top(t).i
     IN  IF i \notin DOMAIN needed
           THEN /\ Continues(t, [Top(t) EXCEPT
                     !.phase = "relocate", !.i = 1, !.with = ExportsOf(needed)])
                /\ UNCHANGED process
         ELSE IF IsModuleLoaded(needed[i]) \/ Found(needed[i]) = << >>
           THEN Goes(t, "needs", i + 1) /\ UNCHANGED process
         ELSE IF Len(stack[t]) = StackDepth THEN process' = "overflow" /\ UNCHANGED stack
         ELSE /\ stack' = [stack EXCEPT ![t] = Append([@ EXCEPT ![Len(@)] = [Top(t) EXCEPT !.i = i + 1]],
                                                        Frame(Found(needed[i])[1], TRUE))]
              /\ UNCHANGED process
  /\ UNCHANGED <<game, symbolVars, placed, tableVars, memoryVars, calls, refusals>>

-------------------------------------------------------------------------------
\* Relocations

Put(map, a, v) == [x \in DOMAIN map \cup {a} |-> IF x = a THEN v ELSE map[x]]

GotAddress(t, e) == Address(t, e.off)

\* One type of entry adds a number to the address.
Plus(e) == IF e.type = "64" THEN e.addend ELSE 0

\* Entries about a named symbol.
Symbolic == {"64", "glob_dat", "jump_slot"}

\* One entry (process_rela_entry): an import that is not found is left as it is,
\* or for a call set to the trap.
RelocateSymbol(t, e) ==
  LET raw  == Img(t).symbols[e.sym + 1].name
      name == SymbolName(Top(t).path, Img(t).pg, raw, e.off)
      c    == Addresses(name)
  IN  IF raw = NoText THEN UNCHANGED <<gotNames, slots, stubs, process>>
      ELSE /\ gotNames' = IF e.type = "64" THEN gotNames ELSE Put(gotNames, GotAddress(t, e), name)
           /\ IF c = << >>
                THEN /\ slots' = IF e.type = "jump_slot"
                                   THEN Put(slots, Address(t, e.off), [kind |-> "trap"]) ELSE slots
                     /\ UNCHANGED <<stubs, process>>
              ELSE IF c[1].kind = "at"
                THEN /\ slots' = Put(slots, Address(t, e.off), [kind |-> "at", at |-> c[1].at + Plus(e)])
                     /\ UNCHANGED <<stubs, process>>
              ELSE IF NoRoom(c[1].of) THEN process' = "panic" /\ UNCHANGED <<slots, stubs>>
              ELSE /\ slots' = Put(slots, Address(t, e.off), [kind |-> "stub", stub |-> StubOf(c[1].of), plus |-> Plus(e)])
                   /\ stubs' = IF c[1].of \in Range(stubs) THEN stubs ELSE Append(stubs, c[1].of)
                   /\ UNCHANGED process

\* Entries that write a number or copy a variable.
RelocateValue(t, e) ==
  LET symbol == Img(t).symbols[e.sym + 1]
      name   == SymbolName(Top(t).path, Img(t).pg, symbol.name, e.off)
  IN  /\ slots' =
           CASE e.type = "relative" ->
                  Put(slots, Address(t, e.off), [kind |-> "at", at |-> Address(t, e.addend)])
             [] e.type = "tpoff" ->
                  Put(slots, Address(t, e.off), [kind |-> "tp", tp |-> symbol.value + e.addend - tlsSize])
             [] e.type = "copy" /\ symbol.name # NoText /\ name \in DOMAIN globals ->
                  Put(slots, Address(t, e.off), [kind |-> "copy", copy |-> globals[name]])
             [] OTHER -> slots
      /\ UNCHANGED <<gotNames, stubs, process>>

Relocate(t) ==
  /\ Is(t, "relocate")
  /\ IF Top(t).i > Len(Img(t).relocations)
       THEN Goes(t, "list", 1) /\ UNCHANGED <<gotNames, slots, stubs, process>>
       ELSE LET e == Img(t).relocations[Top(t).i] IN
            /\ Goes(t, "relocate", Top(t).i + 1)
            /\ IF e.type # "relative" /\ e.sym >= Len(Img(t).symbols)
                 THEN UNCHANGED <<gotNames, slots, stubs, process>>
               ELSE IF e.type \in Symbolic THEN RelocateSymbol(t, e) ELSE RelocateValue(t, e)
  /\ UNCHANGED <<game, globals, tlsSize, placed, tableVars, memoryVars, calls, refusals>>

-------------------------------------------------------------------------------
\* The table of modules

Listed(id, m) == Put(modules, id, m)

Module(t) ==
  [path |-> Top(t).path, base |-> Top(t).base, image |-> Img(t),
   name |-> ListedAs(Top(t).path),
   entry |-> Address(t, Img(t).entry), with |-> Top(t).with]

\* The frame ends with its module in the table.  The executable has id 0 and its
\* guest thread is started; a guest's load is answered with the id.
List(t) ==
  /\ Is(t, "list")
  /\ LET exe == Top(t).path = Executable /\ process = "loading"
         id  == IF exe THEN 0 ELSE moduleCount
     IN  /\ modules' = Listed(id, Module(t))
         /\ moduleCount' = IF exe THEN moduleCount ELSE moduleCount + 1
         /\ process' = IF exe THEN "running" ELSE process
         /\ handles' = IF exe \/ Top(t).dependency THEN handles
                       ELSE handles \cup {[id |-> id, base |-> Top(t).base, open |-> TRUE]}
         /\ dependencies' = IF Top(t).dependency
                              THEN dependencies \cup {[thread |-> t, id |-> id]} ELSE dependencies
  /\ stack' = [stack EXCEPT ![t] = Front(@)]
  /\ UNCHANGED <<game, symbolVars, placed, trapped, memoryVars, calls, refusals>>

IdleGuest(t) == process = "running" /\ ~Active(t) /\ Quiet(t) /\ t # Main

\* sceKernelLoadStartModule: always a new load.  Its entry point then runs in a
\* thread of its own.
LoadStartModule(t) ==
  /\ IdleGuest(t) /\ Counted
  /\ \E path \in DOMAIN Files \ {Executable} :
       stack' = [stack EXCEPT ![t] = <<Frame(path, FALSE)>>]
  /\ UNCHANGED <<game, process, symbolVars, placed, tableVars, memoryVars, refusals>>

\* Each segment's memory goes back.
Unmapped(m) ==
  LET segments == m.image.segments
      left[i \in 0 .. Len(segments)] ==
        IF i = 0 THEN vmas
        ELSE Deallocate(left[i - 1], m.base + (segments[i].va - m.image.min), segments[i].size)
  IN  left[Len(segments)]

\* sceKernelStopUnloadModule: out of the table and unmapped under its lock; an id
\* that is not there is answered with success too.  Symbols stay registered.
StopUnloadModule(t) ==
  /\ IdleGuest(t) /\ Counted
  /\ \E h \in handles :
       /\ handles' = (handles \ {h}) \cup {[h EXCEPT !.open = FALSE]}
       /\ IF h.id \in DOMAIN modules
            THEN /\ modules' = Restrict(modules, DOMAIN modules \ {h.id})
                 /\ vmas' = Unmapped(modules[h.id])
            ELSE UNCHANGED <<modules, vmas>>
  /\ UNCHANGED <<game, process, stack, symbolVars, placed, moduleCount, dependencies, trapped,
                 bump, brk, allocs, mappings, jit, nextFd, call, shrunk, refusals>>

\* find_module_by_address: any module with a segment there.
ModulesAt(a) ==
  {m.name : m \in {x \in Range(modules) : \E s \in Range(x.image.segments) :
                     LET lo == x.base + (s.va - x.image.min) IN lo <= a /\ a < lo + s.size}}

\* The guest calls an import from a listed module's code.  The trap reports the
\* name filed for the slot and the module of the call, and ends the process
\* (hle_unresolved_import_panic).
CallImport(t) ==
  /\ IdleGuest(t) /\ Counted
  /\ \E id \in DOMAIN modules :
       LET m == modules[id] IN
       \E i \in DOMAIN m.image.relocations :
         LET e == m.image.relocations[i]
             a == m.base + (e.off - m.image.min)
         IN  /\ e.type = "jump_slot" /\ a \in DOMAIN slots /\ slots[a].kind = "trap"
             /\ process' = "trapped"
             /\ \E in \in ModulesAt(m.base) :
                  trapped' = {[from |-> m.name, in |-> in, called |-> SymbolName(m.path, m.image.pg, m.image.symbols[e.sym + 1].name, e.off),
                               reported |-> IF a \in DOMAIN gotNames THEN gotNames[a] ELSE NoText]}
  /\ UNCHANGED <<game, stack, symbolVars, placed, modules, moduleCount, handles, dependencies, memoryVars, refusals>>

GuestMemoryCall(t) ==
  /\ process = "running" /\ ~Active(t) /\ t # Main
  /\ Memory(t)
  /\ UNCHANGED loaderVars

LoadStep(t) ==
  \/ ReadFile(t) \/ MapFile(t) \/ Export(t) \/ Need(t) \/ Relocate(t) \/ List(t)

Next ==
  \/ Start
  \/ \E t \in Threads :
       \/ LoadStep(t) \/ LoadStartModule(t) \/ StopUnloadModule(t) \/ CallImport(t)
       \/ GuestMemoryCall(t)

Init == InitMemory /\ InitLoader

Spec == Init /\ [][Next]_vars

-------------------------------------------------------------------------------
\* The names two symbols have meet: the same function, in the same form or in
\* forms the program can tell to be the same.
Meet(n, x) == n.of = x.of /\ (n.form = x.form \/ n.of \in DOMAIN NidNames)

\* The name an import of a module is looked up by, and what it is bound to.
ImportName(m, e) == SymbolName(m.path, m.image.pg, m.image.symbols[e.sym + 1].name, e.off)

\* An import of a module that a library it needs exports, and that was loaded when
\* its relocations began, is bound to an export of that function: not trapped,
\* and not given to the program's own function, whatever suffixes the two names
\* have and whichever threads load at the same time (load_sprx_module loads
\* dependencies "before resolving relocations"; "the global registry
\* (cross-module) wins", loader.rs).  And none whose function is written by hand is
\* given one that does nothing, if the name is known (resolve_symbol_address_impl).
ImportsAreBound ==
  \A id \in DOMAIN modules :
    LET m == modules[id] IN
    \A e \in Range(m.image.relocations) :
      e.type \in {"jump_slot", "glob_dat"} =>
        LET n == ImportName(m, e)
            v == slots[m.base + (e.off - m.image.min)]
        IN  /\ (\E x \in m.with : Meet(n, x)) =>
                 /\ v.kind = "at"
                 /\ \E d \in placed : Meet(n, d.name) /\ v.at = d.at
            /\ v.kind = "stub" /\ DoesNothing(stubs[v.stub]) =>
                 n.of \notin Written \/ (n.form = "nid" /\ n.of \notin DOMAIN NidNames)

\* The names libraries are listed by, and those that a file's needs lead to.
ListedNames == {Normalized(p.name) : p \in DOMAIN Files}

NeededBy(p) ==
  {Normalized(Found(n)[1].name) :
     n \in {x \in Range(Image(Files[p]).needed) : Found(x) # << >>}}

\* Some library needs itself, by way of others or at once.
NeedsGoInCircles ==
  ~\E rank \in [ListedNames -> 1 .. Cardinality(ListedNames)] :
     \A p \in {q \in DOMAIN Files : Loadable(Files[q])} :
       \A n \in NeededBy(p) : rank[n] < rank[Normalized(p.name)]

\* A thread loads no library twice as a dependency while it is listed, along any
\* graph of needs without circles and with other loads going on; the game's copy of
\* a library the firmware knows by another name is the exception (is_module_loaded).
\* Libraries that need each other are begun until the host's stack is full, or until
\* memory is refused, and then listed as often as they were begun.
DependenciesLoadOnce ==
  \A c, d \in {x \in dependencies : x.id \in DOMAIN modules} :
    /\ c.id # d.id /\ c.thread = d.thread
    /\ modules[c.id].name = modules[d.id].name
    /\ FirmwareName([modules[c.id].name EXCEPT !.ext = "prx"]) = modules[c.id].name
    => NeedsGoInCircles

\* The id a guest got for a load names the module of that load until it unloads
\* it, whatever is loaded and unloaded meanwhile (MODULE_COUNTER).
HandleNamesItsModule ==
  \A h \in handles : h.open => h.id \in DOMAIN modules /\ modules[h.id].base = h.base

\* The message that ends the process for a call of a missing import names that
\* import and the module it is called from, whatever was loaded, unloaded or
\* allocated before (register_got_symbol, find_module_by_address,
\* hle_unresolved_import_panic).
TrapNamesItsImport == \A r \in trapped : r.called = r.reported /\ r.in = r.from

\* The segments of listed modules are mapped, as the blocks of malloc are, through
\* loads, unloads and allocations of other threads; only the growing break takes
\* memory from them (unload_sprx_module, deallocate_guest_memory).
LiveMemoryIsMapped ==
  /\ BlocksKeepTheirMemory
  /\ \A id \in DOMAIN modules :
       LET m == modules[id] IN
       \A s \in Range(m.image.segments) :
         LET lo == m.base + (s.va - m.image.min) IN
         \/ s.size = 0
         \/ MappedFor("module", m.base, lo, lo + s.size)
         \/ \E v \in vmas : v.kind = "break" /\ Overlap(v, lo, lo + s.size)

\* Guest memory over all its owners (loader, malloc, JIT, the address map): what is
\* counted on is mapped, what is not is given back, and two names for one memory agree.
MemoryIsKept == LiveMemoryIsMapped /\ OnlyShrinkingLeaks /\ AliasesShareMemory

\* An import reaches the function of its name, and when there is none its call is
\* reported as what it is (resolve_dynamic_symbol, missing_import_stub_handler).
ImportsReachTheirTarget == ImportsAreBound /\ TrapNamesItsImport

\* A library is loaded once for all that need it, and a handle is its own module's
\* for as long as the guest keeps it (load_sprx_module, unload_sprx_module).
LibrariesLoadOnce == DependenciesLoadOnce /\ HandleNamesItsModule
===============================================================================
