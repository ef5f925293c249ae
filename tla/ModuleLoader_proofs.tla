------------------------- MODULE ModuleLoader_proofs --------------------------
(***************************************************************************)
(* Proofs about ModuleLoader, for any games, threads, sizes and bounds.    *)
(***************************************************************************)
EXTENDS ModuleLoader, TLAPS, SequenceTheorems, FiniteSetTheorems, WellFoundedInduction

-------------------------------------------------------------------------------
\* The inductive invariant.

\* A frame is of a file of the game, and past its first phase of one that can be
\* loaded, with that file's image.
FrameFields == {"path", "dependency", "phase", "image", "base", "i", "with"}

FrameOK(f) ==
  /\ DOMAIN f = FrameFields
  /\ f.path \in DOMAIN Files
  /\ f.phase # "read" => Loadable(Files[f.path]) /\ f.image = Image(Files[f.path])

IsSeq(s) == s \in Seq(Range(s))

StackInv ==
  /\ game \in DOMAIN Games
  /\ stack = [t \in Threads |-> stack[t]]
  /\ \A t \in Threads : IsSeq(stack[t])
  /\ \A t \in Threads : \A i \in 1 .. Len(stack[t]) : FrameOK(stack[t][i])

\* The name a frame's library has in what libraries need.
NameOf(f) == Normalized(f.path.name)

\* A rank of the names that every library has above those it needs.
Ranks(rank) ==
  /\ rank \in [ListedNames -> 1 .. Cardinality(ListedNames)]
  /\ \A p \in {q \in DOMAIN Files : Loadable(Files[q])} :
       \A n \in NeededBy(p) : rank[n] < rank[Normalized(p.name)]

\* Without circles the frames of a thread descend in rank.
NestInv ==
  \A rank \in [ListedNames -> 1 .. Cardinality(ListedNames)] : Ranks(rank) =>
    \A t \in Threads : \A i, j \in 1 .. Len(stack[t]) :
      i < j => rank[NameOf(stack[t][j])] < rank[NameOf(stack[t][i])]

\* Ids are given out once; the executable's is given when it is listed.
IdInv ==
  /\ moduleCount \in Nat /\ moduleCount >= 1
  /\ DOMAIN modules \subseteq 0 .. moduleCount - 1
  /\ \A x \in dependencies : DOMAIN x = {"thread", "id"} /\ x.id \in 0 .. moduleCount - 1
  /\ process \in {"off", "loading"} => 0 \notin DOMAIN modules /\ \A x \in dependencies : x.id # 0

HandleInv ==
  /\ \A h \in handles : DOMAIN h = {"id", "base", "open"} /\ h.id \in 1 .. moduleCount - 1
  /\ \A g, h \in handles : g.id = h.id => g = h
  /\ HandleNamesItsModule

\* A name the firmware has no other one for.
OwnName(name) == FirmwareName([name EXCEPT !.ext = "prx"]) = name

\* A thread is not loading what it has listed as a dependency.
LoadedInv ==
  ~NeedsGoInCircles =>
    \A x \in dependencies : x.id \in DOMAIN modules /\ OwnName(modules[x.id].name) =>
      \A i \in 1 .. Len(stack[x.thread]) :
        stack[x.thread][i].dependency => ListedAs(stack[x.thread][i].path) # modules[x.id].name

ThreadsInv == \A x \in dependencies : x.thread \in Threads

IInv == StackInv /\ NestInv /\ IdInv /\ HandleInv /\ ThreadsInv /\ LoadedInv /\ DependenciesLoadOnce

-------------------------------------------------------------------------------
\* Stacks.

\* A sequence is one of its own elements.
LEMMA OwnElements ==
  ASSUME NEW S, NEW s \in Seq(S)
  PROVE  IsSeq(s)
<1>1. Len(s) \in Nat /\ DOMAIN s = 1 .. Len(s) /\ s = [i \in 1 .. Len(s) |-> s[i]]
  BY LenProperties, SMT
<1> QED
  BY <1>1, SMT DEF IsSeq, Range

\* Lengths of sequences.
LEMMA SeqLength ==
  ASSUME NEW s, IsSeq(s)
  PROVE  /\ Len(s) \in Nat /\ DOMAIN s = 1 .. Len(s)
         /\ s # << >> <=> Len(s) >= 1
  BY LenProperties, EmptySeq DEF IsSeq

\* The last frame is replaced.
LEMMA TopReplaced ==
  ASSUME NEW s, IsSeq(s), s # << >>, NEW f, NEW u, u = [s EXCEPT ![Len(s)] = f]
  PROVE  /\ IsSeq(u) /\ Len(u) = Len(s) /\ u[Len(s)] = f
         /\ \A i \in 1 .. Len(s) - 1 : u[i] = s[i]
<1> DEFINE S == Range(s) \cup {f}
<1>1. s \in Seq(S)
  <2>1. Range(s) \subseteq S
    OBVIOUS
  <2> QED
    BY <2>1, SeqMonotonic DEF IsSeq
<1>2. Len(s) \in Nat /\ Len(s) \in 1 .. Len(s) /\ f \in S
  BY SeqLength
<1> HIDE DEF S
<1>3. u \in Seq(S) /\ Len(u) = Len(s) /\ \A j \in 1 .. Len(s) : u[j] = IF j = Len(s) THEN f ELSE s[j]
  BY <1>1, <1>2, ExceptSeq
<1>4. \A i \in 1 .. Len(s) - 1 : i \in 1 .. Len(s) /\ i # Len(s)
  BY <1>2
<1> QED
  BY <1>2, <1>3, <1>4, OwnElements

\* A frame is pushed.
Pushes(s, f, u) == u = Append(s, f)

\* A frame is pushed.
LEMMA Pushed ==
  ASSUME NEW s, IsSeq(s), NEW f, NEW u, Pushes(s, f, u)
  PROVE  /\ IsSeq(u) /\ Len(u) = Len(s) + 1 /\ u[Len(s) + 1] = f
         /\ \A i \in 1 .. Len(s) : u[i] = s[i]
<1> DEFINE S == Range(s) \cup {f}
<1>1. s \in Seq(S)
  <2>1. Range(s) \subseteq S
    OBVIOUS
  <2> QED
    BY <2>1, SeqMonotonic DEF IsSeq
<1>2. f \in S
  OBVIOUS
<1> HIDE DEF S
<1>3. u \in Seq(S) /\ Len(u) = Len(s) + 1 /\ u[Len(s) + 1] = f /\ \A i \in 1 .. Len(s) : u[i] = s[i]
  BY <1>1, <1>2, AppendProperties DEF Pushes
<1> QED
  BY <1>3, OwnElements

\* The last frame is popped.
LEMMA Popped ==
  ASSUME NEW s, IsSeq(s), s # << >>, NEW u, u = Front(s)
  PROVE  /\ IsSeq(u) /\ Len(u) = Len(s) - 1
         /\ \A i \in 1 .. Len(s) - 1 : u[i] = s[i]
<1> DEFINE n == Len(s)
<1>1. n \in Nat /\ n >= 1 /\ DOMAIN s = 1 .. n
  BY SeqLength
<1>2. \A i \in 1 .. n - 1 : s[i] \in Range(s)
  BY <1>1 DEF Range
<1>3. u = SubSeq(s, 1, n - 1)
  BY DEF Front
<1> HIDE DEF n
<1>4. /\ SubSeq(s, 1, n - 1) \in Seq(Range(s))
      /\ Len(SubSeq(s, 1, n - 1)) = IF 1 <= n - 1 THEN n - 1 - 1 + 1 ELSE 0
      /\ \A i \in 1 .. n - 1 - 1 + 1 : SubSeq(s, 1, n - 1)[i] = s[1 + i - 1]
  BY <1>1, <1>2, SubSeqProperties
<1>5. Len(u) = n - 1 /\ \A i \in 1 .. n - 1 : u[i] = s[i]
  BY <1>1, <1>3, <1>4
<1> QED
  BY <1>3, <1>4, <1>5, OwnElements DEF n

\* Whatever is said of the game's files stays true.
LEMMA SameFiles ==
  ASSUME game' = game
  PROVE  /\ Files' = Files /\ ListedNames' = ListedNames
         /\ NeedsGoInCircles' = NeedsGoInCircles
         /\ \A n : Found(n)' = Found(n)
         /\ \A p : NeededBy(p)' = NeededBy(p)
         /\ \A n : OwnName(n)' = OwnName(n)
         /\ \A f : FrameOK(f)' = FrameOK(f)
         /\ \A r : Ranks(r)' = Ranks(r)
<1>1. Files' = Files
  BY DEF Files
<1>2. ListedNames' = ListedNames
  BY <1>1 DEF ListedNames
<1>3. \A n : Found(n)' = Found(n)
  BY <1>1 DEF Found, FirstOf, Firmware
<1>4. \A p : NeededBy(p)' = NeededBy(p)
  BY <1>1, <1>3 DEF NeededBy
<1>5. \A f : FrameOK(f)' = FrameOK(f)
  BY <1>1 DEF FrameOK
<1>6. \A r : Ranks(r)' = Ranks(r)
  BY <1>1, <1>2, <1>4 DEF Ranks
<1>7. NeedsGoInCircles' = NeedsGoInCircles
  BY <1>1, <1>2, <1>4 DEF NeedsGoInCircles
<1> QED
  BY <1>1, <1>2, <1>3, <1>4, <1>5, <1>6, <1>7 DEF OwnName

\* Frames are kept as they are or end: none is begun.
Keeps ==
  \A t \in Threads :
    /\ Len(stack'[t]) <= Len(stack[t])
    /\ \A i \in 1 .. Len(stack'[t]) :
         /\ stack'[t][i].path = stack[t][i].path
         /\ stack'[t][i].dependency = stack[t][i].dependency

\* One thread's frames change.
LEMMA OneStack ==
  ASSUME StackInv, game' = game, NEW t \in Threads, NEW u, IsSeq(u),
         stack' = [stack EXCEPT ![t] = u], \A i \in 1 .. Len(u) : FrameOK(u[i])
  PROVE  /\ StackInv' /\ stack'[t] = u
         /\ \A v \in Threads \ {t} : stack'[v] = stack[v]
<1>1. stack'[t] = u /\ \A v \in Threads \ {t} : stack'[v] = stack[v]
  BY DEF StackInv
<1>2. stack' = [v \in Threads |-> stack'[v]]
  BY DEF StackInv
<1>3. \A v \in Threads : IsSeq(stack'[v])
  BY <1>1 DEF StackInv
<1>4. \A f : FrameOK(f)' = FrameOK(f)
  BY SameFiles
<1>5. \A v \in Threads : \A i \in 1 .. Len(stack'[v]) : FrameOK(stack'[v][i])
  BY <1>1 DEF StackInv
<1>6. \A v \in Threads : \A i \in 1 .. Len(stack'[v]) : FrameOK(stack[v][i])'
  BY <1>4, <1>5
<1> QED
  BY <1>1, <1>2, <1>3, <1>6 DEF StackInv, IsSeq

\* No frame changes.
LEMMA SameStack ==
  ASSUME StackInv, game' = game, stack' = stack
  PROVE  StackInv' /\ Keeps
<1>1. \A f : FrameOK(f)' = FrameOK(f)
  BY SameFiles
<1>2. \A t \in Threads : Len(stack[t]) \in Nat
  BY SeqLength DEF StackInv
<1> QED
  BY <1>1, <1>2 DEF StackInv, Keeps, IsSeq

\* The active frame goes on with its file.
LEMMA FrameContinues ==
  ASSUME StackInv, game' = game, NEW t \in Threads, stack[t] # << >>,
         NEW f, Continues(t, f), FrameOK(f),
         f.path = Top(t).path, f.dependency = Top(t).dependency
  PROVE  StackInv' /\ Keeps
<1> DEFINE s == stack[t]
           u == [s EXCEPT ![Len(s)] = f]
<1>1. IsSeq(s) /\ s # << >> /\ Top(t) = s[Len(s)]
  BY DEF StackInv, Top, Last
<1>2. stack' = [stack EXCEPT ![t] = u]
  BY DEF Continues
<1>3. Len(s) \in Nat /\ Len(s) >= 1
  BY <1>1, SeqLength
<1>s. \A i \in 1 .. Len(s) : FrameOK(s[i])
  BY DEF StackInv
<1>k. \A v \in Threads : Len(stack[v]) \in Nat
  BY SeqLength DEF StackInv
<1> HIDE DEF s
<1>4. /\ IsSeq(u) /\ Len(u) = Len(s) /\ u[Len(s)] = f
      /\ \A i \in 1 .. Len(s) - 1 : u[i] = s[i]
  BY <1>1, TopReplaced
<1> HIDE DEF u
<1>5. \A i \in 1 .. Len(u) : i = Len(s) \/ i \in 1 .. Len(s) - 1
  BY <1>3, <1>4
<1>6. \A i \in 1 .. Len(u) : FrameOK(u[i])
  BY <1>4, <1>5, <1>s, <1>3
<1>7. \A i \in 1 .. Len(u) : u[i].path = s[i].path /\ u[i].dependency = s[i].dependency
  BY <1>1, <1>4, <1>5
<1>8. StackInv' /\ stack'[t] = u /\ \A v \in Threads \ {t} : stack'[v] = stack[v]
  BY <1>2, <1>4, <1>6, OneStack
<1>9. Keeps
  BY <1>3, <1>4, <1>7, <1>8, <1>k DEF Keeps, s
<1> QED
  BY <1>8, <1>9

\* The active frame ends.
LEMMA FrameEnds ==
  ASSUME StackInv, game' = game, NEW t \in Threads, stack[t] # << >>,
         stack' = [stack EXCEPT ![t] = Front(@)]
  PROVE  /\ StackInv' /\ Keeps
         /\ Len(stack'[t]) = Len(stack[t]) - 1
         /\ \A i \in 1 .. Len(stack[t]) - 1 : stack'[t][i] = stack[t][i]
<1> DEFINE s == stack[t]
           u == Front(s)
<1>1. IsSeq(s) /\ s # << >>
  BY DEF StackInv
<1>2. stack' = [stack EXCEPT ![t] = u]
  OBVIOUS
<1>3. Len(s) \in Nat /\ Len(s) >= 1
  BY <1>1, SeqLength
<1>s. \A i \in 1 .. Len(s) : FrameOK(s[i])
  BY DEF StackInv
<1>k. \A v \in Threads : Len(stack[v]) \in Nat
  BY SeqLength DEF StackInv
<1> HIDE DEF s
<1>4. IsSeq(u) /\ Len(u) = Len(s) - 1 /\ \A i \in 1 .. Len(s) - 1 : u[i] = s[i]
  BY <1>1, Popped
<1> HIDE DEF u
<1>5. \A i \in 1 .. Len(u) : i \in 1 .. Len(s) - 1 /\ i \in 1 .. Len(s)
  BY <1>3, <1>4
<1>6. \A i \in 1 .. Len(u) : FrameOK(u[i])
  BY <1>4, <1>5, <1>s
<1>8. StackInv' /\ stack'[t] = u /\ \A v \in Threads \ {t} : stack'[v] = stack[v]
  BY <1>2, <1>4, <1>6, OneStack
<1>9. Keeps
  BY <1>3, <1>4, <1>5, <1>8, <1>k DEF Keeps, s
<1> QED
  BY <1>4, <1>8, <1>9 DEF s

\* A thread without frames begins one for the guest or the program.
LEMMA FrameBegins ==
  ASSUME StackInv, game' = game, NEW t \in Threads, NEW f, FrameOK(f), 
         stack' = [stack EXCEPT ![t] = <<f>>]
  PROVE  /\ StackInv' /\ Len(stack'[t]) = 1 /\ stack'[t][1] = f
         /\ \A v \in Threads \ {t} : stack'[v] = stack[v]
<1> DEFINE u == <<f>>
<1>1. IsSeq(u) /\ Len(u) = 1 /\ u[1] = f
  <2>1. u \in Seq({f})
    OBVIOUS
  <2> QED
    BY <2>1, OwnElements
<1>2. stack' = [stack EXCEPT ![t] = u]
  OBVIOUS
<1> HIDE DEF u
<1>3. \A i \in 1 .. Len(u) : FrameOK(u[i])
  <2>1. \A i \in 1 .. 1 : i = 1
    OBVIOUS
  <2> QED
    BY <1>1, <2>1
<1> QED
  BY <1>1, <1>2, <1>3, OneStack

-------------------------------------------------------------------------------
\* Steps that leave the table of modules alone.

\* The active frame is the last one.
LEMMA TopFrame ==
  ASSUME StackInv, NEW t \in Threads, stack[t] # << >>
  PROVE  FrameOK(Top(t)) /\ Len(stack[t]) \in Nat /\ Top(t) = stack[t][Len(stack[t])] /\ Len(stack[t]) \in 1 .. Len(stack[t])
<1>1. Len(stack[t]) \in Nat /\ Len(stack[t]) >= 1
  BY SeqLength DEF StackInv
<1>2. Top(t) = stack[t][Len(stack[t])]
  BY DEF Top, Last
<1> QED
  BY <1>1, <1>2 DEF StackInv

\* Ranks descend as long as frames keep their files.
LEMMA KeepsNest ==
  ASSUME StackInv, NestInv, Keeps, game' = game
  PROVE  NestInv'
<1>1. ListedNames' = ListedNames /\ \A r : Ranks(r)' = Ranks(r)
  BY SameFiles
<1>2. SUFFICES ASSUME NEW rank \in [ListedNames -> 1 .. Cardinality(ListedNames)], Ranks(rank),
                      NEW t \in Threads, NEW i \in 1 .. Len(stack'[t]), NEW j \in 1 .. Len(stack'[t]), i < j
               PROVE  rank[NameOf(stack'[t][j])] < rank[NameOf(stack'[t][i])]
  BY <1>1 DEF NestInv, NameOf
<1>3. Len(stack[t]) \in Nat /\ Len(stack'[t]) <= Len(stack[t])
  BY SeqLength DEF StackInv, Keeps
<1>4. i \in 1 .. Len(stack[t]) /\ j \in 1 .. Len(stack[t])
  BY <1>3
<1>5. NameOf(stack'[t][j]) = NameOf(stack[t][j]) /\ NameOf(stack'[t][i]) = NameOf(stack[t][i])
  BY DEF Keeps, NameOf
<1> QED
  BY <1>2, <1>4, <1>5 DEF NestInv

\* Nothing listed begins to load while frames keep their files.
LEMMA KeepsLoaded ==
  ASSUME StackInv, LoadedInv, ThreadsInv, Keeps, UNCHANGED <<game, modules, dependencies>>
  PROVE  LoadedInv'
<1>1. NeedsGoInCircles' = NeedsGoInCircles
  BY SameFiles
<1>2. SUFFICES ASSUME ~NeedsGoInCircles, NEW x \in dependencies, x.id \in DOMAIN modules,
                      OwnName(modules[x.id].name), NEW i \in 1 .. Len(stack'[x.thread]),
                      stack'[x.thread][i].dependency
               PROVE  ListedAs(stack'[x.thread][i].path) # modules[x.id].name
  BY <1>1 DEF LoadedInv, OwnName, ListedAs
<1>3. x.thread \in Threads /\ Len(stack[x.thread]) \in Nat /\ Len(stack'[x.thread]) <= Len(stack[x.thread])
  BY SeqLength DEF StackInv, Keeps, ThreadsInv
<1>4. i \in 1 .. Len(stack[x.thread])
  BY <1>3
<1>5. /\ stack'[x.thread][i].path = stack[x.thread][i].path
      /\ stack'[x.thread][i].dependency = stack[x.thread][i].dependency
  BY <1>3 DEF Keeps
<1> QED
  BY <1>2, <1>4, <1>5 DEF LoadedInv

\* The tables of modules, handles and dependencies are as they were.
LEMMA SameTables ==
  ASSUME IInv, UNCHANGED <<game, modules, moduleCount, handles, dependencies>>,
         process' \in {"off", "loading"} => process \in {"off", "loading"}
  PROVE  IdInv' /\ HandleInv' /\ ThreadsInv' /\ DependenciesLoadOnce'
<1>1. IdInv'
  BY DEF IInv, IdInv
<1>2. HandleInv'
  BY DEF IInv, HandleInv, HandleNamesItsModule
<1>3. ThreadsInv'
  BY DEF IInv, ThreadsInv
<1>4. NeedsGoInCircles' = NeedsGoInCircles
  BY SameFiles
<1>5. DependenciesLoadOnce'
  BY <1>4 DEF IInv, DependenciesLoadOnce
<1> QED
  BY <1>1, <1>2, <1>3, <1>5

\* A step that keeps frames and tables keeps the invariant.
LEMMA QuietStep ==
  ASSUME IInv, StackInv', Keeps, UNCHANGED <<game, modules, moduleCount, handles, dependencies>>,
         process' \in {"off", "loading"} => process \in {"off", "loading"}
  PROVE  IInv'
<1>1. NestInv'
  BY KeepsNest DEF IInv
<1>2. LoadedInv'
  BY KeepsLoaded DEF IInv
<1> QED
  BY <1>1, <1>2, SameTables DEF IInv

\* A frame goes to another phase.
LEMMA GoesOn ==
  ASSUME StackInv, game' = game, NEW t \in Threads, stack[t] # << >>,
         Top(t).phase # "read", NEW phase, phase # "read", NEW i, Goes(t, phase, i)
  PROVE  StackInv' /\ Keeps
<1> DEFINE f == [Top(t) EXCEPT !.phase = phase, !.i = i]
<1>1. FrameOK(Top(t))
  BY TopFrame
<1>2. FrameOK(f) /\ f.path = Top(t).path /\ f.dependency = Top(t).dependency
  BY <1>1 DEF FrameOK, FrameFields
<1>3. Continues(t, f)
  BY DEF Goes
<1> HIDE DEF f
<1> QED
  BY <1>2, <1>3, FrameContinues

\* A load fails.
LEMMA FailsStep ==
  ASSUME StackInv, game' = game, NEW t \in Threads, stack[t] # << >>, Fails(t)
  PROVE  /\ StackInv' /\ Keeps
         /\ process' \in {"off", "loading"} => process \in {"off", "loading"}
  BY FrameEnds DEF Fails

\* A file is read.
LEMMA ReadFileStep ==
  ASSUME IInv, NEW t \in Threads, ReadFile(t)
  PROVE  IInv'
<1> DEFINE file == Files[Top(t).path]
           f == [Top(t) EXCEPT !.phase = "map", !.image = Image(file)]
<1>1. StackInv /\ stack[t] # << >> /\ FrameOK(Top(t))
  BY TopFrame DEF IInv, ReadFile, Is, Active
<1>2. UNCHANGED <<game, modules, moduleCount, handles, dependencies>>
  BY DEF ReadFile, tableVars
<1>3. CASE ~Loadable(file)
  <2>1. Fails(t)
    BY <1>3 DEF ReadFile
  <2> QED
    BY <1>1, <1>2, <2>1, FailsStep, QuietStep
<1>4. CASE Loadable(file)
  <2>1. Continues(t, f) /\ process' = process
    BY <1>4 DEF ReadFile
  <2>2. FrameOK(f) /\ f.path = Top(t).path /\ f.dependency = Top(t).dependency
    BY <1>1, <1>4 DEF FrameOK, FrameFields
  <2> HIDE DEF f, file
  <2>3. StackInv' /\ Keeps
    BY <1>1, <1>2, <2>1, <2>2, FrameContinues
  <2> QED
    BY <1>2, <2>1, <2>3, QuietStep
<1> QED
  BY <1>3, <1>4

\* A file is mapped.
LEMMA MapFileStep ==
  ASSUME IInv, NEW t \in Threads, MapFile(t)
  PROVE  IInv'
<1>1. StackInv /\ stack[t] # << >> /\ FrameOK(Top(t)) /\ Top(t).phase = "map"
  BY TopFrame DEF IInv, MapFile, Is, Active
<1>2. UNCHANGED <<game, modules, moduleCount, handles, dependencies>>
  BY DEF MapFile, tableVars
<1>3. CASE Fails(t)
  BY <1>1, <1>2, <1>3, FailsStep, QuietStep
<1>4. CASE ~Fails(t)
  <2>1. PICK b : Continues(t, [Top(t) EXCEPT !.phase = "export", !.base = b]) /\ process' = process
    BY <1>4 DEF MapFile
  <2> DEFINE f == [Top(t) EXCEPT !.phase = "export", !.base = b]
  <2>2. FrameOK(f) /\ f.path = Top(t).path /\ f.dependency = Top(t).dependency
    BY <1>1 DEF FrameOK, FrameFields
  <2>3. Continues(t, f)
    BY <2>1
  <2> HIDE DEF f
  <2>4. StackInv' /\ Keeps
    BY <1>1, <1>2, <2>3, <2>2, FrameContinues
  <2> QED
    BY <1>2, <2>1, <2>4, QuietStep
<1> QED
  BY <1>3, <1>4

\* A symbol is registered.
LEMMA ExportStep ==
  ASSUME IInv, NEW t \in Threads, Export(t)
  PROVE  IInv'
<1>1. StackInv /\ stack[t] # << >> /\ Top(t).phase = "export"
  BY DEF IInv, Export, Is, Active
<1>2. UNCHANGED <<game, modules, moduleCount, handles, dependencies, process>>
  BY DEF Export, tableVars
<1>3. \/ Goes(t, "needs", 1)
      \/ Goes(t, "export", Top(t).i + 1)
  BY DEF Export
<1>4. StackInv' /\ Keeps
  BY <1>1, <1>2, <1>3, GoesOn
<1> QED
  BY <1>2, <1>4, QuietStep

\* A relocation is applied.
LEMMA RelocateStep ==
  ASSUME IInv, NEW t \in Threads, Relocate(t)
  PROVE  IInv'
<1>1. StackInv /\ stack[t] # << >> /\ Top(t).phase = "relocate" /\ process \in {"loading", "running"}
  BY DEF IInv, Relocate, Is, Active
<1>2. UNCHANGED <<game, modules, moduleCount, handles, dependencies>>
  BY DEF Relocate, tableVars
<1>3. \/ Goes(t, "list", 1)
      \/ Goes(t, "relocate", Top(t).i + 1)
  BY DEF Relocate
<1>4. StackInv' /\ Keeps
  BY <1>1, <1>2, <1>3, GoesOn
<1>5. process' \in {process, "panic"}
  BY DEF Relocate, RelocateSymbol, RelocateValue
<1> QED
  BY <1>1, <1>2, <1>4, <1>5, QuietStep

-------------------------------------------------------------------------------
\* Where a library is found, and by which name it is listed then.

\* The first path with a file is one of the paths with a file.
LEMMA FirstOfPaths ==
  ASSUME NEW paths, DOMAIN paths \subseteq Nat
  PROVE  /\ FirstOf(paths) # << >> =>
              \E i \in DOMAIN paths : FirstOf(paths) = <<paths[i]>> /\ paths[i] \in DOMAIN Files
         /\ (\E i \in DOMAIN paths : paths[i] \in DOMAIN Files) => FirstOf(paths) # << >>
<1> DEFINE there == {i \in DOMAIN paths : paths[i] \in DOMAIN Files}
<1>1. CASE there = {}
  BY <1>1 DEF FirstOf
<1>2. CASE there # {}
  <2>1. there \subseteq Nat
    OBVIOUS
  <2>2. PICK i \in there : \A j \in there : ~(<<j, i>> \in OpToRel(<, Nat))
    <3> HIDE DEF there
    <3> QED
      BY <1>2, <2>1, NatLessThanWellFounded, WFMin
  <2>3. ASSUME NEW j \in there PROVE i <= j
    <3>1. i \in Nat /\ j \in Nat
      BY <2>1
    <3>2. ~(j < i)
      BY <2>2, <3>1 DEF OpToRel
    <3> HIDE DEF there
    <3> QED
      BY <3>1, <3>2
  <2>4. Min(there) \in there
    BY <2>3 DEF Min
  <2>5. FirstOf(paths) = <<paths[Min(there)]>>
    BY <1>2 DEF FirstOf
  <2>6. <<paths[Min(there)]>> # << >>
    OBVIOUS
  <2> QED
    BY <2>4, <2>5, <2>6
<1> QED
  BY <1>1, <1>2

FileNameSet(n) == {n, [n EXCEPT !.ext = "prx"], [n EXCEPT !.ext = "sprx"]}

\* The names tried in the game's directories.
LEMMA OwnPaths ==
  ASSUME NEW n
  PROVE  LET paths == PathsIn("module", FileNames(n)) \o PathsIn("app0", FileNames(n))
         IN  /\ DOMAIN paths \subseteq Nat
             /\ \A i \in DOMAIN paths : paths[i].name \in FileNameSet(n)
<1> DEFINE S == {[dir |-> d, name |-> x] : d \in {"module", "app0"}, x \in FileNameSet(n)}
           a == PathsIn("module", FileNames(n))
           b == PathsIn("app0", FileNames(n))
<1>1. FileNames(n) \in Seq(FileNameSet(n))
  <2>1. CASE n.ext = "prx"
    BY <2>1 DEF FileNames, FileNameSet
  <2>2. CASE n.ext = "sprx"
    BY <2>2 DEF FileNames, FileNameSet
  <2>3. CASE n.ext # "prx" /\ n.ext # "sprx"
    <3>1. FileNames(n) = <<n, [n EXCEPT !.ext = "prx"], [n EXCEPT !.ext = "sprx"]>>
      BY <2>3 DEF FileNames
    <3> QED
      BY <3>1 DEF FileNameSet
  <2> QED
    BY <2>1, <2>2, <2>3
<1>2. Len(FileNames(n)) \in Nat /\ DOMAIN FileNames(n) = 1 .. Len(FileNames(n))
      /\ \A i \in 1 .. Len(FileNames(n)) : FileNames(n)[i] \in FileNameSet(n)
  BY <1>1, LenProperties, ElementOfSeq
<1>3. a \in Seq(S)
  BY <1>2 DEF PathsIn
<1>4. b \in Seq(S)
  BY <1>2 DEF PathsIn
<1>5. \A x \in S : x.name \in FileNameSet(n)
  OBVIOUS
<1> HIDE DEF S, a, b
<1>6. a \o b \in Seq(S)
  BY <1>3, <1>4, ConcatProperties
<1>7. DOMAIN (a \o b) \subseteq Nat /\ \A i \in DOMAIN (a \o b) : (a \o b)[i] \in S
  BY <1>6, LenProperties, ElementOfSeq
<1> QED
  BY <1>5, <1>7 DEF a, b

\* A library is found in the game's directories by its own name, else in the
\* firmware's by the name it has there.
LEMMA FoundName ==
  ASSUME NEW n, Found(n) # << >>
  PROVE  /\ Found(n)[1] \in DOMAIN Files
         /\ \/ Found(n)[1].name \in FileNameSet(n)
            \/ Found(n)[1].name = FirmwareName(n) /\ Firmware(n) # << >>
<1> DEFINE own == PathsIn("module", FileNames(n)) \o PathsIn("app0", FileNames(n))
           fw  == <<[dir |-> "system", name |-> FirmwareName(n)],
                    [dir |-> "system_ex", name |-> FirmwareName(n)]>>
<1>1. DOMAIN own \subseteq Nat /\ \A i \in DOMAIN own : own[i].name \in FileNameSet(n)
  BY OwnPaths
<1>2. DOMAIN fw \subseteq Nat /\ \A i \in DOMAIN fw : fw[i].name = FirmwareName(n)
  OBVIOUS
<1>3. Firmware(n) = FirstOf(fw) /\ Found(n) = IF FirstOf(own) = << >> THEN Firmware(n) ELSE FirstOf(own)
  BY DEF Firmware, Found
<1> HIDE DEF own, fw
<1>4. CASE FirstOf(own) = << >>
  BY <1>2, <1>3, <1>4, FirstOfPaths
<1>5. CASE FirstOf(own) # << >>
  BY <1>1, <1>3, <1>5, FirstOfPaths
<1> QED
  BY <1>4, <1>5

\* A firmware's library has the firmware's name.
LEMMA FirmwareHasName ==
  ASSUME NEW n, Firmware(n) # << >>
  PROVE  Firmware(n)[1].name = FirmwareName(n)
<1> DEFINE fw == <<[dir |-> "system", name |-> FirmwareName(n)],
                   [dir |-> "system_ex", name |-> FirmwareName(n)]>>
<1>1. DOMAIN fw \subseteq Nat /\ \A i \in DOMAIN fw : fw[i].name = FirmwareName(n)
  OBVIOUS
<1>2. Firmware(n) = FirstOf(fw)
  BY DEF Firmware
<1> HIDE DEF fw
<1> QED
  BY <1>1, <1>2, FirstOfPaths

\* The name is_module_loaded looks for.
SoughtAs(n) == IF Firmware(n) = << >> THEN Normalized(n) ELSE Firmware(n)[1].name

\* A library with a name of its own is looked for by the name it is listed by.
LEMMA SoughtAsListed ==
  ASSUME game \in DOMAIN Games, NEW n, Found(n) # << >>, OwnName(ListedAs(Found(n)[1]))
  PROVE  /\ SoughtAs(n) = ListedAs(Found(n)[1])
         /\ ListedAs(Found(n)[1]) = Normalized(Found(n)[1].name)
<1> DEFINE p == Found(n)[1]
           m == p.name
           N == ListedAs(p)
<1>1. p \in DOMAIN Files /\ (m \in FileNameSet(n) \/ (m = FirmwareName(n) /\ Firmware(n) # << >>))
  <2>1. /\ Found(n)[1] \in DOMAIN Files
        /\ \/ Found(n)[1].name \in FileNameSet(n)
           \/ Found(n)[1].name = FirmwareName(n) /\ Firmware(n) # << >>
    BY FoundName
  <2> QED
    BY <2>1
<1>2. m = [stem |-> m.stem, ext |-> m.ext]
  BY <1>1, LoaderAssumption DEF Files, IsName
<1>0. N = FirmwareName([N EXCEPT !.ext = "prx"])
  BY DEF OwnName
<1>00. N = m \/ N = Normalized(m)
  BY DEF ListedAs
<1>fh. Firmware(n) # << >> => Firmware(n)[1].name = FirmwareName(n)
  BY FirmwareHasName
<1> HIDE DEF m, N, p
<1>n. Normalized(m) = [stem |-> m.stem, ext |-> "sprx"]
  BY <1>2 DEF Normalized
<1>3. N = [stem |-> N.stem, ext |-> N.ext] /\ N.stem = m.stem
  BY <1>00, <1>2, <1>n
<1>4. N = [stem |-> m.stem, ext |-> "sprx"] /\ m.stem # "libc"
  <2> DEFINE M == [N EXCEPT !.ext = "prx"]
  <2>1. M = [stem |-> N.stem, ext |-> "prx"]
    BY <1>3
  <2>2. Normalized(M) = [stem |-> N.stem, ext |-> "sprx"]
    <3> HIDE DEF M
    <3> QED
      BY <2>1 DEF Normalized
  <2>3. N = FirmwareName(M)
    BY <1>0
  <2> HIDE DEF M
  <2>5. M.stem = N.stem /\ M.ext = "prx"
    BY <2>1
  <2>4. N = IF N.stem = "libc" THEN [stem |-> "libSceLibcInternal", ext |-> "sprx"]
            ELSE [stem |-> N.stem, ext |-> "sprx"]
    BY <2>2, <2>3, <2>5 DEF FirmwareName
  <2>6. N.stem # "libc"
    BY <2>4
  <2> QED
    BY <1>3, <2>4, <2>6
<1>5. N = Normalized(m)
  BY <1>4, <1>n
<1>6. CASE m = FirmwareName(n) /\ Firmware(n) # << >>
  <2>1. m.ext = "sprx"
    <3>1. FirmwareName(n) = [stem |-> "libSceLibcInternal", ext |-> "sprx"] \/ FirmwareName(n) = Normalized(n)
      BY DEF FirmwareName
    <3>2. m = Normalized(n) => m.ext = "sprx"
      BY <1>2 DEF Normalized
    <3> QED
      BY <1>6, <3>1, <3>2
  <2>2. Normalized(m) = m
    BY <1>2, <1>n, <2>1
  <2> QED
    BY <1>5, <1>6, <2>2, <1>fh DEF SoughtAs, N, m, p
<1>7. CASE m \in FileNameSet(n)
  <2>1. Normalized(n) = N /\ n.stem # "libc"
    BY <1>2, <1>4, <1>7 DEF FileNameSet, Normalized
  <2>2. FirmwareName(n) = N
    BY <2>1 DEF FirmwareName
  <2> QED
    BY <1>5, <2>1, <2>2, <1>fh DEF SoughtAs, N, m, p
<1> QED
  BY <1>1, <1>6, <1>7

-------------------------------------------------------------------------------
\* A library that is needed.

\* A library ranks below the one that needs it.
LEMMA RankOfNeed ==
  ASSUME NEW rank, Ranks(rank), NEW f, FrameOK(f), f.phase # "read",
         NEW i \in DOMAIN f.image.needed, Found(f.image.needed[i]) # << >>, NEW g,
         g.path = Found(f.image.needed[i])[1]
  PROVE  rank[NameOf(g)] < rank[NameOf(f)]
<1>1. f.path \in DOMAIN Files /\ Loadable(Files[f.path]) /\ f.image = Image(Files[f.path])
  BY DEF FrameOK
<1>2. f.image.needed[i] \in Range(Image(Files[f.path]).needed)
  BY <1>1 DEF Range
<1>3. NameOf(g) \in NeededBy(f.path)
  BY <1>2 DEF NeededBy, NameOf
<1> QED
  BY <1>1, <1>3 DEF Ranks, NameOf

\* Ranks are numbers.
LEMMA RanksAreNumbers ==
  ASSUME game \in DOMAIN Games, NEW rank \in [ListedNames -> 1 .. Cardinality(ListedNames)],
         NEW f, FrameOK(f)
  PROVE  rank[NameOf(f)] \in Int
<1>1. NameOf(f) \in ListedNames
  BY DEF NameOf, ListedNames, FrameOK
<1>2. IsFiniteSet(DOMAIN Files)
  BY LoaderAssumption DEF Files
<1>3. IsFiniteSet(ListedNames)
  <2> DEFINE h == [p \in DOMAIN Files |-> Normalized(p.name)]
  <2>1. h \in Surjection(DOMAIN Files, ListedNames)
    BY DEF Surjection, ListedNames
  <2> HIDE DEF h
  <2> QED
    BY <1>2, <2>1, FS_Surjection
<1>4. Cardinality(ListedNames) \in Nat
  BY <1>3, FS_CardinalityType
<1> QED
  BY <1>1, <1>4

\* A library that is not listed begins to load.
LEMMA NeedPushes ==
  ASSUME IInv, NEW t \in Threads, Need(t), NEW i, NEW n,
         i \in DOMAIN Img(t).needed, n = Img(t).needed[i],
         ~IsModuleLoaded(n), Found(n) # << >>,
         stack' = [stack EXCEPT ![t] = Append([@ EXCEPT ![Len(@)] = [Top(t) EXCEPT !.i = i + 1]],
                                              Frame(Found(n)[1], TRUE))],
         process' = process
  PROVE  IInv'
<1>f. PICK f : f = [Top(t) EXCEPT !.i = i + 1]
  OBVIOUS
<1>g. PICK g : g = Frame(Found(n)[1], TRUE)
  OBVIOUS
<1> DEFINE s == stack[t]
           v == [s EXCEPT ![Len(s)] = f]
           u == Append(v, g)
<1>1. /\ StackInv /\ s # << >> /\ IsSeq(s) /\ Len(s) \in Nat /\ Len(s) \in 1 .. Len(s)
      /\ FrameOK(Top(t)) /\ Top(t) = s[Len(s)] /\ Top(t).phase = "needs" /\ game \in DOMAIN Games
  BY TopFrame DEF IInv, StackInv, Need, Is, Active
<1>2. UNCHANGED <<game, modules, moduleCount, handles, dependencies>>
  BY DEF Need, tableVars
<1>3. FrameOK(f) /\ f.path = Top(t).path /\ f.dependency = Top(t).dependency
  BY <1>1, <1>f DEF FrameOK, FrameFields
<1>4. Found(n)[1] \in DOMAIN Files
  BY FoundName
<1>5. FrameOK(g) /\ g.path = Found(n)[1] /\ g.dependency = TRUE
  BY <1>4, <1>g DEF FrameOK, FrameFields, Frame
<1>6. stack' = [stack EXCEPT ![t] = u]
  BY <1>f, <1>g
<1>s. \A j \in 1 .. Len(s) : FrameOK(s[j])
  BY <1>1 DEF StackInv
<1> HIDE DEF s
<1>7. /\ IsSeq(v) /\ Len(v) = Len(s) /\ v[Len(s)] = f
      /\ \A j \in 1 .. Len(s) - 1 : v[j] = s[j]
  <2>1. IsSeq(s) /\ s # << >>
    BY <1>1
  <2> QED
    BY <2>1, TopReplaced
<1> HIDE DEF v
<1>8. /\ IsSeq(u) /\ Len(u) = Len(s) + 1 /\ u[Len(s) + 1] = g
      /\ \A j \in 1 .. Len(s) : u[j] = v[j]
  <2>1. IsSeq(v)
    BY <1>7
  <2>2. IsSeq(u) /\ Len(u) = Len(v) + 1 /\ u[Len(v) + 1] = g /\ \A j \in 1 .. Len(v) : u[j] = v[j]
    <3>1. Pushes(v, g, u)
      BY DEF Pushes
    <3> HIDE DEF u
    <3> QED
      BY <2>1, <3>1, Pushed
  <2> QED
    BY <1>7, <2>2
<1> HIDE DEF u
<1>9. \A j \in 1 .. Len(u) : j \in 1 .. Len(s) \/ j = Len(s) + 1
  BY <1>1, <1>8
<1>10. \A j \in 1 .. Len(s) : j \in 1 .. Len(s) - 1 \/ j = Len(s)
  BY <1>1
<1>11. \A j \in 1 .. Len(s) :
          /\ FrameOK(u[j]) /\ u[j].path = s[j].path /\ u[j].dependency = s[j].dependency
  BY <1>1, <1>3, <1>7, <1>8, <1>10, <1>s
<1>12. \A j \in 1 .. Len(u) : FrameOK(u[j])
  BY <1>5, <1>8, <1>9, <1>11
<1>13. /\ StackInv' /\ stack'[t] = u
       /\ \A w \in Threads \ {t} : stack'[w] = stack[w]
  BY <1>1, <1>2, <1>6, <1>8, <1>12, OneStack
<1>14. NestInv'
  <2>1. ListedNames' = ListedNames /\ \A r : Ranks(r)' = Ranks(r)
    BY <1>2, SameFiles
  <2>2. SUFFICES ASSUME NEW rank \in [ListedNames -> 1 .. Cardinality(ListedNames)], Ranks(rank),
                        NEW w \in Threads, NEW j \in 1 .. Len(stack'[w]), NEW k \in 1 .. Len(stack'[w]), j < k
                 PROVE  rank[NameOf(stack'[w][k])] < rank[NameOf(stack'[w][j])]
    BY <2>1 DEF NestInv, NameOf
  <2>3. CASE w # t
    BY <1>13, <2>2, <2>3 DEF IInv, NestInv
  <2>4. CASE w = t /\ k \in 1 .. Len(s)
    <3>1. j \in 1 .. Len(s)
      BY <1>1, <2>2, <2>4
    <3>2. NameOf(u[j]) = NameOf(s[j]) /\ NameOf(u[k]) = NameOf(s[k])
      BY <1>11, <2>4, <3>1 DEF NameOf
    <3>3. rank[NameOf(s[k])] < rank[NameOf(s[j])]
      BY <2>2, <2>4, <3>1 DEF IInv, NestInv, s
    <3> QED
      BY <1>13, <2>4, <3>2, <3>3
  <2>5. CASE w = t /\ k = Len(s) + 1
    <3>1. j \in 1 .. Len(s)
      BY <1>1, <2>2, <2>5
    <3>2. rank[NameOf(g)] < rank[NameOf(Top(t))]
      BY <1>1, <1>5, <2>2, RankOfNeed DEF Img
    <3>3. NameOf(u[j]) = NameOf(s[j]) /\ u[k] = g
      BY <1>8, <1>11, <2>5, <3>1 DEF NameOf
    <3>4. j = Len(s) \/ rank[NameOf(Top(t))] < rank[NameOf(s[j])]
      <4>1. j = Len(s) \/ j < Len(s)
        BY <1>1, <3>1
      <4> QED
        BY <1>1, <2>2, <3>1, <4>1 DEF IInv, NestInv, s
    <3>5. /\ rank[NameOf(g)] \in Int /\ rank[NameOf(Top(t))] \in Int
          /\ rank[NameOf(s[j])] \in Int
      BY <1>1, <1>5, <1>s, <3>1, RanksAreNumbers
    <3>6. rank[NameOf(g)] < rank[NameOf(s[j])]
      BY <1>1, <3>2, <3>4, <3>5
    <3> QED
      BY <1>13, <2>5, <3>3, <3>6
  <2> QED
    BY <1>9, <1>13, <2>3, <2>4, <2>5
<1>15. LoadedInv'
  <2>1. NeedsGoInCircles' = NeedsGoInCircles
    BY <1>2, SameFiles
  <2>2. SUFFICES ASSUME ~NeedsGoInCircles, NEW x \in dependencies, x.id \in DOMAIN modules,
                        OwnName(modules[x.id].name), NEW j \in 1 .. Len(stack'[x.thread]),
                        stack'[x.thread][j].dependency
                 PROVE  ListedAs(stack'[x.thread][j].path) # modules[x.id].name
    BY <1>2, <2>1 DEF LoadedInv, OwnName, ListedAs
  <2>3. x.thread \in Threads
    BY DEF IInv, ThreadsInv
  <2>4. CASE x.thread # t
    BY <1>13, <2>2, <2>3, <2>4 DEF IInv, LoadedInv
  <2>5. CASE x.thread = t /\ j \in 1 .. Len(s)
    <3>1. stack'[t][j].path = s[j].path /\ s[j].dependency
      BY <1>11, <1>13, <2>2, <2>5
    <3> QED
      BY <2>2, <2>5, <3>1 DEF IInv, LoadedInv, s
  <2>6. CASE x.thread = t /\ j = Len(s) + 1
    <3>1. stack'[t][j].path = Found(n)[1]
      BY <1>5, <1>8, <1>13, <2>6
    <3>2. SUFFICES ASSUME ListedAs(Found(n)[1]) = modules[x.id].name
                   PROVE  FALSE
      BY <2>6, <3>1
    <3>3. SoughtAs(n) = modules[x.id].name
      BY <1>1, <2>2, <3>2, SoughtAsListed
    <3> QED
      BY <2>2, <3>3 DEF IsModuleLoaded, SoughtAs
  <2> QED
    BY <1>9, <1>13, <2>3, <2>4, <2>5, <2>6
<1> QED
  BY <1>2, <1>13, <1>14, <1>15, SameTables DEF IInv

\* The next needed library is looked for.
LEMMA NeedStep ==
  ASSUME IInv, NEW t \in Threads, Need(t)
  PROVE  IInv'
<1> DEFINE i == Top(t).i
           needed == Img(t).needed
<1>1. StackInv /\ stack[t] # << >> /\ FrameOK(Top(t)) /\ Top(t).phase = "needs"
  BY TopFrame DEF IInv, Need, Is, Active
<1>2. UNCHANGED <<game, modules, moduleCount, handles, dependencies>>
  BY DEF Need, tableVars
<1>3. CASE i \notin DOMAIN needed
  <2>1. PICK w : Continues(t, [Top(t) EXCEPT !.phase = "relocate", !.i = 1, !.with = w]) /\ process' = process
    BY <1>3 DEF Need
  <2> DEFINE f == [Top(t) EXCEPT !.phase = "relocate", !.i = 1, !.with = w]
  <2>2. FrameOK(f) /\ f.path = Top(t).path /\ f.dependency = Top(t).dependency
    BY <1>1 DEF FrameOK, FrameFields
  <2>3. Continues(t, f)
    BY <2>1
  <2> HIDE DEF f
  <2>4. StackInv' /\ Keeps
    BY <1>1, <1>2, <2>3, <2>2, FrameContinues
  <2> QED
    BY <1>2, <2>1, <2>4, QuietStep
<1>4. CASE i \in DOMAIN needed /\ Goes(t, "needs", i + 1) /\ process' = process
  <2>1. StackInv' /\ Keeps
    BY <1>1, <1>2, <1>4, GoesOn
  <2> QED
    BY <1>2, <1>4, <2>1, QuietStep
<1>5. CASE i \in DOMAIN needed /\ stack' = stack /\ process' = "overflow"
  <2>1. StackInv' /\ Keeps
    BY <1>1, <1>2, <1>5, SameStack
  <2> QED
    BY <1>2, <1>5, <2>1, QuietStep
<1>6. CASE /\ i \in DOMAIN needed /\ ~IsModuleLoaded(needed[i]) /\ Found(needed[i]) # << >>
           /\ stack' = [stack EXCEPT ![t] = Append([@ EXCEPT ![Len(@)] = [Top(t) EXCEPT !.i = i + 1]],
                                              Frame(Found(needed[i])[1], TRUE))]
           /\ process' = process
  <2>1. PICK n : n = needed[i]
    OBVIOUS
  <2> QED
    BY <1>6, <2>1, NeedPushes
<1>7. \/ i \notin DOMAIN needed
      \/ i \in DOMAIN needed /\ Goes(t, "needs", i + 1) /\ process' = process
      \/ i \in DOMAIN needed /\ stack' = stack /\ process' = "overflow"
      \/ /\ i \in DOMAIN needed /\ ~IsModuleLoaded(needed[i]) /\ Found(needed[i]) # << >>
         /\ stack' = [stack EXCEPT ![t] = Append([@ EXCEPT ![Len(@)] = [Top(t) EXCEPT !.i = i + 1]],
                                              Frame(Found(needed[i])[1], TRUE))]
         /\ process' = process
  BY DEF Need
<1> QED
  BY <1>3, <1>4, <1>5, <1>6, <1>7

-------------------------------------------------------------------------------
\* A module is listed.

\* The id it gets is new.
LEMMA NewId ==
  ASSUME IInv, NEW t \in Threads, NEW id, process \in {"loading", "running"},
         id = IF Top(t).path = Executable /\ process = "loading" THEN 0 ELSE moduleCount
  PROVE  /\ id \in Nat /\ id \notin DOMAIN modules
         /\ \A x \in dependencies : x.id # id
         /\ \A h \in handles : h.id # id
<1>1. IdInv /\ HandleInv
  BY DEF IInv
<1>2. CASE id = 0 /\ process = "loading"
  <2>1. 0 \notin DOMAIN modules /\ \A x \in dependencies : x.id # 0
    BY <1>1, <1>2 DEF IdInv
  <2>2. \A h \in handles : h.id \in 1 .. moduleCount - 1
    BY <1>1 DEF HandleInv
  <2>3. \A k \in 1 .. moduleCount - 1 : k # 0
    BY <1>1 DEF IdInv
  <2> QED
    BY <1>2, <2>1, <2>2, <2>3
<1>3. CASE id = moduleCount
  <2>1. moduleCount \in Nat /\ \A k \in 0 .. moduleCount - 1 : k # moduleCount
    BY <1>1 DEF IdInv
  <2>2. \A k \in 1 .. moduleCount - 1 : k # moduleCount
    BY <2>1
  <2> QED
    BY <1>1, <1>3, <2>1, <2>2 DEF IdInv, HandleInv
<1> QED
  BY <1>2, <1>3

\* Two libraries with one name of its own have the same name in what others need.
LEMMA OwnListed ==
  ASSUME game \in DOMAIN Games, NEW p \in DOMAIN Files, OwnName(ListedAs(p))
  PROVE  ListedAs(p) = Normalized(p.name)
<1> DEFINE m == p.name
           N == ListedAs(p)
           M == [N EXCEPT !.ext = "prx"]
<1>1. m = [stem |-> m.stem, ext |-> m.ext]
  BY LoaderAssumption DEF Files, IsName
<1>2. N = FirmwareName(M)
  BY DEF OwnName
<1>3. N = m \/ N = Normalized(m)
  BY DEF ListedAs
<1> HIDE DEF m, N
<1>4. Normalized(m) = [stem |-> m.stem, ext |-> "sprx"]
  BY <1>1 DEF Normalized
<1>5. N = [stem |-> N.stem, ext |-> N.ext] /\ N.stem = m.stem
  BY <1>1, <1>3, <1>4
<1>6. M = [stem |-> m.stem, ext |-> "prx"]
  BY <1>5
<1> HIDE DEF M
<1>7. Normalized(M) = [stem |-> m.stem, ext |-> "sprx"] /\ M.ext = "prx" /\ M.stem = m.stem
  BY <1>6 DEF Normalized
<1>8. N = [stem |-> "libSceLibcInternal", ext |-> "sprx"] \/ N = [stem |-> m.stem, ext |-> "sprx"]
  BY <1>2, <1>7 DEF FirmwareName
<1>9. N.ext = "sprx"
  BY <1>8
<1> QED
  BY <1>4, <1>5, <1>9 DEF N, m

\* The frames below the last one are of libraries with other names.
LEMMA FramesDiffer ==
  ASSUME IInv, ~NeedsGoInCircles, NEW t \in Threads, stack[t] # << >>,
         NEW i \in 1 .. Len(stack[t]) - 1, OwnName(ListedAs(Top(t).path))
  PROVE  ListedAs(stack[t][i].path) # ListedAs(Top(t).path)
<1>1. /\ StackInv /\ FrameOK(Top(t)) /\ Top(t) = stack[t][Len(stack[t])] /\ Len(stack[t]) \in Nat
      /\ Len(stack[t]) \in 1 .. Len(stack[t]) /\ game \in DOMAIN Games
  BY TopFrame DEF IInv, StackInv
<1>2. i \in 1 .. Len(stack[t]) /\ i < Len(stack[t])
  BY <1>1
<1>3. FrameOK(stack[t][i])
  BY <1>1, <1>2 DEF StackInv
<1>4. PICK rank \in [ListedNames -> 1 .. Cardinality(ListedNames)] : Ranks(rank)
  BY DEF NeedsGoInCircles, Ranks
<1>5. rank[NameOf(Top(t))] < rank[NameOf(stack[t][i])]
  BY <1>1, <1>2, <1>4 DEF IInv, NestInv
<1>6. SUFFICES ASSUME ListedAs(stack[t][i].path) = ListedAs(Top(t).path)
               PROVE  FALSE
  OBVIOUS
<1>7. NameOf(stack[t][i]) = NameOf(Top(t))
  BY <1>1, <1>3, <1>6, OwnListed DEF FrameOK, NameOf
<1>8. rank[NameOf(Top(t))] \in Int
  BY <1>1, RanksAreNumbers
<1> QED
  BY <1>5, <1>7, <1>8

\* A module is listed: it is the first of its name this thread has listed.
LEMMA ListStep ==
  ASSUME IInv, NEW t \in Threads, List(t)
  PROVE  IInv'
<1> DEFINE s == stack[t]
           exe == Top(t).path = Executable /\ process = "loading"
<1>i. PICK id : id = IF exe THEN 0 ELSE moduleCount
  OBVIOUS
<1>m. PICK m : m = Module(t)
  OBVIOUS
<1>1. /\ StackInv /\ s # << >> /\ FrameOK(Top(t)) /\ Top(t) = s[Len(s)] /\ Len(s) \in Nat
      /\ Len(s) \in 1 .. Len(s) /\ game \in DOMAIN Games /\ process \in {"loading", "running"}
  BY TopFrame DEF IInv, StackInv, List, Is, Active
<1>2. /\ modules' = Put(modules, id, m)
      /\ moduleCount' = IF exe THEN moduleCount ELSE moduleCount + 1
      /\ process' = IF exe THEN "running" ELSE process
      /\ handles' = IF exe \/ Top(t).dependency THEN handles
                    ELSE handles \cup {[id |-> id, base |-> Top(t).base, open |-> TRUE]}
      /\ dependencies' = IF Top(t).dependency
                           THEN dependencies \cup {[thread |-> t, id |-> id]} ELSE dependencies
      /\ stack' = [stack EXCEPT ![t] = Front(@)] /\ game' = game
  BY <1>i, <1>m DEF List, Listed
<1>3. m.name = ListedAs(Top(t).path) /\ m.base = Top(t).base
  BY <1>m DEF Module
<1>4. /\ id \in Nat /\ id \notin DOMAIN modules
      /\ \A x \in dependencies : x.id # id
      /\ \A h \in handles : h.id # id
  BY <1>1, <1>i, NewId
<1>5. /\ DOMAIN modules' = DOMAIN modules \cup {id} /\ modules'[id] = m
      /\ \A k \in DOMAIN modules : modules'[k] = modules[k]
  BY <1>2, <1>4 DEF Put
<1>6. /\ StackInv' /\ Keeps
      /\ Len(stack'[t]) = Len(s) - 1
      /\ \A i \in 1 .. Len(s) - 1 : stack'[t][i] = s[i]
  BY <1>1, <1>2, FrameEnds
<1>7. NestInv'
  BY <1>1, <1>2, <1>6, KeepsNest DEF IInv
<1>8. IdInv'
  <2>1. /\ moduleCount \in Nat /\ moduleCount >= 1 /\ DOMAIN modules \subseteq 0 .. moduleCount - 1
        /\ \A x \in dependencies : DOMAIN x = {"thread", "id"} /\ x.id \in 0 .. moduleCount - 1
    BY DEF IInv, IdInv
  <2>2. /\ moduleCount' \in Nat /\ moduleCount' >= 1 /\ id \in 0 .. moduleCount' - 1
        /\ \A k \in 0 .. moduleCount - 1 : k \in 0 .. moduleCount' - 1
    <3> HIDE DEF exe
    <3> QED
      BY <1>2, <1>i, <2>1
  <2>3. DOMAIN modules' \subseteq 0 .. moduleCount' - 1
    BY <1>5, <2>1, <2>2
  <2>4. \A x \in dependencies' : DOMAIN x = {"thread", "id"} /\ x.id \in 0 .. moduleCount' - 1
    <3>1. \A x \in dependencies' : x \in dependencies \/ x = [thread |-> t, id |-> id]
      BY <1>2
    <3> QED
      BY <2>1, <2>2, <3>1
  <2>5. ASSUME process' \in {"off", "loading"}
        PROVE  0 \notin DOMAIN modules' /\ \A x \in dependencies' : x.id # 0
    <3>1. ~exe /\ process = "loading"
      BY <1>1, <1>2, <2>5
    <3>2. id # 0
      BY <1>i, <2>1, <3>1
    <3>3. 0 \notin DOMAIN modules /\ \A x \in dependencies : x.id # 0
      BY <3>1 DEF IInv, IdInv
    <3>4. \A x \in dependencies' : x \in dependencies \/ x = [thread |-> t, id |-> id]
      BY <1>2
    <3> QED
      BY <1>5, <3>2, <3>3, <3>4
  <2> QED
    BY <2>2, <2>3, <2>4, <2>5 DEF IdInv
<1>9. HandleInv'
  <2>1. \A h \in handles' : h \in handles \/ (~exe /\ h = [id |-> id, base |-> m.base, open |-> TRUE])
    BY <1>2, <1>3
  <2>2. /\ \A h \in handles : DOMAIN h = {"id", "base", "open"} /\ h.id \in 1 .. moduleCount - 1
        /\ \A g, h \in handles : g.id = h.id => g = h
        /\ \A h \in handles : h.open => h.id \in DOMAIN modules /\ modules[h.id].base = h.base
        /\ moduleCount \in Nat /\ moduleCount >= 1
    BY DEF IInv, HandleInv, HandleNamesItsModule, IdInv
  <2>3. /\ ~exe => id \in 1 .. moduleCount' - 1
        /\ \A k \in 1 .. moduleCount - 1 : k \in 1 .. moduleCount' - 1
    <3> HIDE DEF exe
    <3> QED
      BY <1>2, <1>i, <2>2
  <2> HIDE DEF exe
  <2>4. \A h \in handles' : DOMAIN h = {"id", "base", "open"} /\ h.id \in 1 .. moduleCount' - 1
    BY <2>1, <2>2, <2>3
  <2>5. \A g, h \in handles' : g.id = h.id => g = h
    <3>1. PICK r : r = [id |-> id, base |-> m.base, open |-> TRUE]
      OBVIOUS
    <3>2. r.id = id /\ \A h \in handles' : h \in handles \/ h = r
      BY <2>1, <3>1
    <3>3. \A g, h \in handles : g.id = h.id => g = h
      BY <2>2
    <3> QED
      BY <1>4, <3>2, <3>3
  <2>6. \A h \in handles' : h.open => h.id \in DOMAIN modules' /\ modules'[h.id].base = h.base
    BY <1>5, <2>1, <2>2
  <2> QED
    BY <2>4, <2>5, <2>6 DEF HandleInv, HandleNamesItsModule
<1>10. ThreadsInv'
  <2>1. \A x \in dependencies' : x \in dependencies \/ x = [thread |-> t, id |-> id]
    BY <1>2
  <2> QED
    BY <2>1 DEF IInv, ThreadsInv
<1>d. \A x \in dependencies' : x \in dependencies \/ (x.thread = t /\ x.id = id /\ Top(t).dependency)
  BY <1>2
<1>o. \A x \in dependencies : x.id \in DOMAIN modules' =>
         x.id \in DOMAIN modules /\ modules'[x.id] = modules[x.id]
  BY <1>4, <1>5
<1>c. NeedsGoInCircles' = NeedsGoInCircles
  BY <1>2, SameFiles
<1>11. LoadedInv'
  <2>1. SUFFICES ASSUME ~NeedsGoInCircles, NEW x \in dependencies', x.id \in DOMAIN modules',
                        OwnName(modules'[x.id].name), NEW i \in 1 .. Len(stack'[x.thread]),
                        stack'[x.thread][i].dependency
                 PROVE  ListedAs(stack'[x.thread][i].path) # modules'[x.id].name
    BY <1>c DEF LoadedInv, OwnName, ListedAs
  <2>2. CASE x \in dependencies
    <3>1. x.thread \in Threads /\ Len(stack[x.thread]) \in Nat /\ Len(stack'[x.thread]) <= Len(stack[x.thread])
      BY <1>1, <1>6, <2>2, SeqLength DEF IInv, ThreadsInv, StackInv, Keeps
    <3>2. i \in 1 .. Len(stack[x.thread])
      BY <3>1
    <3>3. /\ stack'[x.thread][i].path = stack[x.thread][i].path
          /\ stack'[x.thread][i].dependency = stack[x.thread][i].dependency
      BY <1>6, <3>1 DEF Keeps
    <3> QED
      BY <1>o, <2>1, <2>2, <3>2, <3>3 DEF IInv, LoadedInv
  <2>3. CASE x.thread = t /\ x.id = id
    <3>1. i \in 1 .. Len(s) - 1 /\ stack'[t][i] = s[i]
      BY <1>6, <2>3
    <3>2. modules'[x.id].name = ListedAs(Top(t).path)
      BY <1>3, <1>5, <2>3
    <3>3. OwnName(ListedAs(Top(t).path))
      BY <2>1, <3>2
    <3>4. ListedAs(s[i].path) # ListedAs(Top(t).path)
      BY <1>1, <2>1, <3>1, <3>3, FramesDiffer
    <3> QED
      BY <2>3, <3>1, <3>2, <3>4
  <2> QED
    BY <1>d, <2>2, <2>3
<1>12. DependenciesLoadOnce'
  <2>1. SUFFICES ASSUME ~NeedsGoInCircles, NEW c \in dependencies', NEW d \in dependencies',
                        c.id \in DOMAIN modules', d.id \in DOMAIN modules',
                        c.id # d.id, c.thread = d.thread, modules'[c.id].name = modules'[d.id].name,
                        OwnName(modules'[c.id].name)
                 PROVE  FALSE
    BY <1>c DEF DependenciesLoadOnce, OwnName
  <2>2. \A x \in dependencies :
           x.thread = t /\ x.id \in DOMAIN modules' /\ OwnName(modules'[x.id].name) /\ Top(t).dependency
           => modules'[x.id].name # ListedAs(Top(t).path)
    <3>1. SUFFICES ASSUME NEW x \in dependencies, x.thread = t, x.id \in DOMAIN modules',
                          OwnName(modules'[x.id].name), Top(t).dependency
                   PROVE  modules'[x.id].name # ListedAs(Top(t).path)
      OBVIOUS
    <3>2. x.id \in DOMAIN modules /\ modules'[x.id] = modules[x.id]
      BY <1>o, <3>1
    <3> QED
      BY <1>1, <2>1, <3>1, <3>2 DEF IInv, LoadedInv
  <2>3. modules'[id].name = ListedAs(Top(t).path)
    BY <1>3, <1>5
  <2>4. CASE c \in dependencies /\ d \in dependencies
    BY <1>o, <2>1, <2>4 DEF IInv, DependenciesLoadOnce, OwnName
  <2>5. CASE c \in dependencies /\ d \notin dependencies
    BY <1>d, <2>1, <2>2, <2>3, <2>5
  <2>6. CASE c \notin dependencies /\ d \in dependencies
    BY <1>d, <2>1, <2>2, <2>3, <2>6
  <2>7. CASE c \notin dependencies /\ d \notin dependencies
    BY <1>d, <2>1, <2>7
  <2> QED
    BY <2>4, <2>5, <2>6, <2>7
<1> QED
  BY <1>6, <1>7, <1>8, <1>9, <1>10, <1>11, <1>12 DEF IInv

-------------------------------------------------------------------------------
\* The program's start and the guest's calls.

\* A frame of no dependency, alone on its thread's stack, disturbs nothing.
LEMMA BeginStep ==
  ASSUME IInv, NEW t \in Threads, NEW path \in DOMAIN Files,
         stack' = [stack EXCEPT ![t] = <<Frame(path, FALSE)>>],
         UNCHANGED <<game, modules, moduleCount, handles, dependencies>>,
         process' \in {"off", "loading"} => process \in {"off", "loading"}
  PROVE  IInv'
<1>f. PICK f : f = Frame(path, FALSE)
  OBVIOUS
<1>1. FrameOK(f) /\ f.dependency = FALSE
  BY <1>f DEF FrameOK, FrameFields, Frame
<1>2. stack' = [stack EXCEPT ![t] = <<f>>] /\ StackInv
  BY <1>f DEF IInv
<1>3. /\ StackInv' /\ Len(stack'[t]) = 1 /\ stack'[t][1] = f
      /\ \A v \in Threads \ {t} : stack'[v] = stack[v]
  BY <1>1, <1>2, FrameBegins
<1>j. \A j \in 1 .. Len(stack'[t]) : j = 1
  <2>1. PICK n : n = Len(stack'[t])
    OBVIOUS
  <2>2. n = 1
    BY <1>3, <2>1
  <2>3. \A j \in 1 .. n : j = 1
    BY <2>2
  <2> QED
    BY <2>1, <2>3
<1>4. NestInv'
  <2>1. ListedNames' = ListedNames /\ \A r : Ranks(r)' = Ranks(r)
    BY SameFiles
  <2>2. SUFFICES ASSUME NEW rank \in [ListedNames -> 1 .. Cardinality(ListedNames)], Ranks(rank),
                        NEW w \in Threads, NEW j \in 1 .. Len(stack'[w]), NEW k \in 1 .. Len(stack'[w]), j < k
                 PROVE  rank[NameOf(stack'[w][k])] < rank[NameOf(stack'[w][j])]
    BY <2>1 DEF NestInv, NameOf
  <2>3. w # t
    <3>1. SUFFICES ASSUME w = t PROVE FALSE
      OBVIOUS
    <3>2. j = 1 /\ k = 1
      BY <1>j, <3>1
    <3> QED
      BY <2>2, <3>2
  <2> QED
    BY <1>3, <2>2, <2>3 DEF IInv, NestInv
<1>5. LoadedInv'
  <2>1. NeedsGoInCircles' = NeedsGoInCircles
    BY SameFiles
  <2>2. SUFFICES ASSUME ~NeedsGoInCircles, NEW x \in dependencies, x.id \in DOMAIN modules,
                        OwnName(modules[x.id].name), NEW j \in 1 .. Len(stack'[x.thread]),
                        stack'[x.thread][j].dependency
                 PROVE  ListedAs(stack'[x.thread][j].path) # modules[x.id].name
    BY <2>1 DEF LoadedInv, OwnName, ListedAs
  <2>3. x.thread \in Threads
    BY DEF IInv, ThreadsInv
  <2>4. x.thread # t
    <3>1. x.thread = t => j = 1
      BY <1>j
    <3> QED
      BY <1>1, <1>3, <2>2, <3>1
  <2> QED
    BY <1>3, <2>2, <2>3, <2>4 DEF IInv, LoadedInv
<1> QED
  BY <1>3, <1>4, <1>5, SameTables DEF IInv

\* The executable begins to load.
LEMMA StartStep ==
  ASSUME IInv, Start
  PROVE  IInv'
<1>1. Main \in Threads /\ Executable \in DOMAIN Files
  BY LoaderAssumption DEF IInv, StackInv, Files
<1> QED
  BY <1>1, BeginStep DEF Start, tableVars

\* The guest loads a module.
LEMMA LoadStartModuleStep ==
  ASSUME IInv, NEW t \in Threads, LoadStartModule(t)
  PROVE  IInv'
<1>1. PICK path \in DOMAIN Files : stack' = [stack EXCEPT ![t] = <<Frame(path, FALSE)>>]
  BY DEF LoadStartModule
<1> QED
  BY <1>1, BeginStep DEF LoadStartModule, tableVars

\* A guest's handle is closed, and its module leaves the table.
LEMMA StopUnloadModuleStep ==
  ASSUME IInv, NEW t \in Threads, StopUnloadModule(t)
  PROVE  IInv'
<1>1. PICK h \in handles :
        /\ handles' = (handles \ {h}) \cup {[h EXCEPT !.open = FALSE]}
        /\ modules' = modules \/ modules' = Restrict(modules, DOMAIN modules \ {h.id})
  BY DEF StopUnloadModule
<1>2. /\ DOMAIN modules' \subseteq DOMAIN modules
      /\ \A k \in DOMAIN modules' : modules'[k] = modules[k]
      /\ \A k \in DOMAIN modules : k # h.id => k \in DOMAIN modules'
  BY <1>1 DEF Restrict
<1>3. UNCHANGED <<game, process, stack, moduleCount, dependencies>>
  BY DEF StopUnloadModule
<1>4. StackInv' /\ Keeps
  BY <1>3, SameStack DEF IInv
<1>5. NestInv'
  BY <1>3, <1>4, KeepsNest DEF IInv
<1>6. IdInv'
  BY <1>2, <1>3 DEF IInv, IdInv
<1>7. HandleInv'
  <2>1. PICK k : k = [h EXCEPT !.open = FALSE]
    OBVIOUS
  <2>2. /\ \A g \in handles : DOMAIN g = {"id", "base", "open"} /\ g.id \in 1 .. moduleCount - 1
        /\ \A f, g \in handles : f.id = g.id => f = g
        /\ \A g \in handles : g.open => g.id \in DOMAIN modules /\ modules[g.id].base = g.base
    BY DEF IInv, HandleInv, HandleNamesItsModule
  <2>3. DOMAIN k = {"id", "base", "open"} /\ k.id = h.id /\ k.open = FALSE
    BY <2>1, <2>2
  <2>4. \A g \in handles' : (g \in handles /\ g # h) \/ g = k
    BY <1>1, <2>1
  <2>5. \A g \in handles' : DOMAIN g = {"id", "base", "open"} /\ g.id \in 1 .. moduleCount' - 1
    BY <1>3, <2>2, <2>3, <2>4
  <2>6. \A f, g \in handles' : f.id = g.id => f = g
    BY <2>2, <2>3, <2>4
  <2>7. \A g \in handles' : g.open => g.id \in DOMAIN modules' /\ modules'[g.id].base = g.base
    BY <1>2, <2>2, <2>3, <2>4
  <2> QED
    BY <2>5, <2>6, <2>7 DEF HandleInv, HandleNamesItsModule
<1>8. ThreadsInv'
  BY <1>3 DEF IInv, ThreadsInv
<1>9. NeedsGoInCircles' = NeedsGoInCircles
  BY <1>3, SameFiles
<1>10. LoadedInv'
  BY <1>2, <1>3, <1>9 DEF IInv, LoadedInv, OwnName, ListedAs
<1>11. DependenciesLoadOnce'
  BY <1>2, <1>3, <1>9 DEF IInv, DependenciesLoadOnce
<1> QED
  BY <1>4, <1>5, <1>6, <1>7, <1>8, <1>10, <1>11 DEF IInv

\* Calls of the guest leave the loader alone.
LEMMA OtherSteps ==
  ASSUME IInv, NEW t \in Threads, CallImport(t) \/ GuestMemoryCall(t) \/ UNCHANGED vars
  PROVE  IInv'
<1>1. UNCHANGED <<game, stack, modules, moduleCount, handles, dependencies>>
  BY DEF CallImport, GuestMemoryCall, loaderVars, vars
<1>2. process' \in {process, "trapped"}
  BY DEF CallImport, GuestMemoryCall, loaderVars, vars
<1>3. StackInv' /\ Keeps
  BY <1>1, SameStack DEF IInv
<1> QED
  BY <1>1, <1>2, <1>3, QuietStep

\* The invariant holds at first.
LEMMA InitIInv ==
  ASSUME Init
  PROVE  IInv
<1>1. /\ game \in DOMAIN Games /\ stack = [t \in Threads |-> << >>] /\ modules = << >>
      /\ moduleCount = 1 /\ handles = {} /\ dependencies = {}
  BY DEF Init, InitLoader
<1>2. IsSeq(<< >>) /\ Len(<< >>) = 0
  BY OwnElements, EmptySeq
<1>3. \A i \in 1 .. 0 : FALSE
  OBVIOUS
<1>4. StackInv
  BY <1>1, <1>2, <1>3 DEF StackInv
<1>5. NestInv
  BY <1>1, <1>2, <1>3 DEF NestInv
<1>6. DOMAIN modules = {}
  BY <1>1
<1>7. IdInv
  BY <1>1, <1>6 DEF IdInv
<1>8. HandleInv /\ ThreadsInv /\ LoadedInv /\ DependenciesLoadOnce
  BY <1>1 DEF HandleInv, HandleNamesItsModule, ThreadsInv, LoadedInv, DependenciesLoadOnce
<1> QED
  BY <1>4, <1>5, <1>7, <1>8 DEF IInv

\* Every step keeps it.
LEMMA NextIInv ==
  ASSUME IInv, [Next]_vars
  PROVE  IInv'
<1>1. CASE Start
  BY <1>1, StartStep
<1>2. ASSUME NEW t \in Threads, LoadStep(t) PROVE IInv'
  BY <1>2, ReadFileStep, MapFileStep, ExportStep, NeedStep, RelocateStep, ListStep DEF LoadStep
<1>3. ASSUME NEW t \in Threads, LoadStartModule(t) PROVE IInv'
  BY <1>3, LoadStartModuleStep
<1>4. ASSUME NEW t \in Threads, StopUnloadModule(t) PROVE IInv'
  BY <1>4, StopUnloadModuleStep
<1>5. ASSUME NEW t \in Threads, CallImport(t) \/ GuestMemoryCall(t) PROVE IInv'
  BY <1>5, OtherSteps
<1>6. CASE UNCHANGED vars
  BY <1>6, LoaderAssumption, OtherSteps
<1> QED
  BY <1>1, <1>2, <1>3, <1>4, <1>5, <1>6 DEF Next

\* Frames are of their files and descend in rank where needs have no circles; ids are given
\* once; what a thread has listed it does not load again (load_sprx_module).
THEOREM LoaderInvariant == Spec => []IInv
<1>1. Init => IInv
  BY InitIInv
<1>2. IInv /\ [Next]_vars => IInv'
  BY NextIInv
<1> QED
  BY <1>1, <1>2, PTL DEF Spec

\* Along any needs without circles a thread lists no library twice for those that
\* need it, and a handle names the module it was given for until the guest unloads it.
THEOREM LoadedOnce == Spec => []LibrariesLoadOnce
<1>1. IInv => LibrariesLoadOnce
  BY DEF IInv, HandleInv, LibrariesLoadOnce
<1> QED
  BY <1>1, LoaderInvariant, PTL

-------------------------------------------------------------------------------
\* Memory: MemoryIsKept goes from numbers and mappings to claims, to the steps of
\* the guest and those of loads.

-------------------------------------------------------------------------------
\* Numbers.

\* A set of natural numbers has a least one.
LEMMA LeastNumber ==
  ASSUME NEW T \in SUBSET Nat, T # {}
  PROVE  \E i \in T : \A j \in T : i <= j
<1>1. PICK i \in T : \A j \in T : ~(<<j, i>> \in OpToRel(<, Nat))
  BY NatLessThanWellFounded, WFMin
<1>2. \A j \in T : ~(j < i)
  BY <1>1 DEF OpToRel
<1> QED
  BY <1>2

\* A set of numbers with a bound has a greatest one.
LEMMA GreatestNumber ==
  ASSUME NEW S \in SUBSET Int, S # {}, NEW n \in Int, \A x \in S : x <= n
  PROVE  Max(S) \in S /\ \A x \in S : x <= Max(S)
<1> DEFINE T == {n - x : x \in S}
<1>1. T \in SUBSET Nat /\ T # {}
  <2>1. \A x \in S : n - x \in Nat
    OBVIOUS
  <2> QED
    BY <2>1
<1>2. PICK i \in T : \A j \in T : i <= j
  <2> HIDE DEF T
  <2> QED
    BY <1>1, LeastNumber
<1>3. PICK m \in S : i = n - m
  OBVIOUS
<1>4. \A x \in S : x <= m
  <2> SUFFICES ASSUME NEW x \in S PROVE x <= m
    OBVIOUS
  <2>1. n - x \in T
    OBVIOUS
  <2>2. n - m <= n - x
    BY <1>2, <1>3, <2>1
  <2> QED
    BY <2>2
<1>5. \E a \in S : \A b \in S : a >= b
  BY <1>4
<1>6. Max(S) \in S /\ \A b \in S : Max(S) >= b
  BY <1>5, Zenon DEF Max
<1> QED
  BY <1>6

\* A set of natural numbers has a least one, which is what Min chooses.
LEMMA LeastIsMin ==
  ASSUME NEW S \in SUBSET Nat, S # {}
  PROVE  Min(S) \in S /\ \A x \in S : Min(S) <= x
<1>1. PICK i \in S : \A j \in S : i <= j
  BY LeastNumber
<1>2. \E a \in S : \A b \in S : a <= b
  BY <1>1
<1> QED
  BY <1>2, Zenon DEF Min

\* What holds for 0 and is handed on holds for every natural number.
LEMMA NumbersFromZero ==
  ASSUME NEW T \in SUBSET Nat, 0 \in T, \A n \in T : n + 1 \in T
  PROVE  T = Nat
<1> DEFINE U == Nat \ T
<1>1. SUFFICES ASSUME U # {} PROVE FALSE
  OBVIOUS
<1>2. PICK i \in U : \A j \in U : i <= j
  <2> HIDE DEF U
  <2>1. U \in SUBSET Nat
    BY DEF U
  <2> QED
    BY <1>1, <2>1, LeastNumber
<1>3. i # 0 /\ i - 1 \in Nat /\ i - 1 < i
  OBVIOUS
<1>4. i - 1 \in T
  BY <1>2, <1>3
<1> QED
  BY <1>3, <1>4

\* Rounding goes up to a multiple, by less than a unit.
LEMMA Rounded ==
  ASSUME NEW n \in Int, NEW unit \in Nat \ {0}
  PROVE  /\ RoundUp(n, unit) \in Int /\ n <= RoundUp(n, unit) /\ RoundUp(n, unit) < n + unit
         /\ \E k \in Int : RoundUp(n, unit) = k * unit
<1> DEFINE a == n + unit - 1
           q == a \div unit
<1>1. a \in Int /\ q \in Int /\ q * unit <= a /\ a < q * unit + unit
  <2>1. a = unit * (a \div unit) + (a % unit) /\ a % unit \in 0 .. unit - 1
    OBVIOUS
  <2>2. q \in Int /\ q * unit = unit * q
    OBVIOUS
  <2> QED
    BY <2>1, <2>2
<1> QED
  BY <1>1 DEF RoundUp

\* Multiples of a unit.
Aligned(n, unit) == \E k \in Int : n = k * unit

\* What has no remainder is a multiple.
LEMMA NoRemainder ==
  ASSUME NEW n \in Int, NEW unit \in Nat \ {0}
  PROVE  n % unit = 0 <=> Aligned(n, unit)
<1>1. n % unit = 0 => Aligned(n, unit)
  <2>1. n = unit * (n \div unit) + (n % unit) /\ n \div unit \in Int
    OBVIOUS
  <2>2. unit * (n \div unit) = (n \div unit) * unit
    OBVIOUS
  <2> QED
    BY <2>1, <2>2 DEF Aligned
<1>2. ASSUME NEW k \in Int, n = k * unit PROVE n % unit = 0
  BY <1>2
<1> QED
  BY <1>1, <1>2 DEF Aligned

\* Sums and multiples of multiples are multiples.
LEMMA AlignedSums ==
  ASSUME NEW unit \in Nat \ {0}, NEW a \in Int, NEW b \in Int, Aligned(a, unit), Aligned(b, unit)
  PROVE  Aligned(a + b, unit) /\ Aligned(a - b, unit)
<1>1. PICK k \in Int : a = k * unit
  BY DEF Aligned
<1>2. PICK j \in Int : b = j * unit
  BY DEF Aligned
<1>3. a + b = (k + j) * unit /\ a - b = (k - j) * unit /\ k + j \in Int /\ k - j \in Int
  BY <1>1, <1>2
<1> QED
  BY <1>3 DEF Aligned

\* A multiple of a multiple is one of the unit.
LEMMA AlignedWithin ==
  ASSUME NEW unit \in Nat \ {0}, NEW whole \in Nat \ {0}, Aligned(whole, unit), NEW a \in Int, Aligned(a, whole)
  PROVE  Aligned(a, unit)
<1>1. PICK k \in Int : whole = k * unit
  BY DEF Aligned
<1>2. PICK j \in Int : a = j * whole
  BY DEF Aligned
<1>3. a = (j * k) * unit /\ j * k \in Int
  BY <1>1, <1>2
<1> QED
  BY <1>3 DEF Aligned

\* Larger numbers are not rounded to smaller ones, multiples stay.
LEMMA RoundedOrder ==
  ASSUME NEW a \in Int, NEW b \in Int, a <= b, NEW unit \in Nat \ {0}
  PROVE  RoundUp(a, unit) <= RoundUp(b, unit)
<1>1. PICK k \in Int : RoundUp(a, unit) = k * unit
  BY Rounded
<1>2. PICK j \in Int : RoundUp(b, unit) = j * unit
  BY Rounded
<1>3. k * unit < a + unit /\ b <= j * unit
  BY <1>1, <1>2, Rounded
<1>4. k * unit < j * unit + unit
  BY <1>3
<1>5. ASSUME k > j PROVE FALSE
  <2>1. PICK d \in Nat : k = j + 1 + d
    <3>1. k - j - 1 \in Nat /\ k = j + 1 + (k - j - 1)
      BY <1>5
    <3> QED
      BY <3>1
  <2>2. d * unit \in Nat /\ k * unit = j * unit + unit + d * unit
    BY <2>1
  <2> QED
    BY <1>4, <2>2
<1>6. PICK d \in Nat : j = k + d
  <2>1. j - k \in Nat /\ j = k + (j - k)
    BY <1>5
  <2> QED
    BY <2>1
<1>7. d * unit \in Nat /\ j * unit = k * unit + d * unit
  BY <1>6
<1> QED
  BY <1>1, <1>2, <1>7

\* A multiple is its own rounding.
LEMMA RoundedStays ==
  ASSUME NEW a \in Int, NEW unit \in Nat \ {0}, Aligned(a, unit)
  PROVE  RoundUp(a, unit) = a
<1>1. PICK k \in Int : RoundUp(a, unit) = k * unit
  BY Rounded
<1>2. PICK j \in Int : a = j * unit
  BY DEF Aligned
<1>3. j * unit <= k * unit /\ k * unit < j * unit + unit
  BY <1>1, <1>2, Rounded
<1>4. ASSUME NEW d \in Nat, k = j + 1 + d PROVE FALSE
  <2>1. d * unit \in Nat /\ k * unit = j * unit + unit + d * unit
    BY <1>4
  <2> QED
    BY <1>3, <2>1
<1>5. ASSUME NEW d \in Nat, j = k + 1 + d PROVE FALSE
  <2>1. d * unit \in Nat /\ j * unit = k * unit + unit + d * unit
    BY <1>5
  <2> QED
    BY <1>3, <2>1
<1>6. k = j
  <2>1. CASE k > j
    <3>1. k - j - 1 \in Nat /\ k = j + 1 + (k - j - 1)
      BY <2>1
    <3> QED
      BY <1>4, <3>1
  <2>2. CASE k < j
    <3>1. j - k - 1 \in Nat /\ j = k + 1 + (j - k - 1)
      BY <2>2
    <3> QED
      BY <1>5, <3>1
  <2> QED
    BY <2>1, <2>2
<1> QED
  BY <1>1, <1>2, <1>6

-------------------------------------------------------------------------------
\* Mappings and what is left of them.

\* Whole pages, within what was asked for.
MappingOK(v) ==
  /\ DOMAIN v = {"lo", "hi", "kind", "base", "end"}
  /\ v.lo \in Int /\ v.hi \in Int /\ v.base \in Int /\ v.end \in Int
  /\ v.lo < v.hi /\ v.base <= v.lo /\ v.hi <= v.end
  /\ Aligned(v.lo, HostPage) /\ Aligned(v.hi, HostPage)

MapsOK(maps) == \A v \in maps : MappingOK(v)

\* A piece of a mapping.
PieceOf(v, w) ==
  v.kind = w.kind /\ v.base = w.base /\ v.end = w.end /\ w.lo <= v.lo /\ v.hi <= w.hi

Pieces(rest, maps) == \A v \in rest : \E w \in maps : PieceOf(v, w)

Outside(x, y, lo, hi) == y <= lo \/ hi <= x

\* A region begins and ends at pages.
RegionOK(lo, hi) ==
  lo \in Int /\ hi \in Int /\ lo < hi /\ Aligned(lo, HostPage) /\ Aligned(hi, HostPage)

\* What is left are pieces outside the region.
LEMMA WithoutPieces ==
  ASSUME NEW maps, MapsOK(maps), NEW lo, NEW hi, RegionOK(lo, hi), NEW v \in Without(maps, lo, hi)
  PROVE  MappingOK(v) /\ Outside(v.lo, v.hi, lo, hi) /\ \E w \in maps : PieceOf(v, w)
<1>1. CASE v \in maps /\ ~Overlap(v, lo, hi)
  BY <1>1 DEF MapsOK, MappingOK, Overlap, Outside, PieceOf, RegionOK
<1>2. ASSUME NEW w \in maps, Overlap(w, lo, hi), w.lo < lo, v = [w EXCEPT !.hi = lo]
      PROVE  MappingOK(v) /\ Outside(v.lo, v.hi, lo, hi) /\ PieceOf(v, w)
  <2>1. MappingOK(w)
    BY DEF MapsOK
  <2>2. DOMAIN v = DOMAIN w /\ v.hi = lo /\ v.lo = w.lo /\ v.kind = w.kind /\ v.base = w.base /\ v.end = w.end
    BY <1>2, <2>1 DEF MappingOK
  <2> QED
    BY <1>2, <2>1, <2>2 DEF MappingOK, Overlap, Outside, PieceOf, RegionOK
<1>3. ASSUME NEW w \in maps, Overlap(w, lo, hi), w.hi > hi, v = [w EXCEPT !.lo = hi]
      PROVE  MappingOK(v) /\ Outside(v.lo, v.hi, lo, hi) /\ PieceOf(v, w)
  <2>1. MappingOK(w)
    BY DEF MapsOK
  <2>2. DOMAIN v = DOMAIN w /\ v.hi = w.hi /\ v.lo = hi /\ v.kind = w.kind /\ v.base = w.base /\ v.end = w.end
    BY <1>3, <2>1 DEF MappingOK
  <2> QED
    BY <1>3, <2>1, <2>2 DEF MappingOK, Overlap, Outside, PieceOf, RegionOK
<1>4. \/ v \in maps /\ ~Overlap(v, lo, hi)
      \/ \E w \in maps : Overlap(w, lo, hi) /\ w.lo < lo /\ v = [w EXCEPT !.hi = lo]
      \/ \E w \in maps : Overlap(w, lo, hi) /\ w.hi > hi /\ v = [w EXCEPT !.lo = hi]
  BY Zenon DEF Without
<1> QED
  BY <1>1, <1>2, <1>3, <1>4

\* A range outside the region is as it was.
LEMMA WithoutKeeps ==
  ASSUME NEW maps, MapsOK(maps), NEW lo, NEW hi, RegionOK(lo, hi), NEW w \in maps,
         NEW x \in Int, NEW y \in Int, x < y, w.lo <= x, y <= w.hi, Outside(x, y, lo, hi)
  PROVE  \E v \in Without(maps, lo, hi) :
           v.kind = w.kind /\ v.base = w.base /\ v.lo <= x /\ y <= v.hi
<1>1. MappingOK(w)
  BY DEF MapsOK
<1>2. CASE ~Overlap(w, lo, hi)
  <2>1. w \in Without(maps, lo, hi)
    BY <1>2 DEF Without
  <2> QED
    BY <2>1
<1>3. CASE Overlap(w, lo, hi) /\ y <= lo
  <2>1. w.lo < lo
    BY <1>1, <1>3 DEF MappingOK, RegionOK
  <2>2. [w EXCEPT !.hi = lo] \in Without(maps, lo, hi)
    BY <1>3, <2>1 DEF Without
  <2>3. PICK v : v = [w EXCEPT !.hi = lo]
    OBVIOUS
  <2>4. v.kind = w.kind /\ v.base = w.base /\ v.lo = w.lo /\ v.hi = lo
    BY <1>1, <2>3 DEF MappingOK
  <2> QED
    BY <1>3, <2>2, <2>3, <2>4
<1>4. CASE Overlap(w, lo, hi) /\ hi <= x
  <2>1. w.hi > hi
    BY <1>1, <1>4 DEF MappingOK, RegionOK
  <2>2. [w EXCEPT !.lo = hi] \in Without(maps, lo, hi)
    BY <1>4, <2>1 DEF Without
  <2>3. PICK v : v = [w EXCEPT !.lo = hi]
    OBVIOUS
  <2>4. v.kind = w.kind /\ v.base = w.base /\ v.lo = hi /\ v.hi = w.hi
    BY <1>1, <2>3 DEF MappingOK
  <2> QED
    BY <1>4, <2>2, <2>3, <2>4
<1> QED
  BY <1>2, <1>3, <1>4 DEF Outside

-------------------------------------------------------------------------------
\* Memory that is held.

\* Every part of [lo, hi) is in one mapping made for it, or the break has met it.
Holds(maps, kind, lo, hi) ==
  \A x, y \in Int : lo <= x /\ x < y /\ y <= hi =>
    \/ \E v \in maps : v.kind = kind /\ v.base = lo /\ v.lo <= x /\ y <= v.hi
    \/ \E v \in maps : v.kind = "break" /\ v.lo < y /\ x < v.hi

\* A part outside the region is held as it was.
LEMMA PartHolds ==
  ASSUME NEW maps, MapsOK(maps), NEW lo, NEW hi, RegionOK(lo, hi),
         NEW kind, NEW base, NEW x \in Int, NEW y \in Int, x < y, Outside(x, y, lo, hi),
         \/ \E v \in maps : v.kind = kind /\ v.base = base /\ v.lo <= x /\ y <= v.hi
         \/ \E v \in maps : v.kind = "break" /\ v.lo < y /\ x < v.hi
  PROVE  \/ \E v \in Without(maps, lo, hi) : v.kind = kind /\ v.base = base /\ v.lo <= x /\ y <= v.hi
         \/ \E v \in Without(maps, lo, hi) : v.kind = "break" /\ v.lo < y /\ x < v.hi
<1>1. CASE \E v \in maps : v.kind = kind /\ v.base = base /\ v.lo <= x /\ y <= v.hi
  <2>1. PICK v \in maps : v.kind = kind /\ v.base = base /\ v.lo <= x /\ y <= v.hi
    BY <1>1
  <2> QED
    BY <2>1, WithoutKeeps
<1>2. CASE \E v \in maps : v.kind = "break" /\ v.lo < y /\ x < v.hi
  <2>1. PICK v \in maps : v.kind = "break" /\ v.lo < y /\ x < v.hi
    BY <1>2
  <2>2. MappingOK(v)
    BY DEF MapsOK
  <2>3. PICK a \in Int : a = IF v.lo < x THEN x ELSE v.lo
    BY <2>2 DEF MappingOK
  <2>4. PICK b \in Int : b = IF v.hi > y THEN y ELSE v.hi
    BY <2>2 DEF MappingOK
  <2>5. a < b /\ v.lo <= a /\ b <= v.hi /\ x <= a /\ b <= y
    BY <2>1, <2>2, <2>3, <2>4 DEF MappingOK
  <2>6. Outside(a, b, lo, hi)
    BY <2>5 DEF Outside, RegionOK
  <2>7. PICK w \in Without(maps, lo, hi) : w.kind = v.kind /\ w.base = v.base /\ w.lo <= a /\ b <= w.hi
    BY <2>5, <2>6, WithoutKeeps
  <2>8. MappingOK(w)
    BY WithoutPieces
  <2>9. w.lo < y /\ x < w.hi
    BY <2>5, <2>7, <2>8 DEF MappingOK
  <2> QED
    BY <2>1, <2>7, <2>9
<1> QED
  BY <1>1, <1>2

\* What is given back elsewhere leaves it held.
LEMMA WithoutHolds ==
  ASSUME NEW maps, MapsOK(maps), NEW r1, NEW r2, RegionOK(r1, r2),
         NEW kind, NEW lo \in Int, NEW hi \in Int, Outside(lo, hi, r1, r2), Holds(maps, kind, lo, hi)
  PROVE  Holds(Without(maps, r1, r2), kind, lo, hi)
<1> SUFFICES ASSUME NEW x \in Int, NEW y \in Int, lo <= x, x < y, y <= hi
             PROVE  \/ \E v \in Without(maps, r1, r2) : v.kind = kind /\ v.base = lo /\ v.lo <= x /\ y <= v.hi
                    \/ \E v \in Without(maps, r1, r2) : v.kind = "break" /\ v.lo < y /\ x < v.hi
  BY DEF Holds
<1>1. \/ \E v \in maps : v.kind = kind /\ v.base = lo /\ v.lo <= x /\ y <= v.hi
      \/ \E v \in maps : v.kind = "break" /\ v.lo < y /\ x < v.hi
  BY DEF Holds
<1>2. Outside(x, y, r1, r2)
  BY DEF Outside, RegionOK
<1> QED
  BY <1>1, <1>2, PartHolds

\* The break may be mapped over anything.
LEMMA BreakHolds ==
  ASSUME NEW maps, MapsOK(maps), NEW r1, NEW r2, RegionOK(r1, r2),
         NEW kind, NEW lo \in Int, NEW hi \in Int, Holds(maps, kind, lo, hi)
  PROVE  Holds(Without(maps, r1, r2) \cup {Mapping(r1, r2 - r1, "break")}, kind, lo, hi)
<1> DEFINE m == Mapping(r1, r2 - r1, "break")
           new == Without(maps, r1, r2) \cup {m}
<1> SUFFICES ASSUME NEW x \in Int, NEW y \in Int, lo <= x, x < y, y <= hi
             PROVE  \/ \E v \in new : v.kind = kind /\ v.base = lo /\ v.lo <= x /\ y <= v.hi
                    \/ \E v \in new : v.kind = "break" /\ v.lo < y /\ x < v.hi
  BY DEF Holds
<1>1. \/ \E v \in maps : v.kind = kind /\ v.base = lo /\ v.lo <= x /\ y <= v.hi
      \/ \E v \in maps : v.kind = "break" /\ v.lo < y /\ x < v.hi
  BY DEF Holds
<1>2. CASE Outside(x, y, r1, r2)
  <2>1. \/ \E v \in Without(maps, r1, r2) : v.kind = kind /\ v.base = lo /\ v.lo <= x /\ y <= v.hi
        \/ \E v \in Without(maps, r1, r2) : v.kind = "break" /\ v.lo < y /\ x < v.hi
    BY <1>1, <1>2, PartHolds
  <2> QED
    BY <2>1
<1>3. CASE ~Outside(x, y, r1, r2)
  <2>1. m.kind = "break" /\ m.lo = r1 /\ m.hi = r2
    BY DEF Mapping, RegionOK
  <2>2. m.lo < y /\ x < m.hi
    BY <1>3, <2>1 DEF Outside, RegionOK
  <2> QED
    BY <2>1, <2>2
<1> QED
  BY <1>2, <1>3

\* A mapping more leaves it held, and its own memory is.
LEMMA MoreHolds ==
  ASSUME NEW maps, NEW more, maps \subseteq more, NEW kind, NEW lo, NEW hi, Holds(maps, kind, lo, hi)
  PROVE  Holds(more, kind, lo, hi)
BY Zenon DEF Holds

\* A mapping holds its own region.
LEMMA MappingHolds ==
  ASSUME NEW maps, NEW kind, NEW lo \in Int, NEW size \in Int
  PROVE  Holds(maps \cup {Mapping(lo, size, kind)}, kind, lo, lo + size)
<1>1. PICK m : m = Mapping(lo, size, kind)
  OBVIOUS
<1>2. m.kind = kind /\ m.base = lo /\ m.lo = lo /\ m.hi = lo + size
  BY <1>1 DEF Mapping
<1> QED
  BY <1>1, <1>2 DEF Holds

\* A part of it that begins where it does.
LEMMA PrefixHolds ==
  ASSUME NEW maps, NEW kind, NEW lo \in Int, NEW hi \in Int, NEW less \in Int, less <= hi,
         Holds(maps, kind, lo, hi)
  PROVE  Holds(maps, kind, lo, less)
<1> SUFFICES ASSUME NEW x \in Int, NEW y \in Int, lo <= x, x < y, y <= less
             PROVE  \/ \E v \in maps : v.kind = kind /\ v.base = lo /\ v.lo <= x /\ y <= v.hi
                    \/ \E v \in maps : v.kind = "break" /\ v.lo < y /\ x < v.hi
  BY DEF Holds
<1>1. y <= hi
  OBVIOUS
<1> QED
  BY <1>1 DEF Holds

\* The host gives memory nobody holds.
LEMMA FreshIsOutside ==
  ASSUME NEW maps, MapsOK(maps), NEW kind, NEW lo \in Int, NEW hi \in Int, Holds(maps, kind, lo, hi),
         lo < hi, NEW r1 \in Int, NEW r2 \in Int, r1 < r2, \A v \in maps : ~Overlap(v, r1, r2)
  PROVE  Outside(lo, hi, r1, r2)
<1> SUFFICES ASSUME ~Outside(lo, hi, r1, r2) PROVE FALSE
  OBVIOUS
<1>1. PICK x \in Int : x = IF lo < r1 THEN r1 ELSE lo
  OBVIOUS
<1>2. lo <= x /\ x < x + 1 /\ x + 1 <= hi /\ r1 <= x /\ x < r2 /\ x + 1 \in Int
  BY <1>1 DEF Outside
<1>3. \/ \E v \in maps : v.kind = kind /\ v.base = lo /\ v.lo <= x /\ x + 1 <= v.hi
      \/ \E v \in maps : v.kind = "break" /\ v.lo < x + 1 /\ x < v.hi
  BY <1>2 DEF Holds
<1>4. PICK v \in maps : v.lo <= x /\ x < v.hi
  <2>1. \A v \in maps : v.lo \in Int /\ v.hi \in Int
    BY DEF MapsOK, MappingOK
  <2> QED
    BY <1>3, <2>1
<1>5. v.lo \in Int /\ v.hi \in Int
  BY DEF MapsOK, MappingOK
<1>6. Overlap(v, r1, r2)
  BY <1>2, <1>4, <1>5 DEF Overlap
<1> QED
  BY <1>6

-------------------------------------------------------------------------------
\* Claims: memory that somebody counts on, to the end of its last page.

ClaimOf(kind, lo, size) == [kind |-> kind, lo |-> lo, size |-> size]

EndOf(c) == c.lo + RoundUp(c.size, GuestPage)

ClaimOK(c) == c.lo \in Int /\ c.size \in Nat \ {0} /\ c = ClaimOf(c.kind, c.lo, c.size)

\* Each is held, and no two meet.
Kept(claims, maps) ==
  /\ \A c \in claims : ClaimOK(c) /\ Holds(maps, c.kind, c.lo, EndOf(c))
  /\ \A c, d \in claims : c # d => Outside(c.lo, EndOf(c), d.lo, EndOf(d))

\* Sizes in whole pages.
LEMMA Paged ==
  ASSUME NEW size \in Int
  PROVE  RoundUp(size, GuestPage) \in Int /\ size <= RoundUp(size, GuestPage)
<1>1. GuestPage \in Nat \ {0}
  BY MemoryAssumption
<1> QED
  BY <1>1, Rounded

\* A claim ends after it begins, at its object's end or later.
LEMMA ClaimEnds ==
  ASSUME NEW c, ClaimOK(c)
  PROVE  EndOf(c) \in Int /\ c.lo \in Int /\ c.lo < EndOf(c) /\ c.lo + c.size <= EndOf(c)
<1>1. RoundUp(c.size, GuestPage) \in Int /\ c.size <= RoundUp(c.size, GuestPage)
  BY Paged DEF ClaimOK
<1> QED
  BY <1>1 DEF EndOf, ClaimOK

\* Fewer claims are kept as well.
LEMMA FewerKept ==
  ASSUME NEW claims, NEW fewer, fewer \subseteq claims, NEW maps, Kept(claims, maps)
  PROVE  Kept(fewer, maps)
BY Zenon DEF Kept

\* More mappings keep claims as well.
LEMMA MoreKept ==
  ASSUME NEW claims, NEW maps, NEW more, maps \subseteq more, Kept(claims, maps)
  PROVE  Kept(claims, more)
<1>1. \A c \in claims : Holds(more, c.kind, c.lo, EndOf(c))
  BY MoreHolds, Zenon DEF Kept
<1> QED
  BY <1>1, Zenon DEF Kept

\* Memory that is free belongs to no claim.
LEMMA FreeIsUnclaimed ==
  ASSUME NEW maps, MapsOK(maps), NEW claims, Kept(claims, maps), NEW r1 \in Int, NEW r2 \in Int, r1 < r2,
         \A v \in maps : ~Overlap(v, r1, r2), NEW c \in claims
  PROVE  Outside(c.lo, EndOf(c), r1, r2)
<1>1. ClaimOK(c) /\ Holds(maps, c.kind, c.lo, EndOf(c))
  BY DEF Kept
<1> QED
  BY <1>1, ClaimEnds, FreshIsOutside

\* A new claim for memory that was free.
LEMMA NewKept ==
  ASSUME NEW maps, MapsOK(maps), NEW claims, Kept(claims, maps), NEW c, ClaimOK(c),
         \A v \in maps : ~Overlap(v, c.lo, EndOf(c))
  PROVE  /\ c \notin claims
         /\ \A d \in claims : d.lo # c.lo
         /\ Kept(claims \cup {c}, maps \cup {Mapping(c.lo, RoundUp(c.size, GuestPage), c.kind)})
<1> DEFINE more == maps \cup {Mapping(c.lo, RoundUp(c.size, GuestPage), c.kind)}
<1>1. c.lo \in Int /\ EndOf(c) \in Int /\ c.lo < EndOf(c)
  BY ClaimEnds
<1>2. \A d \in claims : Outside(d.lo, EndOf(d), c.lo, EndOf(c))
  BY <1>1, FreeIsUnclaimed
<1>3. \A d \in claims : d.lo # c.lo
  <2> SUFFICES ASSUME NEW d \in claims PROVE d.lo # c.lo
    OBVIOUS
  <2>1. d.lo \in Int /\ EndOf(d) \in Int /\ d.lo < EndOf(d)
    BY ClaimEnds DEF Kept
  <2> QED
    BY <1>1, <1>2, <2>1 DEF Outside
<1>4. Kept(claims, more)
  BY MoreKept
<1>5. Holds(more, c.kind, c.lo, EndOf(c))
  <2>1. RoundUp(c.size, GuestPage) \in Int
    BY Paged DEF ClaimOK
  <2> QED
    BY <1>1, <2>1, MappingHolds DEF EndOf
<1>6. \A d \in claims \cup {c} : ClaimOK(d) /\ Holds(more, d.kind, d.lo, EndOf(d))
  <2> HIDE DEF more
  <2> QED
    BY <1>4, <1>5, Zenon DEF Kept
<1>7. ASSUME NEW d \in claims \cup {c}, NEW e \in claims \cup {c}, d # e
      PROVE  Outside(d.lo, EndOf(d), e.lo, EndOf(e))
  <2>1. CASE d \in claims /\ e \in claims
    BY <1>7, <2>1 DEF Kept
  <2>2. CASE e = c /\ d \in claims
    BY <1>2, <2>2
  <2>3. CASE d = c /\ e \in claims
    <3>1. Outside(e.lo, EndOf(e), d.lo, EndOf(d))
      BY <1>2, <2>3
    <3> QED
      BY <3>1 DEF Outside
  <2> QED
    BY <1>7, <2>1, <2>2, <2>3
<1>8. c \notin claims
  BY <1>3
<1> QED
  BY <1>3, <1>6, <1>7, <1>8, Zenon DEF Kept

\* What lies in a claim may be given back with it.
LEMMA ReleaseKept ==
  ASSUME NEW maps, MapsOK(maps), NEW claims, NEW c, ClaimOK(c),
         \A d \in claims : Outside(c.lo, EndOf(c), d.lo, EndOf(d)),
         Kept(claims, maps), NEW r1, NEW r2, RegionOK(r1, r2), c.lo <= r1, r2 <= EndOf(c)
  PROVE  Kept(claims, Without(maps, r1, r2))
<1>1. ASSUME NEW d \in claims PROVE Holds(Without(maps, r1, r2), d.kind, d.lo, EndOf(d))
  <2>1. ClaimOK(d) /\ Holds(maps, d.kind, d.lo, EndOf(d))
    BY DEF Kept
  <2>2. d.lo \in Int /\ EndOf(d) \in Int /\ c.lo \in Int /\ EndOf(c) \in Int
    BY <2>1, ClaimEnds
  <2>3. Outside(c.lo, EndOf(c), d.lo, EndOf(d))
    OBVIOUS
  <2>4. Outside(d.lo, EndOf(d), r1, r2)
    BY <2>2, <2>3 DEF Outside, RegionOK
  <2> QED
    BY <2>1, <2>2, <2>4, WithoutHolds
<1> QED
  BY <1>1, Zenon DEF Kept

\* The break takes no claim away.
LEMMA BreakKept ==
  ASSUME NEW maps, MapsOK(maps), NEW claims, Kept(claims, maps), NEW r1, NEW r2, RegionOK(r1, r2)
  PROVE  Kept(claims, Without(maps, r1, r2) \cup {Mapping(r1, r2 - r1, "break")})
<1> DEFINE new == Without(maps, r1, r2) \cup {Mapping(r1, r2 - r1, "break")}
<1>1. ASSUME NEW d \in claims PROVE Holds(new, d.kind, d.lo, EndOf(d))
  <2>1. ClaimOK(d) /\ Holds(maps, d.kind, d.lo, EndOf(d))
    BY DEF Kept
  <2> QED
    BY <2>1, ClaimEnds, BreakHolds
<1> QED
  BY <1>1, Zenon DEF Kept

\* A claim shrinks.
LEMMA ShrunkKept ==
  ASSUME NEW maps, NEW claims, Kept(claims, maps), NEW c \in claims, NEW d, ClaimOK(d),
         d.kind = c.kind, d.lo = c.lo, d.size <= c.size
  PROVE  Kept((claims \ {c}) \cup {d}, maps)
<1>1. ClaimOK(c) /\ Holds(maps, c.kind, c.lo, EndOf(c))
  BY DEF Kept
<1>2. c.lo \in Int /\ EndOf(c) \in Int /\ EndOf(d) \in Int
  BY <1>1, ClaimEnds
<1>3. EndOf(d) <= EndOf(c)
  <2>1. RoundUp(d.size, GuestPage) <= RoundUp(c.size, GuestPage)
    BY <1>1, MemoryAssumption, RoundedOrder DEF ClaimOK
  <2>2. RoundUp(d.size, GuestPage) \in Int /\ RoundUp(c.size, GuestPage) \in Int
    BY <1>1, Paged DEF ClaimOK
  <2> QED
    BY <1>2, <2>1, <2>2 DEF EndOf
<1>4. Holds(maps, d.kind, d.lo, EndOf(d))
  BY <1>1, <1>2, <1>3, PrefixHolds
<1>5. \A e \in (claims \ {c}) \cup {d} : ClaimOK(e) /\ Holds(maps, e.kind, e.lo, EndOf(e))
  BY <1>4, Zenon DEF Kept
<1>6. \A e \in claims \ {c} : Outside(d.lo, EndOf(d), e.lo, EndOf(e)) /\ Outside(e.lo, EndOf(e), d.lo, EndOf(d))
  <2> SUFFICES ASSUME NEW e \in claims \ {c}
               PROVE  Outside(d.lo, EndOf(d), e.lo, EndOf(e)) /\ Outside(e.lo, EndOf(e), d.lo, EndOf(d))
    OBVIOUS
  <2>1. Outside(c.lo, EndOf(c), e.lo, EndOf(e))
    BY DEF Kept
  <2>2. e.lo \in Int /\ EndOf(e) \in Int
    BY ClaimEnds DEF Kept
  <2> QED
    BY <1>2, <1>3, <2>1, <2>2 DEF Outside
<1>7. ASSUME NEW x \in (claims \ {c}) \cup {d}, NEW y \in (claims \ {c}) \cup {d}, x # y
      PROVE  Outside(x.lo, EndOf(x), y.lo, EndOf(y))
  <2>1. CASE x \in claims /\ y \in claims
    BY <1>7, <2>1 DEF Kept
  <2>2. CASE x = d /\ y \in claims \ {c}
    BY <1>6, <2>2
  <2>3. CASE y = d /\ x \in claims \ {c}
    BY <1>6, <2>3
  <2> QED
    BY <1>7, <2>1, <2>2, <2>3
<1> QED
  BY <1>5, <1>7, Zenon DEF Kept

-------------------------------------------------------------------------------
\* What allocate_guest_memory answers.

\* What the assumptions say of pages and megabytes.
LEMMA Units ==
  /\ HostPage \in Nat \ {0} /\ GuestPage \in Nat \ {0} /\ Megabyte \in Nat \ {0}
  /\ GuestLow \in Int /\ GuestHigh \in Int
  /\ Aligned(GuestPage, HostPage) /\ Aligned(Megabyte, HostPage)
  /\ Aligned(GuestLow, HostPage) /\ Aligned(GuestHigh, HostPage)
<1>1. /\ HostPage \in Nat \ {0} /\ GuestPage \in Nat \ {0} /\ Megabyte \in Nat \ {0}
      /\ GuestLow \in Int /\ GuestHigh \in Int
  BY MemoryAssumption
<1>2. /\ GuestPage % HostPage = 0 /\ Megabyte % GuestPage = 0
      /\ GuestLow % Megabyte = 0 /\ GuestHigh % HostPage = 0
  BY MemoryAssumption
<1>3. Aligned(GuestPage, HostPage) /\ Aligned(GuestHigh, HostPage)
  BY <1>1, <1>2, NoRemainder
<1>4. Aligned(Megabyte, GuestPage) /\ Aligned(GuestLow, Megabyte)
  BY <1>1, <1>2, NoRemainder
<1>5. Aligned(Megabyte, HostPage)
  BY <1>1, <1>3, <1>4, AlignedWithin
<1>6. Aligned(GuestLow, HostPage)
  BY <1>1, <1>4, <1>5, AlignedWithin
<1> QED
  BY <1>1, <1>3, <1>5, <1>6

\* What is rounded to pages is a multiple of pages.
LEMMA PagesAligned ==
  ASSUME NEW size \in Int
  PROVE  /\ RoundUp(size, GuestPage) \in Int /\ Aligned(RoundUp(size, GuestPage), HostPage)
         /\ Aligned(RoundUp(size, GuestPage), GuestPage)
         /\ BumpOf(size) \in Int /\ Aligned(BumpOf(size), HostPage)
<1>1. RoundUp(size, GuestPage) \in Int /\ Aligned(RoundUp(size, GuestPage), GuestPage)
  BY Units, Rounded DEF Aligned
<1>2. BumpOf(size) \in Int /\ Aligned(BumpOf(size), Megabyte)
  BY <1>1, Units, Rounded DEF Aligned, BumpOf
<1> QED
  BY <1>1, <1>2, Units, AlignedWithin

\* The mappings end somewhere.
Bounded(maps) == \E n \in Int : \A v \in maps : v.hi <= n

AddressInv ==
  /\ MapsOK(vmas) /\ Bounded(vmas)
  /\ bump \in Int /\ Aligned(bump, HostPage) /\ brk \in Int

\* The place the host chooses is behind every mapping.
LEMMA ElsewhereIsFree ==
  ASSUME AddressInv
  PROVE  Elsewhere \in Int /\ Aligned(Elsewhere, HostPage) /\ \A v \in vmas : v.hi <= Elsewhere
<1> DEFINE S == {GuestHigh} \cup {v.hi : v \in vmas}
<1>1. PICK n \in Int : \A v \in vmas : v.hi <= n
  BY DEF AddressInv, Bounded
<1>2. S \in SUBSET Int /\ S # {} /\ \A x \in S : Aligned(x, HostPage)
  BY Units DEF AddressInv, MapsOK, MappingOK
<1>3. PICK k \in Int : k = IF GuestHigh < n THEN n ELSE GuestHigh
  BY Units
<1>4. \A x \in S : x <= k
  BY <1>1, <1>2, <1>3, Units
<1>5. Max(S) \in S /\ \A x \in S : x <= Max(S)
  <2> HIDE DEF S
  <2> QED
    BY <1>2, <1>4, GreatestNumber
<1>6. Elsewhere = Max(S)
  BY DEF Elsewhere
<1>7. \A v \in vmas : v.hi \in S
  OBVIOUS
<1> HIDE DEF S
<1> QED
  BY <1>2, <1>5, <1>6, <1>7

\* A mapping where there was none.
Fresh(base, size) ==
  /\ base \in Int /\ size \in Nat \ {0} /\ Aligned(base, HostPage)
  /\ \A v \in vmas : ~Overlap(v, base, base + RoundUp(size, GuestPage))

\* An allocation is refused, or it is a new mapping where there was none.
LEMMA AllocationsAreFresh ==
  ASSUME AddressInv, NEW size \in Nat, NEW hint \in Int, Aligned(hint, HostPage), NEW kind,
         NEW o \in Allocations(hint, size, kind)
  PROVE  /\ o.bump \in Int /\ Aligned(o.bump, HostPage)
         /\ \/ o.base = None /\ o.vmas = vmas
            \/ /\ o.base # None /\ Fresh(o.base, size)
               /\ o.vmas = vmas \cup {Mapping(o.base, RoundUp(size, GuestPage), kind)}
<1> DEFINE length  == RoundUp(size, GuestPage)
           hinted  == InGuestRange(hint)
           want    == IF hinted THEN hint ELSE bump
           next    == IF hinted THEN bump ELSE bump + BumpOf(size)
           PutAt(at) == IF FreeRange(at, at + length) THEN at ELSE Elsewhere
<1>1. length \in Int /\ size <= length /\ BumpOf(size) \in Int /\ Aligned(BumpOf(size), HostPage)
  BY PagesAligned, Paged
<1>2. bump \in Int /\ Aligned(bump, HostPage) /\ HostPage \in Nat \ {0}
  BY Units DEF AddressInv
<1>3. want \in Int /\ Aligned(want, HostPage)
  BY <1>2
<1>12. \A a \in Int : Aligned(a, HostPage) => a + BumpOf(size) \in Int /\ Aligned(a + BumpOf(size), HostPage)
  <2> SUFFICES ASSUME NEW a \in Int, Aligned(a, HostPage)
               PROVE  a + BumpOf(size) \in Int /\ Aligned(a + BumpOf(size), HostPage)
    OBVIOUS
  <2>1. PICK b \in Int : b = BumpOf(size) /\ Aligned(b, HostPage)
    BY <1>1
  <2>2. Aligned(a + b, HostPage)
    BY <1>2, <2>1, AlignedSums
  <2> QED
    BY <2>1, <2>2
<1>4. next \in Int /\ Aligned(next, HostPage)
  BY <1>2, <1>12
<1>5. next + BumpOf(size) \in Int /\ Aligned(next + BumpOf(size), HostPage)
  <2> HIDE DEF next
  <2> QED
    BY <1>4, <1>12
<1>6. ASSUME length # 0, NEW at \in Int, Aligned(at, HostPage)
      PROVE  PutAt(at) # None /\ Fresh(PutAt(at), size)
  <2>1. size \in Nat \ {0}
    <3>1. ASSUME size = 0 PROVE length = 0
      <4>1. Aligned(0, GuestPage)
        BY Units DEF Aligned
      <4> QED
        BY <3>1, <4>1, Units, RoundedStays
    <3> QED
      BY <1>6, <3>1
  <2>2. CASE FreeRange(at, at + length)
    BY <1>6, <2>1, <2>2, MemoryAssumption DEF Fresh, FreeRange
  <2>3. CASE ~FreeRange(at, at + length)
    <3>1. \A v \in vmas : ~Overlap(v, Elsewhere, Elsewhere + length)
      BY ElsewhereIsFree, <1>1 DEF Overlap, AddressInv, MapsOK, MappingOK
    <3> QED
      BY <2>1, <2>3, <3>1, ElsewhereIsFree, MemoryAssumption DEF Fresh
  <2> QED
    BY <2>2, <2>3
<1>7. CASE o.base = None /\ o.vmas = vmas /\ o.bump = next + BumpOf(size)
  BY <1>5, <1>7
<1>8. ASSUME length # 0, NEW at \in Int, Aligned(at, HostPage), NEW b \in Int, Aligned(b, HostPage),
             o.base = PutAt(at), o.vmas = vmas \cup {Mapping(PutAt(at), length, kind)}, o.bump = b
      PROVE  /\ o.bump \in Int /\ Aligned(o.bump, HostPage)
             /\ o.base # None /\ Fresh(o.base, size)
             /\ o.vmas = vmas \cup {Mapping(o.base, RoundUp(size, GuestPage), kind)}
  <2>1. PutAt(at) # None /\ Fresh(PutAt(at), size)
    BY <1>6, <1>8
  <2> HIDE DEF PutAt
  <2> QED
    BY <1>8, <2>1
<1>9. \/ o.base = None /\ o.vmas = vmas /\ o.bump = next + BumpOf(size)
      \/ length # 0 /\ o.base = PutAt(want) /\ o.vmas = vmas \cup {Mapping(PutAt(want), length, kind)} /\ o.bump = next
      \/ length # 0 /\ o.base = PutAt(next) /\ o.vmas = vmas \cup {Mapping(PutAt(next), length, kind)}
           /\ o.bump = next + BumpOf(size)
  <2>1. CASE length = 0
    BY <2>1 DEF Allocations
  <2>2. CASE length # 0
    BY <2>2 DEF Allocations
  <2> QED
    BY <2>1, <2>2
<1> HIDE DEF length, want, next, PutAt
<1>10. CASE length # 0 /\ o.base = PutAt(want) /\ o.vmas = vmas \cup {Mapping(PutAt(want), length, kind)} /\ o.bump = next
  BY <1>3, <1>4, <1>8, <1>10
<1>11. CASE length # 0 /\ o.base = PutAt(next) /\ o.vmas = vmas \cup {Mapping(PutAt(next), length, kind)}
              /\ o.bump = next + BumpOf(size)
  BY <1>4, <1>5, <1>8, <1>11
<1> QED
  BY <1>7, <1>9, <1>10, <1>11

-------------------------------------------------------------------------------
\* The claims of each owner.

\* A frame whose file is mapped.
Based(f) == f.phase \notin {"read", "map"}

\* Blocks of malloc, and those about to be recorded.
BlockClaims == {ClaimOf("malloc", a, allocs[a]) : a \in DOMAIN allocs}

RecordClaims ==
  {ClaimOf("malloc", call[t].base, call[t].size) : t \in {u \in Threads : call[u].op = "record"}}

JitClaims == {ClaimOf("jit", jit[f].host, jit[f].len) : f \in DOMAIN jit}

MmapClaims(maps) == {ClaimOf("mmap", v.base, v.end - v.base) : v \in {w \in maps : w.kind = "mmap"}}

LoadClaim(f) == ClaimOf("module", f.base, f.image.size)

LoadClaims ==
  UNION {{LoadClaim(stack[t][i]) : i \in {j \in 1 .. Len(stack[t]) : Based(stack[t][j])}} : t \in Threads}

ModuleClaims == {LoadClaim(modules[id]) : id \in DOMAIN modules}

MallocClaims == BlockClaims \cup RecordClaims

\* Those that do not come from the host's mappings.
OwnClaims == MallocClaims \cup JitClaims \cup LoadClaims \cup ModuleClaims

Claims == OwnClaims \cup MmapClaims(vmas)

-------------------------------------------------------------------------------
\* The inductive invariant of memory.

CallOK(c) ==
  /\ c.op \in {"none", "record", "shrink", "grow", "free", "binary"}
  /\ c.op = "record" =>
       /\ c.base \in Int /\ c.size \in Nat \ {0} /\ Aligned(c.base, HostPage)
       /\ c.then.op \in {"none", "free", "binary"}
       /\ c.then.op = "binary" => c.then.size \in Nat
  /\ c.op \in {"shrink", "grow"} => c.size \in Nat \ {0}
  /\ c.op = "binary" => c.size \in Nat

\* A call is about a block.
About(c, a) == Works(c, a) \/ (c.op = "record" /\ Works(c.then, a))

\* What calls are about is recorded, or will be; and no two are about one block.
CallInv ==
  /\ call = [t \in Threads |-> call[t]]
  /\ \A t \in Threads : CallOK(call[t])
  /\ \A t \in Threads : \A a :
       About(call[t], a) => a \in DOMAIN allocs \/ (call[t].op = "record" /\ a = call[t].base)
  /\ \A t \in Threads : call[t].op = "record" => call[t].base \notin DOMAIN allocs
  /\ \A t \in Threads : call[t].op = "shrink" => call[t].size <= allocs[call[t].base]
  /\ \A t, u \in Threads : \A a : About(call[t], a) /\ About(call[u], a) => t = u

BlockInv == \A a \in DOMAIN allocs : Aligned(a, HostPage)

\* Memory of malloc is in a claim unless its block was made smaller.
Accounted(maps, claims, exempt) ==
  \A v \in maps : v.kind = "malloc" /\ v.base \notin exempt =>
    \E c \in claims : c.lo = v.base /\ v.hi <= EndOf(c)

\* Files are mapped at places of their own, which begin at pages.
BaseInv ==
  /\ \A id \in DOMAIN modules : Aligned(modules[id].base, HostPage)
  /\ \A t \in Threads : \A i \in 1 .. Len(stack[t]) : Based(stack[t][i]) => Aligned(stack[t][i].base, HostPage)
  /\ \A id, jd \in DOMAIN modules : modules[id].base = modules[jd].base => id = jd
  /\ \A t, u \in Threads : \A i \in 1 .. Len(stack[t]), j \in 1 .. Len(stack[u]) :
       Based(stack[t][i]) /\ Based(stack[u][j]) /\ stack[t][i].base = stack[u][j].base => t = u /\ i = j
  /\ \A t \in Threads : \A i \in 1 .. Len(stack[t]) : \A id \in DOMAIN modules :
       Based(stack[t][i]) => stack[t][i].base # modules[id].base

ImageInv ==
  \A id \in DOMAIN modules : \E p \in DOMAIN Files :
    Loadable(Files[p]) /\ modules[id].image = Image(Files[p])

JitInv ==
  /\ nextFd \in Int /\ \A f \in DOMAIN jit : f \in Int /\ f < nextFd
  /\ \A f \in DOMAIN jit :
       /\ DOMAIN jit[f] = {"of", "host", "len", "guest"}
       /\ jit[f].of \in DOMAIN jit /\ jit[f].host = jit[jit[f].of].host
       /\ jit[f].guest # 0 => jit[f].guest = jit[f].host

EntryInv ==
  \A g \in DOMAIN mappings : g \in Int /\ mappings[g].host = g /\ mappings[g].size \in Nat \ {0}

MemInv ==
  /\ AddressInv /\ Kept(Claims, vmas) /\ CallInv /\ BlockInv
  /\ Accounted(vmas, MallocClaims, shrunk)
  /\ BaseInv /\ ImageInv /\ JitInv /\ EntryInv

-------------------------------------------------------------------------------
\* What changes of mappings keep.

\* The parts of a claim.
LEMMA ClaimFields ==
  ASSUME NEW kind, NEW lo, NEW size
  PROVE  LET c == ClaimOf(kind, lo, size) IN
         /\ c.kind = kind /\ c.lo = lo /\ c.size = size /\ EndOf(c) = lo + RoundUp(size, GuestPage)
         /\ lo \in Int /\ size \in Nat \ {0} => ClaimOK(c)
BY DEF ClaimOf, EndOf, ClaimOK

\* What is left of mappings ends as early, makes no claims and leaks no more.
LEMMA PiecesStay ==
  ASSUME NEW maps, NEW rest, MapsOK(maps), MapsOK(rest), Pieces(rest, maps)
  PROVE  /\ Bounded(maps) => Bounded(rest)
         /\ MmapClaims(rest) \subseteq MmapClaims(maps)
         /\ \A claims, exempt :
              (\A c \in claims : EndOf(c) \in Int) /\ Accounted(maps, claims, exempt) => Accounted(rest, claims, exempt)
<1>1. ASSUME Bounded(maps) PROVE Bounded(rest)
  <2>1. PICK n \in Int : \A v \in maps : v.hi <= n
    BY <1>1 DEF Bounded
  <2>2. ASSUME NEW v \in rest PROVE v.hi <= n
    <3>1. PICK w \in maps : PieceOf(v, w)
      BY DEF Pieces
    <3> QED
      BY <2>1, <3>1 DEF PieceOf, MapsOK, MappingOK
  <2> QED
    BY <2>2 DEF Bounded
<1>2. ASSUME NEW c \in MmapClaims(rest) PROVE c \in MmapClaims(maps)
  <2>1. PICK v \in rest : v.kind = "mmap" /\ c = ClaimOf("mmap", v.base, v.end - v.base)
    BY DEF MmapClaims
  <2>2. PICK w \in maps : PieceOf(v, w)
    BY DEF Pieces
  <2> QED
    BY <2>1, <2>2 DEF MmapClaims, PieceOf
<1>3. ASSUME NEW claims, NEW exempt, \A c \in claims : EndOf(c) \in Int, Accounted(maps, claims, exempt)
      PROVE  Accounted(rest, claims, exempt)
  <2> SUFFICES ASSUME NEW v \in rest, v.kind = "malloc", v.base \notin exempt
               PROVE  \E c \in claims : c.lo = v.base /\ v.hi <= EndOf(c)
    BY DEF Accounted
  <2>1. PICK w \in maps : PieceOf(v, w)
    BY DEF Pieces
  <2>2. PICK c \in claims : c.lo = w.base /\ w.hi <= EndOf(c)
    BY <1>3, <2>1 DEF Accounted, PieceOf
  <2>3. v.hi \in Int /\ w.hi \in Int /\ EndOf(c) \in Int /\ v.hi <= w.hi
    BY <1>3, <2>1 DEF MapsOK, MappingOK, PieceOf
  <2> QED
    BY <2>1, <2>2, <2>3 DEF PieceOf
<1> QED
  BY <1>1, <1>2, <1>3

\* What is given back lies in a claim that ends.
LEMMA DeallocateKeeps ==
  ASSUME NEW maps, MapsOK(maps), NEW claims, Kept(claims, maps), NEW c, ClaimOK(c),
         \A d \in claims : Outside(c.lo, EndOf(c), d.lo, EndOf(d)),
         NEW addr \in Int, NEW size \in Nat,
         addr % HostPage = 0 /\ size # 0 => c.lo <= addr /\ addr + RoundUp(size, GuestPage) <= EndOf(c),
         NEW rest, rest = Deallocate(maps, addr, size)
  PROVE  /\ MapsOK(rest) /\ Pieces(rest, maps) /\ Kept(claims, rest)
         /\ addr % HostPage = 0 /\ size # 0 =>
              \A v \in rest : Outside(v.lo, v.hi, addr, addr + RoundUp(size, GuestPage))
<1>1. CASE ~(addr % HostPage = 0 /\ size # 0)
  <2>1. rest = maps
    BY <1>1 DEF Deallocate
  <2>2. \A v \in maps : PieceOf(v, v)
    BY DEF PieceOf, MapsOK, MappingOK
  <2> QED
    BY <1>1, <2>1, <2>2 DEF Pieces
<1>2. CASE addr % HostPage = 0 /\ size # 0
  <2>1. PICK end \in Int : end = addr + RoundUp(size, GuestPage) /\ size <= RoundUp(size, GuestPage)
    BY Paged
  <2>2. RegionOK(addr, end)
    <3>1. Aligned(addr, HostPage)
      BY <1>2, Units, NoRemainder
    <3>2. PICK n \in Int : n = RoundUp(size, GuestPage) /\ Aligned(n, HostPage)
      BY PagesAligned
    <3>3. Aligned(addr + n, HostPage)
      BY <3>1, <3>2, Units, AlignedSums
    <3>4. addr < end
      BY <1>2, <2>1, <3>2
    <3> QED
      BY <2>1, <3>1, <3>2, <3>3, <3>4 DEF RegionOK
  <2>3. rest = Without(maps, addr, end)
    BY <1>2, <2>1 DEF Deallocate
  <2>4. Kept(claims, rest)
    BY <1>2, <2>1, <2>2, <2>3, ReleaseKept
  <2>5. MapsOK(rest)
    BY <2>2, <2>3, WithoutPieces DEF MapsOK
  <2>6. Pieces(rest, maps) /\ \A v \in rest : Outside(v.lo, v.hi, addr, end)
    BY <2>2, <2>3, WithoutPieces DEF Pieces
  <2> QED
    BY <2>1, <2>4, <2>5, <2>6
<1> QED
  BY <1>1, <1>2

\* One mapping more.
LEMMA OneMore ==
  ASSUME NEW maps, MapsOK(maps), Bounded(maps), NEW base \in Int, NEW length \in Nat \ {0},
         Aligned(base, HostPage), Aligned(length, HostPage), NEW kind,
         NEW more, more = maps \cup {Mapping(base, length, kind)}
  PROVE  MapsOK(more) /\ Bounded(more)
<1>1. PICK m : m = Mapping(base, length, kind)
  OBVIOUS
<1>2. base + length \in Int /\ Aligned(base + length, HostPage)
  BY Units, AlignedSums
<1>3. MappingOK(m) /\ m.hi = base + length
  BY <1>1, <1>2 DEF MappingOK, Mapping
<1>4. MapsOK(more)
  BY <1>1, <1>3 DEF MapsOK
<1>5. Bounded(more)
  <2>1. PICK n \in Int : \A v \in maps : v.hi <= n
    BY DEF Bounded
  <2>2. PICK k \in Int : k = IF n < base + length THEN base + length ELSE n
    BY <1>2
  <2>3. \A v \in more : v.hi <= k
    <3> SUFFICES ASSUME NEW v \in more PROVE v.hi <= k
      OBVIOUS
    <3>1. v.hi \in Int
      BY <1>4 DEF MapsOK, MappingOK
    <3>2. CASE v \in maps
      BY <1>2, <2>1, <2>2, <3>1, <3>2
    <3>3. CASE v = m
      BY <1>2, <1>3, <2>2, <3>3
    <3> QED
      BY <1>1, <3>2, <3>3
  <2> QED
    BY <2>3 DEF Bounded
<1> QED
  BY <1>4, <1>5

\* A new mapping of whole pages, where there was none.
LEMMA MappingAdded ==
  ASSUME AddressInv, NEW base, NEW size, Fresh(base, size), NEW kind,
         NEW more, more = vmas \cup {Mapping(base, RoundUp(size, GuestPage), kind)}
  PROVE  MapsOK(more) /\ Bounded(more)
<1>1. PICK length \in Int : length = RoundUp(size, GuestPage) /\ size <= length /\ Aligned(length, HostPage)
  BY Paged, PagesAligned DEF Fresh
<1>2. base \in Int /\ length \in Nat \ {0} /\ Aligned(base, HostPage)
  BY <1>1 DEF Fresh
<1>3. more = vmas \cup {Mapping(base, length, kind)} /\ MapsOK(vmas) /\ Bounded(vmas)
  BY <1>1 DEF AddressInv
<1> QED
  BY <1>1, <1>2, <1>3, OneMore

\* Fewer of it.
LEMMA MappingsCut ==
  ASSUME AddressInv, MapsOK(vmas'), Pieces(vmas', vmas), UNCHANGED <<bump, brk>>
  PROVE  AddressInv'
<1>1. Bounded(vmas')
  BY PiecesStay DEF AddressInv
<1> QED
  BY <1>1 DEF AddressInv

-------------------------------------------------------------------------------
\* What steps leave alone.

\* Claims and invariants of variables that do not change.
LEMMA SameClaims ==
  /\ UNCHANGED allocs => BlockClaims' = BlockClaims /\ (BlockInv => BlockInv')
  /\ UNCHANGED call => RecordClaims' = RecordClaims
  /\ UNCHANGED jit => JitClaims' = JitClaims
  /\ UNCHANGED <<jit, nextFd>> => (JitInv => JitInv')
  /\ UNCHANGED stack => LoadClaims' = LoadClaims
  /\ UNCHANGED modules => ModuleClaims' = ModuleClaims
  /\ UNCHANGED <<stack, modules>> => (BaseInv => BaseInv')
  /\ UNCHANGED <<game, modules>> => (ImageInv => ImageInv')
  /\ UNCHANGED mappings => (EntryInv => EntryInv')
  /\ UNCHANGED <<call, allocs>> => (CallInv => CallInv')
  /\ UNCHANGED <<vmas, bump, brk>> => (AddressInv => AddressInv')
<1>1. UNCHANGED allocs => BlockClaims' = BlockClaims /\ (BlockInv => BlockInv')
  BY DEF BlockClaims, BlockInv
<1>2. UNCHANGED call => RecordClaims' = RecordClaims
  BY DEF RecordClaims
<1>3. UNCHANGED jit => JitClaims' = JitClaims
  BY DEF JitClaims
<1>4. UNCHANGED <<jit, nextFd>> => (JitInv => JitInv')
  BY DEF JitInv
<1>5. UNCHANGED stack => LoadClaims' = LoadClaims
  BY DEF LoadClaims
<1>6. UNCHANGED modules => ModuleClaims' = ModuleClaims
  BY DEF ModuleClaims
<1>7. UNCHANGED <<stack, modules>> => (BaseInv => BaseInv')
  BY DEF BaseInv
<1>8. UNCHANGED <<game, modules>> => (ImageInv => ImageInv')
  BY DEF ImageInv, Files
<1>9. UNCHANGED mappings => (EntryInv => EntryInv')
  BY DEF EntryInv
<1>10. UNCHANGED <<call, allocs>> => (CallInv => CallInv')
  BY DEF CallInv
<1>11. UNCHANGED <<vmas, bump, brk>> => (AddressInv => AddressInv')
  BY DEF AddressInv
<1> QED
  BY <1>1, <1>2, <1>3, <1>4, <1>5, <1>6, <1>7, <1>8, <1>9, <1>10, <1>11

\* Whose claim it is, by its kind.
LEMMA ClaimKinds ==
  /\ \A c \in MallocClaims : c.kind = "malloc"
  /\ \A c \in JitClaims : c.kind = "jit"
  /\ \A c \in LoadClaims \cup ModuleClaims : c.kind = "module"
  /\ \A c \in MmapClaims(vmas) : c.kind = "mmap"
<1>1. \A kind, lo, size : ClaimOf(kind, lo, size).kind = kind
  BY DEF ClaimOf
<1>2. \A c \in MallocClaims : c.kind = "malloc"
  BY <1>1 DEF MallocClaims, BlockClaims, RecordClaims
<1>3. \A c \in JitClaims : c.kind = "jit"
  BY <1>1 DEF JitClaims
<1>4. \A c \in LoadClaims \cup ModuleClaims : c.kind = "module"
  BY <1>1 DEF LoadClaims, ModuleClaims, LoadClaim
<1>5. \A c \in MmapClaims(vmas) : c.kind = "mmap"
  BY <1>1 DEF MmapClaims
<1> QED
  BY <1>2, <1>3, <1>4, <1>5

\* Every claim is well formed and ends somewhere.
LEMMA ClaimsEnd ==
  ASSUME NEW claims, NEW maps, Kept(claims, maps)
  PROVE  \A c \in claims : ClaimOK(c) /\ c.lo \in Int /\ EndOf(c) \in Int /\ c.lo < EndOf(c)
BY ClaimEnds DEF Kept

\* More claims and more exemptions account for as much.
LEMMA MoreAccounted ==
  ASSUME NEW maps, NEW claims, NEW exempt, Accounted(maps, claims, exempt),
         NEW more, NEW free, claims \subseteq more, exempt \subseteq free
  PROVE  Accounted(maps, more, free)
BY DEF Accounted

-------------------------------------------------------------------------------
\* New memory and its claim.

\* New memory is kept for its owner, and no other claim begins there.
LEMMA FreshKept ==
  ASSUME MemInv, NEW base, NEW size, Fresh(base, size), NEW kind,
         NEW more, more = vmas \cup {Mapping(base, RoundUp(size, GuestPage), kind)}
  PROVE  /\ Kept(Claims \cup {ClaimOf(kind, base, size)}, more)
         /\ ClaimOf(kind, base, size) \notin Claims
         /\ \A d \in Claims : d.lo # base
<1>1. PICK c : c = ClaimOf(kind, base, size)
  OBVIOUS
<1>2. c.kind = kind /\ c.lo = base /\ c.size = size /\ EndOf(c) = base + RoundUp(size, GuestPage) /\ ClaimOK(c)
  BY <1>1, ClaimFields DEF Fresh
<1>3. \A v \in vmas : ~Overlap(v, c.lo, EndOf(c))
  BY <1>2 DEF Fresh
<1>4. MapsOK(vmas) /\ Kept(Claims, vmas)
  BY DEF MemInv, AddressInv
<1>5. /\ c \notin Claims /\ \A d \in Claims : d.lo # c.lo
      /\ Kept(Claims \cup {c}, vmas \cup {Mapping(c.lo, RoundUp(c.size, GuestPage), c.kind)})
  BY <1>2, <1>3, <1>4, NewKept
<1> QED
  BY <1>1, <1>2, <1>5

\* Its mapping counts for those who map with sys_mmap, or for malloc.
LEMMA MappingCounts ==
  ASSUME NEW maps, NEW base \in Int, NEW length \in Int, NEW kind,
         NEW more, more = maps \cup {Mapping(base, length, kind)}
  PROVE  /\ kind # "mmap" => MmapClaims(more) = MmapClaims(maps)
         /\ MmapClaims(more) \subseteq MmapClaims(maps) \cup {ClaimOf("mmap", base, length)}
<1>1. PICK m : m = Mapping(base, length, kind)
  OBVIOUS
<1>2. m.kind = kind /\ m.base = base /\ m.end - m.base = length
  BY <1>1 DEF Mapping
<1>3. more = maps \cup {m}
  BY <1>1
<1>4. kind # "mmap" => MmapClaims(more) = MmapClaims(maps)
  BY <1>2, <1>3 DEF MmapClaims
<1>5. MmapClaims(more) \subseteq MmapClaims(maps) \cup {ClaimOf("mmap", base, length)}
  BY <1>2, <1>3 DEF MmapClaims
<1> QED
  BY <1>4, <1>5

\* Memory of another kind is not malloc's to account for.
LEMMA OtherCounts ==
  ASSUME NEW maps, NEW claims, NEW exempt, Accounted(maps, claims, exempt),
         NEW base, NEW length, NEW kind, kind # "malloc",
         NEW more, more = maps \cup {Mapping(base, length, kind)}
  PROVE  Accounted(more, claims, exempt)
<1>1. PICK m : m = Mapping(base, length, kind)
  OBVIOUS
<1>2. m.kind # "malloc"
  BY <1>1 DEF Mapping
<1> QED
  BY <1>1, <1>2 DEF Accounted

\* Memory of malloc is accounted for by its claim.
LEMMA MallocCounts ==
  ASSUME NEW base, NEW size, Fresh(base, size), NEW claims, NEW exempt, Accounted(vmas, claims, exempt),
         vmas' = vmas \cup {Mapping(base, RoundUp(size, GuestPage), "malloc")}
  PROVE  Accounted(vmas', claims \cup {ClaimOf("malloc", base, size)}, exempt)
<1>1. PICK c : c = ClaimOf("malloc", base, size)
  OBVIOUS
<1>2. PICK m : m = Mapping(base, RoundUp(size, GuestPage), "malloc")
  OBVIOUS
<1>3. c.lo = base /\ EndOf(c) = base + RoundUp(size, GuestPage)
  BY <1>1, ClaimFields
<1>4. m.base = base /\ m.hi = base + RoundUp(size, GuestPage)
  BY <1>2 DEF Mapping
<1>5. PICK n \in Int : n = RoundUp(size, GuestPage)
  BY Paged DEF Fresh
<1>6. m.hi <= EndOf(c) /\ c.lo = m.base
  BY <1>3, <1>4, <1>5 DEF Fresh
<1>7. vmas' = vmas \cup {m}
  BY <1>2
<1>8. Accounted(vmas \cup {m}, claims \cup {c}, exempt)
  BY <1>6, Zenon DEF Accounted
<1> QED
  BY <1>1, <1>7, <1>8

-------------------------------------------------------------------------------
\* Calls.

\* One thread's call changes: what it is about is listed or being recorded, and is
\* nobody else's; what the others are about stays as it is.
LEMMA CallStep ==
  ASSUME CallInv, NEW t \in Threads, NEW r, call' = [call EXCEPT ![t] = r], CallOK(r),
         \A a : About(r, a) => a \in DOMAIN allocs' \/ (r.op = "record" /\ a = r.base),
         \A a : About(r, a) => \A u \in Threads \ {t} : ~About(call[u], a),
         r.op = "record" => r.base \notin DOMAIN allocs',
         r.op = "shrink" => r.size <= allocs'[r.base],
         \A u \in Threads \ {t} : \A a :
           About(call[u], a) /\ a \in DOMAIN allocs => a \in DOMAIN allocs' /\ allocs'[a] = allocs[a],
         \A u \in Threads \ {t} : call[u].op = "record" => call[u].base \notin DOMAIN allocs'
  PROVE  CallInv'
<1>1. call'[t] = r /\ \A u \in Threads \ {t} : call'[u] = call[u]
  BY DEF CallInv
<1>2. call' = [u \in Threads |-> call'[u]]
  BY DEF CallInv
<1>3. \A u \in Threads : CallOK(call'[u])
  BY <1>1 DEF CallInv
<1>4. ASSUME NEW u \in Threads, NEW a, About(call'[u], a)
      PROVE  a \in DOMAIN allocs' \/ (call'[u].op = "record" /\ a = call'[u].base)
  <2>1. CASE u = t
    BY <1>1, <1>4, <2>1
  <2>2. CASE u # t
    <3>1. a \in DOMAIN allocs \/ (call[u].op = "record" /\ a = call[u].base)
      BY <1>1, <1>4, <2>2 DEF CallInv
    <3> QED
      BY <1>1, <1>4, <2>2, <3>1
  <2> QED
    BY <2>1, <2>2
<1>5. \A u \in Threads : call'[u].op = "record" => call'[u].base \notin DOMAIN allocs'
  BY <1>1
<1>6. ASSUME NEW u \in Threads, call'[u].op = "shrink" PROVE call'[u].size <= allocs'[call'[u].base]
  <2>1. CASE u = t
    BY <1>1, <1>6, <2>1
  <2>2. CASE u # t
    <3>1. call[u].op = "shrink" /\ call'[u] = call[u]
      BY <1>1, <1>6, <2>2
    <3>2. About(call[u], call[u].base)
      BY <3>1 DEF About, Works
    <3>3. call[u].base \in DOMAIN allocs /\ call[u].size <= allocs[call[u].base]
      BY <3>1, <3>2 DEF CallInv
    <3> QED
      BY <2>2, <3>1, <3>2, <3>3
  <2> QED
    BY <2>1, <2>2
<1>7. ASSUME NEW u \in Threads, NEW v \in Threads, NEW a, About(call'[u], a), About(call'[v], a)
      PROVE  u = v
  <2>1. CASE u # t /\ v # t
    BY <1>1, <1>7, <2>1 DEF CallInv
  <2>2. CASE u = t \/ v = t
    BY <1>1, <1>7, <2>2
  <2> QED
    BY <2>1, <2>2
<1> QED
  BY <1>2, <1>3, <1>4, <1>5, <1>6, <1>7 DEF CallInv

\* A call that is about nothing.
LEMMA AboutNothing ==
  ASSUME NEW r, r.op \in {"none", "binary"}
  PROVE  \A a : ~About(r, a)
BY DEF About, Works

\* A call that ends is about nothing any more.
LEMMA CallReturns ==
  ASSUME CallInv, NEW t \in Threads, NEW r, call' = [call EXCEPT ![t] = r], CallOK(r),
         r.op \in {"none", "binary"}, UNCHANGED allocs
  PROVE  CallInv'
<1>1. \A a : ~About(r, a)
  BY AboutNothing
<1>2. r.op # "record" /\ r.op # "shrink"
  OBVIOUS
<1>3. \A u \in Threads \ {t} : call[u].op = "record" => call[u].base \notin DOMAIN allocs
  BY DEF CallInv
<1>4. allocs' = allocs
  OBVIOUS
<1> QED
  BY <1>1, <1>2, <1>3, <1>4, CallStep

\* Blocks about to be recorded.
LEMMA RecordChange ==
  ASSUME CallInv, NEW t \in Threads, NEW r, call' = [call EXCEPT ![t] = r], call[t].op # "record"
  PROVE  /\ r.op # "record" => RecordClaims' = RecordClaims
         /\ r.op = "record" => RecordClaims' = RecordClaims \cup {ClaimOf("malloc", r.base, r.size)}
<1>1. call'[t] = r /\ \A u \in Threads \ {t} : call'[u] = call[u]
  BY DEF CallInv
<1>2. CASE r.op # "record"
  <2>1. {u \in Threads : call'[u].op = "record"} = {u \in Threads : call[u].op = "record"}
    BY <1>1, <1>2
  <2>2. \A u \in {v \in Threads : call[v].op = "record"} : call'[u] = call[u]
    BY <1>1
  <2> QED
    BY <1>2, <2>1, <2>2 DEF RecordClaims
<1>3. CASE r.op = "record"
  <2>1. {u \in Threads : call'[u].op = "record"} = {u \in Threads : call[u].op = "record"} \cup {t}
    BY <1>1, <1>3
  <2>2. \A u \in {v \in Threads : call[v].op = "record"} : call'[u] = call[u]
    BY <1>1
  <2> QED
    BY <1>1, <1>3, <2>1, <2>2 DEF RecordClaims
<1> QED
  BY <1>2, <1>3

\* A call that allocates nothing goes on or ends.
LEMMA CallOnly ==
  ASSUME MemInv, NEW t \in Threads, NEW r, call' = [call EXCEPT ![t] = r], CallInv',
         call[t].op # "record", r.op # "record",
         bump' \in Int, Aligned(bump', HostPage),
         UNCHANGED <<vmas, brk, allocs, mappings, jit, nextFd, shrunk, game, stack, modules>>
  PROVE  MemInv'
<1>1. RecordClaims' = RecordClaims
  BY RecordChange DEF MemInv
<1>2. MallocClaims' = MallocClaims /\ Claims' = Claims
  BY <1>1, SameClaims DEF MallocClaims, OwnClaims, Claims, MmapClaims
<1>3. AddressInv'
  BY DEF AddressInv, MemInv
<1>4. Kept(Claims, vmas)' /\ Accounted(vmas, MallocClaims, shrunk)'
  BY <1>2 DEF MemInv, Kept, Accounted, Holds
<1> QED
  BY <1>3, <1>4, SameClaims DEF MemInv

\* What a thread goes on with after malloc is about what it is about now.
ThenOK(t, then) ==
  /\ then.op \in {"none", "free", "binary"}
  /\ then.op = "binary" => then.size \in Nat
  /\ \A a : Works(then, a) => About(call[t], a) /\ a \in DOMAIN allocs

\* Memory for a block and its record.
LEMMA BlockBegins ==
  ASSUME MemInv, NEW t \in Threads, NEW base, NEW size, Fresh(base, size), NEW then,
         ThenOK(t, then), call[t].op # "record",
         vmas' = vmas \cup {Mapping(base, RoundUp(size, GuestPage), "malloc")},
         bump' \in Int, Aligned(bump', HostPage),
         call' = [call EXCEPT ![t] = [op |-> "record", base |-> base, size |-> size, then |-> then]],
         UNCHANGED <<brk, allocs, mappings, jit, nextFd, shrunk, game, stack, modules>>
  PROVE  MemInv'
<1> DEFINE c == ClaimOf("malloc", base, size)
<1>1. PICK r : r = [op |-> "record", base |-> base, size |-> size, then |-> then]
  OBVIOUS
<1>2. r.op = "record" /\ r.base = base /\ r.size = size /\ r.then = then
  BY <1>1
<1>3. /\ Kept(Claims \cup {c}, vmas') /\ \A d \in Claims : d.lo # base
  BY FreshKept
<1>4. RecordClaims' = RecordClaims \cup {c}
  BY <1>1, <1>2, RecordChange DEF MemInv
<1>5. RoundUp(size, GuestPage) \in Int /\ base \in Int
  BY Paged DEF Fresh
<1>6. MmapClaims(vmas)' = MmapClaims(vmas)
  <2>1. MmapClaims(vmas') = MmapClaims(vmas)
    BY <1>5, MappingCounts
  <2> QED
    BY <2>1 DEF MmapClaims
<1>7. MallocClaims' = MallocClaims \cup {c} /\ Claims' = Claims \cup {c}
  BY <1>4, <1>6, SameClaims DEF MallocClaims, OwnClaims, Claims
<1>8. Kept(Claims, vmas)'
  BY <1>3, <1>7 DEF Kept, Holds
<1>9. Accounted(vmas, MallocClaims, shrunk)'
  <2>1. Accounted(vmas', MallocClaims \cup {c}, shrunk)
    BY MallocCounts DEF MemInv
  <2> QED
    BY <1>7, <2>1 DEF Accounted
<1>10. base \notin DOMAIN allocs
  <2>1. ASSUME base \in DOMAIN allocs PROVE FALSE
    <3>1. ClaimOf("malloc", base, allocs[base]) \in Claims
      BY <2>1 DEF Claims, OwnClaims, MallocClaims, BlockClaims
    <3> QED
      BY <1>3, <3>1, ClaimFields
  <2> QED
    BY <2>1
<1>11. \A u \in Threads : call[u].op = "record" => call[u].base # base
  <2> SUFFICES ASSUME NEW u \in Threads, call[u].op = "record" PROVE call[u].base # base
    OBVIOUS
  <2>1. ClaimOf("malloc", call[u].base, call[u].size) \in Claims
    BY DEF Claims, OwnClaims, MallocClaims, RecordClaims
  <2> QED
    BY <1>3, <2>1, ClaimFields
<1>12. CallInv'
  <2>1. CallOK(r)
    BY <1>2 DEF CallOK, Fresh, ThenOK
  <2>2. \A a : About(r, a) <=> a = base \/ Works(then, a)
    BY <1>2 DEF About, Works
  <2>3. \A a : About(r, a) => a \in DOMAIN allocs' \/ (r.op = "record" /\ a = r.base)
    BY <1>2, <2>2 DEF ThenOK
  <2>4. ASSUME NEW a, About(r, a), NEW u \in Threads \ {t}, About(call[u], a) PROVE FALSE
    <3>1. CASE a = base
      <4>1. base \in DOMAIN allocs \/ (call[u].op = "record" /\ base = call[u].base)
        BY <2>4, <3>1 DEF CallInv, MemInv
      <4> QED
        BY <1>10, <1>11, <4>1
    <3>2. CASE Works(then, a)
      <4>1. About(call[t], a)
        BY <3>2 DEF ThenOK
      <4> QED
        BY <2>4, <4>1 DEF CallInv, MemInv
    <3> QED
      BY <2>2, <2>4, <3>1, <3>2
  <2>5. call' = [call EXCEPT ![t] = r]
    BY <1>1
  <2>6. \A u \in Threads : call[u].op = "record" => call[u].base \notin DOMAIN allocs
    BY DEF CallInv, MemInv
  <2>7. CallInv /\ allocs' = allocs /\ r.op # "shrink"
    BY <1>2 DEF MemInv
  <2> QED
    BY <1>2, <1>10, <2>1, <2>3, <2>4, <2>5, <2>6, <2>7, CallStep
<1>13. AddressInv'
  <2>1. AddressInv /\ brk' \in Int
    BY DEF MemInv, AddressInv
  <2>2. MapsOK(vmas') /\ Bounded(vmas')
    BY <2>1, MappingAdded
  <2> QED
    BY <2>1, <2>2 DEF AddressInv
<1> QED
  BY <1>8, <1>9, <1>12, <1>13, SameClaims DEF MemInv

\* malloc: memory, or none.
LEMMA MallocForStep ==
  ASSUME MemInv, NEW t \in Threads, NEW size \in Nat, NEW then,
         ThenOK(t, then), call[t].op # "record", MallocFor(t, size, then),
         UNCHANGED <<brk, allocs, mappings, jit, nextFd, shrunk, game, stack, modules>>
  PROVE  MemInv'
<1>1. NoCall.op = "none" /\ CallOK(NoCall)
  BY DEF NoCall, CallOK
<1>2. ASSUME Return(t) PROVE CallInv'
  <2>1. call' = [call EXCEPT ![t] = NoCall] /\ allocs' = allocs /\ CallInv
    BY <1>2 DEF Return, Enter, MemInv
  <2> QED
    BY <1>1, <2>1, CallReturns
<1>3. ASSUME Return(t), vmas' = vmas, bump' \in Int, Aligned(bump', HostPage) PROVE MemInv'
  <2>1. call' = [call EXCEPT ![t] = NoCall]
    BY <1>3 DEF Return, Enter
  <2> QED
    BY <1>1, <1>2, <1>3, <2>1, CallOnly
<1>4. CASE size = 0
  <2>1. Return(t) /\ UNCHANGED <<vmas, bump>>
    BY <1>4 DEF MallocFor
  <2> QED
    BY <1>3, <2>1 DEF MemInv, AddressInv
<1>5. CASE size # 0
  <2>1. PICK o \in Allocations(0, size, "malloc") :
          /\ Take(o)
          /\ IF o.base = None THEN Return(t)
             ELSE Enter(t, [op |-> "record", base |-> o.base, size |-> size, then |-> then])
    BY <1>5 DEF MallocFor
  <2>2. Aligned(0, HostPage)
    BY Units DEF Aligned
  <2>3. /\ o.bump \in Int /\ Aligned(o.bump, HostPage)
        /\ \/ o.base = None /\ o.vmas = vmas
           \/ /\ o.base # None /\ Fresh(o.base, size)
              /\ o.vmas = vmas \cup {Mapping(o.base, RoundUp(size, GuestPage), "malloc")}
    BY <2>2, AllocationsAreFresh DEF MemInv
  <2>4. vmas' = o.vmas /\ bump' = o.bump
    BY <2>1 DEF Take
  <2>5. CASE o.base = None
    BY <1>3, <2>1, <2>3, <2>4, <2>5
  <2>6. CASE o.base # None
    <3>1. call' = [call EXCEPT ![t] = [op |-> "record", base |-> o.base, size |-> size, then |-> then]]
      BY <2>1, <2>6 DEF Enter
    <3>2. PICK b : b = o.base
      OBVIOUS
    <3>3. Fresh(b, size) /\ vmas' = vmas \cup {Mapping(b, RoundUp(size, GuestPage), "malloc")}
      BY <2>3, <2>4, <2>6, <3>2
    <3>4. call' = [call EXCEPT ![t] = [op |-> "record", base |-> b, size |-> size, then |-> then]]
      BY <3>1, <3>2
    <3>5. bump' \in Int /\ Aligned(bump', HostPage)
      BY <2>3, <2>4
    <3> QED
      BY <3>3, <3>4, <3>5, BlockBegins
  <2> QED
    BY <2>5, <2>6
<1> QED
  BY <1>4, <1>5

-------------------------------------------------------------------------------
\* malloc and its relatives.

\* What a guest's call leaves of the loader's.
LoaderStays == UNCHANGED <<game, stack, modules>>

\* A thread with no call, or with one that is about nothing more.
LEMMA NothingMore ==
  ASSUME NEW t
  PROVE  /\ ThenOK(t, NoCall) /\ CallOK(NoCall)
         /\ \A size \in Nat : ThenOK(t, [op |-> "binary", size |-> size])
<1>1. NoCall.op = "none"
  BY DEF NoCall
<1>2. ThenOK(t, NoCall) /\ CallOK(NoCall)
  BY <1>1 DEF ThenOK, CallOK, Works
<1>3. ASSUME NEW size \in Nat PROVE ThenOK(t, [op |-> "binary", size |-> size])
  <2>1. PICK r : r = [op |-> "binary", size |-> size]
    OBVIOUS
  <2>2. r.op = "binary" /\ r.size \in Nat
    BY <2>1
  <2>3. ThenOK(t, r)
    BY <2>2 DEF ThenOK, Works
  <2> QED
    BY <2>1, <2>3
<1> QED
  BY <1>2, <1>3

\* Malloc, Calloc, CreateShader, CreateBinary.
LEMMA MallocSteps ==
  ASSUME MemInv, NEW t \in Threads, LoaderStays,
         Malloc(t) \/ Calloc(t) \/ CreateShader(t) \/ CreateBinary(t)
  PROVE  MemInv'
<1>1. Quiet(t) => call[t].op = "none"
  BY DEF Quiet, NoCall
<1>2. Sizes \subseteq Nat /\ Wrap \in Nat \ {0}
  BY MemoryAssumption
<1>3. CASE Malloc(t)
  <2>1. PICK size \in Nat : MallocFor(t, size, NoCall)
    BY <1>2, <1>3 DEF Malloc
  <2>2. call[t].op # "record" /\ UNCHANGED <<brk, allocs, mappings, jit, nextFd, shrunk, game, stack, modules>>
    BY <1>1, <1>3 DEF Malloc, LoaderStays
  <2> QED
    BY <2>1, <2>2, NothingMore, MallocForStep
<1>4. CASE Calloc(t)
  <2>1. PICK num \in 1 .. 2, size \in Sizes : MallocFor(t, (num * size) % Wrap, NoCall)
    BY <1>4 DEF Calloc
  <2>2. PICK n \in Nat : n = (num * size) % Wrap
    <3>1. num * size \in Int
      BY <1>2
    <3>2. \A x \in Int : x % Wrap \in Nat
      BY <1>2
    <3> QED
      BY <3>1, <3>2
  <2>3. MallocFor(t, n, NoCall)
    BY <2>1, <2>2
  <2>4. call[t].op # "record" /\ UNCHANGED <<brk, allocs, mappings, jit, nextFd, shrunk, game, stack, modules>>
    BY <1>1, <1>4 DEF Calloc, LoaderStays
  <2> QED
    BY <2>3, <2>4, NothingMore, MallocForStep
<1>5. CASE CreateShader(t)
  <2>1. PICK size \in Nat :
          MallocFor(t, ShaderObject, IF size = 0 THEN NoCall ELSE [op |-> "binary", size |-> size])
    BY <1>2, <1>5 DEF CreateShader
  <2>2. PICK then : then = IF size = 0 THEN NoCall ELSE [op |-> "binary", size |-> size]
    OBVIOUS
  <2>3. ThenOK(t, then)
    BY <2>2, NothingMore
  <2>4. call[t].op # "record" /\ UNCHANGED <<brk, allocs, mappings, jit, nextFd, shrunk, game, stack, modules>>
    BY <1>1, <1>5 DEF CreateShader, LoaderStays
  <2>5. MallocFor(t, ShaderObject, then) /\ ShaderObject \in Nat
    BY <2>1, <2>2 DEF ShaderObject
  <2> QED
    BY <2>3, <2>4, <2>5, MallocForStep
<1>6. CASE CreateBinary(t)
  <2>1. call[t].op = "binary" /\ MallocFor(t, call[t].size, NoCall)
    BY <1>6 DEF CreateBinary
  <2>2. PICK size \in Nat : size = call[t].size
    BY <2>1 DEF MemInv, CallInv, CallOK
  <2>3. MallocFor(t, size, NoCall)
    BY <2>1, <2>2
  <2>4. call[t].op # "record" /\ UNCHANGED <<brk, allocs, mappings, jit, nextFd, shrunk, game, stack, modules>>
    BY <2>1, <1>6 DEF CreateBinary, LoaderStays
  <2> QED
    BY <2>3, <2>4, NothingMore, MallocForStep
<1> QED
  BY <1>3, <1>4, <1>5, <1>6

\* realloc asks for a larger block.
LEMMA GrowStep ==
  ASSUME MemInv, NEW t \in Threads, LoaderStays, Grow(t)
  PROVE  MemInv'
<1>1. PICK then : then = [op |-> "free", base |-> call[t].base]
  OBVIOUS
<1>2. call[t].op = "grow" /\ MallocFor(t, call[t].size, then)
  BY <1>1 DEF Grow
<1>3. PICK size \in Nat : size = call[t].size
  BY <1>2 DEF MemInv, CallInv, CallOK
<1>4. ThenOK(t, then)
  <2>1. then.op = "free" /\ then.base = call[t].base
    BY <1>1
  <2>2. About(call[t], call[t].base)
    BY <1>2 DEF About, Works
  <2>3. call[t].base \in DOMAIN allocs
    BY <1>2, <2>2 DEF MemInv, CallInv
  <2>4. \A a : Works(then, a) => a = call[t].base
    BY <2>1 DEF Works
  <2> QED
    BY <2>1, <2>2, <2>3, <2>4 DEF ThenOK
<1>5. MallocFor(t, size, then) /\ call[t].op # "record"
  BY <1>2, <1>3
<1>6. UNCHANGED <<brk, allocs, mappings, jit, nextFd, shrunk, game, stack, modules>>
  BY DEF Grow, LoaderStays
<1> QED
  BY <1>4, <1>5, <1>6, MallocForStep

\* The entries of a block.
LEMMA RecordMallocStep ==
  ASSUME MemInv, NEW t \in Threads, LoaderStays, RecordMalloc(t)
  PROVE  MemInv'
<1>1. PICK base, size, then : base = call[t].base /\ size = call[t].size /\ then = call[t].then
  OBVIOUS
<1>2. /\ call[t].op = "record" /\ base \in Int /\ size \in Nat \ {0} /\ Aligned(base, HostPage)
      /\ then.op \in {"none", "free", "binary"}
      /\ then.op = "binary" => then.size \in Nat
  BY <1>1 DEF RecordMalloc, MemInv, CallInv, CallOK
<1>3. /\ allocs' = Insert(base, size) /\ mappings' = Register(mappings, base, base, size)
      /\ call' = [call EXCEPT ![t] = then]
  BY <1>1 DEF RecordMalloc, Enter
<1>4. /\ DOMAIN allocs' = DOMAIN allocs \cup {base} /\ allocs'[base] = size
      /\ \A a \in DOMAIN allocs \ {base} : allocs'[a] = allocs[a]
  BY <1>3 DEF Insert
<1>5. base \notin DOMAIN allocs /\ \A u \in Threads \ {t} : ~About(call[u], base)
  <2>1. About(call[t], base)
    BY <1>1, <1>2 DEF About, Works
  <2> QED
    BY <1>1, <1>2, <2>1 DEF MemInv, CallInv
<1>6. MallocClaims' = MallocClaims
  <2>1. BlockClaims' = BlockClaims \cup {ClaimOf("malloc", base, size)}
    BY <1>4, <1>5, Zenon DEF BlockClaims
  <2>2. call'[t] = then /\ \A u \in Threads \ {t} : call'[u] = call[u]
    BY <1>3 DEF MemInv, CallInv
  <2>3. RecordClaims = RecordClaims' \cup {ClaimOf("malloc", base, size)}
    <3>1. {u \in Threads : call[u].op = "record"} = {u \in Threads : call'[u].op = "record"} \cup {t}
      BY <1>2, <2>2
    <3>2. \A u \in {v \in Threads : call'[v].op = "record"} : call'[u] = call[u]
      <4>1. call'[t].op # "record"
        BY <1>2, <2>2
      <4> QED
        BY <2>2, <4>1
    <3> QED
      BY <1>1, <3>1, <3>2, Zenon DEF RecordClaims
  <2> QED
    BY <2>1, <2>3 DEF MallocClaims
<1>7. UNCHANGED <<vmas, bump, brk, jit, nextFd, shrunk, game, stack, modules>>
  BY DEF RecordMalloc, LoaderStays
<1>8. Kept(Claims, vmas)' /\ Accounted(vmas, MallocClaims, shrunk)'
  <2>1. Claims' = Claims
    BY <1>6, <1>7, SameClaims DEF Claims, OwnClaims, MmapClaims
  <2> QED
    BY <1>6, <1>7, <2>1 DEF MemInv, Kept, Accounted, Holds
<1>9. CallInv'
  <2>1. CallOK(then)
    BY <1>2 DEF CallOK
  <2>2. \A a : About(then, a) => About(call[t], a)
    BY <1>1, <1>2 DEF About
  <2>3. \A a : About(then, a) => a \in DOMAIN allocs' \/ (then.op = "record" /\ a = then.base)
    BY <1>1, <1>4, <2>2 DEF MemInv, CallInv
  <2>4. \A a : About(then, a) => \A u \in Threads \ {t} : ~About(call[u], a)
    BY <2>2 DEF MemInv, CallInv
  <2>5. then.op # "record" /\ then.op # "shrink"
    BY <1>2
  <2>6. \A u \in Threads \ {t} : \A a :
          About(call[u], a) /\ a \in DOMAIN allocs => a \in DOMAIN allocs' /\ allocs'[a] = allocs[a]
    BY <1>4, <1>5
  <2>7. ASSUME NEW u \in Threads \ {t}, call[u].op = "record" PROVE call[u].base \notin DOMAIN allocs'
    <3>1. About(call[u], call[u].base)
      BY <2>7 DEF About, Works
    <3>2. call[u].base \notin DOMAIN allocs
      BY <2>7 DEF MemInv, CallInv
    <3> QED
      BY <1>4, <1>5, <3>1, <3>2
  <2>8. CallInv
    BY DEF MemInv
  <2> QED
    BY <1>3, <2>1, <2>3, <2>4, <2>5, <2>6, <2>7, <2>8, CallStep
<1>10. BlockInv'
  BY <1>2, <1>4 DEF MemInv, BlockInv
<1>11. EntryInv'
  <2>1. DOMAIN mappings' = DOMAIN mappings \cup {base} /\ mappings'[base] = [host |-> base, size |-> size]
        /\ \A g \in DOMAIN mappings \ {base} : mappings'[g] = mappings[g]
    BY <1>3 DEF Register
  <2> QED
    BY <1>2, <2>1 DEF MemInv, EntryInv
<1> QED
  BY <1>7, <1>8, <1>9, <1>10, <1>11, SameClaims DEF MemInv

\* The claim of a block is no other's.
LEMMA BlockClaim ==
  ASSUME MemInv, NEW a \in DOMAIN allocs, NEW c, c = ClaimOf("malloc", a, allocs[a])
  PROVE  /\ c \in Claims /\ ClaimOK(c) /\ c.kind = "malloc" /\ c.lo = a /\ c.size = allocs[a]
         /\ \A d \in Claims \ {c} : Outside(c.lo, EndOf(c), d.lo, EndOf(d))
         /\ \A d \in RecordClaims : d.lo # a
         /\ \A b \in DOMAIN allocs \ {a} : ClaimOf("malloc", b, allocs[b]) \in Claims \ {c}
<1>1. c \in Claims
  BY DEF Claims, OwnClaims, MallocClaims, BlockClaims
<1>2. c.kind = "malloc" /\ c.lo = a /\ c.size = allocs[a]
  BY ClaimFields
<1>3. ClaimOK(c) /\ \A d \in Claims \ {c} : Outside(c.lo, EndOf(c), d.lo, EndOf(d))
  BY <1>1 DEF MemInv, Kept
<1>4. ASSUME NEW d \in RecordClaims PROVE d.lo # a
  <2>1. PICK u \in Threads : call[u].op = "record" /\ d = ClaimOf("malloc", call[u].base, call[u].size)
    BY DEF RecordClaims
  <2>2. d.lo = call[u].base /\ call[u].base \notin DOMAIN allocs
    BY <2>1, ClaimFields DEF MemInv, CallInv
  <2> QED
    BY <2>2
<1>5. ASSUME NEW b \in DOMAIN allocs \ {a} PROVE ClaimOf("malloc", b, allocs[b]) \in Claims \ {c}
  <2>1. ClaimOf("malloc", b, allocs[b]).lo = b
    BY ClaimFields
  <2>2. ClaimOf("malloc", b, allocs[b]) \in Claims
    BY DEF Claims, OwnClaims, MallocClaims, BlockClaims
  <2> QED
    BY <1>2, <2>1, <2>2
<1> QED
  BY <1>1, <1>2, <1>3, <1>4, <1>5

\* A listed block goes back, all of it.
LEMMA FreeListed ==
  ASSUME MemInv, NEW a \in DOMAIN allocs, vmas' = Freed(a),
         allocs' = Restrict(allocs, DOMAIN allocs \ {a}), RecordClaims' = RecordClaims,
         UNCHANGED <<bump, brk, jit, shrunk, stack, modules>>
  PROVE  AddressInv' /\ Kept(Claims, vmas)' /\ BlockInv' /\ Accounted(vmas, MallocClaims, shrunk)'
<1>1. PICK c : c = ClaimOf("malloc", a, allocs[a])
  OBVIOUS
<1>2. /\ c \in Claims /\ ClaimOK(c) /\ c.kind = "malloc" /\ c.lo = a /\ c.size = allocs[a]
      /\ \A d \in Claims \ {c} : Outside(c.lo, EndOf(c), d.lo, EndOf(d))
      /\ \A d \in RecordClaims : d.lo # a
      /\ \A b \in DOMAIN allocs \ {a} : ClaimOf("malloc", b, allocs[b]) \in Claims \ {c}
  BY <1>1, BlockClaim
<1>3. PICK size \in Nat \ {0} : size = allocs[a]
  BY <1>2 DEF ClaimOK
<1>4. a \in Int /\ EndOf(c) \in Int /\ EndOf(c) = a + RoundUp(size, GuestPage)
  BY <1>2, <1>3, ClaimEnds DEF ClaimOK, EndOf
<1>5. MapsOK(vmas) /\ Kept(Claims \ {c}, vmas)
  BY FewerKept DEF MemInv, AddressInv
<1>6. vmas' = Deallocate(vmas, a, size)
  BY <1>3 DEF Freed
<1>7. c.lo <= a /\ a + RoundUp(size, GuestPage) <= EndOf(c)
  BY <1>2, <1>4
<1>8. /\ MapsOK(vmas') /\ Pieces(vmas', vmas) /\ Kept(Claims \ {c}, vmas')
      /\ a % HostPage = 0 /\ size # 0 => \A v \in vmas' : Outside(v.lo, v.hi, a, a + RoundUp(size, GuestPage))
  BY <1>2, <1>4, <1>5, <1>6, <1>7, DeallocateKeeps
<1>9. a % HostPage = 0
  BY <1>4, Units, NoRemainder DEF MemInv, BlockInv
<1>10. DOMAIN allocs' = DOMAIN allocs \ {a} /\ \A b \in DOMAIN allocs \ {a} : allocs'[b] = allocs[b]
  BY DEF Restrict
<1>11. BlockClaims' \subseteq Claims \ {c}
  <2> SUFFICES ASSUME NEW d \in BlockClaims' PROVE d \in Claims \ {c}
    OBVIOUS
  <2>1. PICK b \in DOMAIN allocs' : d = ClaimOf("malloc", b, allocs'[b])
    BY DEF BlockClaims
  <2>2. b \in DOMAIN allocs \ {a} /\ allocs'[b] = allocs[b]
    BY <1>10, <2>1
  <2> QED
    BY <1>2, <2>1, <2>2
<1>12. MmapClaims(vmas)' \subseteq MmapClaims(vmas)
  BY <1>5, <1>8, PiecesStay DEF MmapClaims
<1>13. Claims' \subseteq Claims \ {c}
  <2>1. JitClaims' = JitClaims /\ LoadClaims' = LoadClaims /\ ModuleClaims' = ModuleClaims
    BY SameClaims
  <2>2. c \notin RecordClaims /\ c \notin JitClaims /\ c \notin LoadClaims /\ c \notin ModuleClaims
        /\ c \notin MmapClaims(vmas)
    BY <1>2, ClaimKinds
  <2> QED
    BY <1>11, <1>12, <2>1, <2>2 DEF Claims, OwnClaims, MallocClaims
<1>14. Kept(Claims', vmas')
  BY <1>8, <1>13, FewerKept
<1>15. AddressInv'
  BY <1>8, MappingsCut DEF MemInv
<1>16. Accounted(vmas', MallocClaims', shrunk)
  <2> SUFFICES ASSUME NEW v \in vmas', v.kind = "malloc", v.base \notin shrunk
               PROVE  \E d \in MallocClaims' : d.lo = v.base /\ v.hi <= EndOf(d)
    BY DEF Accounted
  <2>1. Accounted(vmas', MallocClaims, shrunk)
    <3>1. Accounted(vmas, MallocClaims, shrunk)
      BY DEF MemInv
    <3>2. \A d \in MallocClaims : EndOf(d) \in Int
      BY ClaimsEnd DEF MemInv, Claims, OwnClaims
    <3> QED
      BY <1>5, <1>8, <3>1, <3>2, PiecesStay
  <2>2. PICK d \in MallocClaims : d.lo = v.base /\ v.hi <= EndOf(d)
    BY <2>1 DEF Accounted
  <2>3. CASE d = c
    <3>1. MappingOK(v) /\ Outside(v.lo, v.hi, a, EndOf(c))
      BY <1>3, <1>4, <1>8, <1>9 DEF MapsOK
    <3> QED
      BY <1>2, <1>4, <2>2, <2>3, <3>1 DEF Outside, MappingOK
  <2>4. CASE d \in RecordClaims
    BY <2>2, <2>4 DEF MallocClaims
  <2>5. CASE d # c /\ d \in BlockClaims
    <3>1. PICK b \in DOMAIN allocs : d = ClaimOf("malloc", b, allocs[b])
      BY <2>5 DEF BlockClaims
    <3>2. b # a
      BY <1>1, <2>5, <3>1
    <3>3. d \in BlockClaims'
      BY <1>10, <3>1, <3>2 DEF BlockClaims
    <3> QED
      BY <2>2, <3>3 DEF MallocClaims
  <2> QED
    BY <2>2, <2>3, <2>4, <2>5 DEF MallocClaims
<1>17. BlockInv'
  BY <1>10 DEF MemInv, BlockInv
<1>18. Kept(Claims, vmas)' /\ Accounted(vmas, MallocClaims, shrunk)'
  BY <1>14, <1>16 DEF Kept, Holds, Accounted
<1> QED
  BY <1>15, <1>17, <1>18

\* A block is freed.
LEMMA FreeStep ==
  ASSUME MemInv, NEW t \in Threads, NEW a, LoaderStays, Free(t, a)
  PROVE  MemInv'
<1>1. /\ FreeBlock(a) /\ ~InCall(a) /\ call[t] = NoCall
      /\ UNCHANGED <<bump, brk, mappings, jit, nextFd, call, shrunk, game, stack, modules>>
  BY DEF Free, Quiet, LoaderStays
<1>2. CASE a \notin DOMAIN allocs
  <2>1. UNCHANGED <<vmas, allocs>>
    BY <1>1, <1>2 DEF FreeBlock
  <2>2. MallocClaims' = MallocClaims /\ Claims' = Claims
    BY <1>1, <2>1, SameClaims DEF MallocClaims, OwnClaims, Claims, MmapClaims
  <2>3. Kept(Claims, vmas)' /\ Accounted(vmas, MallocClaims, shrunk)'
    BY <1>1, <2>1, <2>2 DEF MemInv, Kept, Holds, Accounted
  <2> QED
    BY <1>1, <2>1, <2>3, SameClaims DEF MemInv
<1>3. CASE a \in DOMAIN allocs
  <2>1. vmas' = Freed(a) /\ allocs' = Restrict(allocs, DOMAIN allocs \ {a})
    BY <1>1, <1>3 DEF FreeBlock
  <2>2. RecordClaims' = RecordClaims
    BY <1>1, SameClaims
  <2>3. AddressInv' /\ Kept(Claims, vmas)' /\ BlockInv' /\ Accounted(vmas, MallocClaims, shrunk)'
    BY <1>1, <1>3, <2>1, <2>2, FreeListed
  <2>4. DOMAIN allocs' = DOMAIN allocs \ {a} /\ \A b \in DOMAIN allocs \ {a} : allocs'[b] = allocs[b]
    BY <2>1 DEF Restrict
  <2>5. \A u \in Threads : ~About(call[u], a)
    BY <1>1 DEF InCall, About
  <2>6. CallInv'
    <3>1. call' = [call EXCEPT ![t] = NoCall]
      BY <1>1 DEF MemInv, CallInv
    <3>2. CallOK(NoCall) /\ NoCall.op = "none"
      BY NothingMore DEF NoCall
    <3>3. \A b : ~About(NoCall, b)
      BY <3>2, AboutNothing
    <3>4. \A u \in Threads \ {t} : \A b :
            About(call[u], b) /\ b \in DOMAIN allocs => b \in DOMAIN allocs' /\ allocs'[b] = allocs[b]
      BY <2>4, <2>5
    <3>5. \A u \in Threads \ {t} : call[u].op = "record" => call[u].base \notin DOMAIN allocs'
      BY <2>4 DEF MemInv, CallInv
    <3>6. CallInv /\ NoCall.op # "record" /\ NoCall.op # "shrink"
      BY <3>2 DEF MemInv
    <3> QED
      BY <3>1, <3>2, <3>3, <3>4, <3>5, <3>6, CallStep
  <2> QED
    BY <1>1, <2>3, <2>6, SameClaims DEF MemInv
<1> QED
  BY <1>2, <1>3

\* The end of the old block of a larger one.
LEMMA FreeOldStep ==
  ASSUME MemInv, NEW t \in Threads, LoaderStays, FreeOld(t)
  PROVE  MemInv'
<1>1. PICK a : a = call[t].base
  OBVIOUS
<1>2. /\ FreeBlock(a) /\ call[t].op = "free" /\ call' = [call EXCEPT ![t] = NoCall]
      /\ UNCHANGED <<bump, brk, mappings, jit, nextFd, shrunk, game, stack, modules>>
  BY <1>1 DEF FreeOld, Return, Enter, LoaderStays
<1>3. a \in DOMAIN allocs /\ \A u \in Threads \ {t} : ~About(call[u], a)
  <2>1. About(call[t], a)
    BY <1>1, <1>2 DEF About, Works
  <2> QED
    BY <1>2, <2>1 DEF MemInv, CallInv
<1>4. vmas' = Freed(a) /\ allocs' = Restrict(allocs, DOMAIN allocs \ {a})
  BY <1>2, <1>3 DEF FreeBlock
<1>5. CallOK(NoCall) /\ NoCall.op = "none"
  BY NothingMore DEF NoCall
<1>6. RecordClaims' = RecordClaims
  BY <1>2, <1>5, RecordChange DEF MemInv
<1>7. AddressInv' /\ Kept(Claims, vmas)' /\ BlockInv' /\ Accounted(vmas, MallocClaims, shrunk)'
  BY <1>2, <1>3, <1>4, <1>6, FreeListed
<1>8. CallInv'
  <2>1. DOMAIN allocs' = DOMAIN allocs \ {a} /\ \A b \in DOMAIN allocs \ {a} : allocs'[b] = allocs[b]
    BY <1>4 DEF Restrict
  <2>2. \A b : ~About(NoCall, b)
    BY <1>5, AboutNothing
  <2>3. \A u \in Threads \ {t} : \A b :
          About(call[u], b) /\ b \in DOMAIN allocs => b \in DOMAIN allocs' /\ allocs'[b] = allocs[b]
    BY <1>3, <2>1
  <2>4. \A u \in Threads \ {t} : call[u].op = "record" => call[u].base \notin DOMAIN allocs'
    BY <2>1 DEF MemInv, CallInv
  <2>5. CallInv /\ NoCall.op # "record" /\ NoCall.op # "shrink"
    BY <1>5 DEF MemInv
  <2> QED
    BY <1>2, <1>5, <2>2, <2>3, <2>4, <2>5, CallStep
<1> QED
  BY <1>2, <1>7, <1>8, SameClaims DEF MemInv

\* The size is read, or malloc is called for a block that is not listed.
LEMMA ReallocStep ==
  ASSUME MemInv, NEW t \in Threads, NEW a, LoaderStays, Realloc(t, a)
  PROVE  MemInv'
<1>1. PICK size \in Nat \ {0} :
        IF a \notin DOMAIN allocs THEN MallocFor(t, size, NoCall)
        ELSE /\ Enter(t, [op |-> IF Fits(a, size) THEN "shrink" ELSE "grow", base |-> a, size |-> size])
             /\ UNCHANGED <<vmas, bump, refusals>>
  BY MemoryAssumption DEF Realloc
<1>2. /\ call[t].op = "none" /\ \A u \in Threads : ~About(call[u], a)
      /\ UNCHANGED <<brk, allocs, mappings, jit, nextFd, shrunk, game, stack, modules>>
  BY DEF Realloc, Quiet, NoCall, InCall, About, LoaderStays
<1>3. CASE a \notin DOMAIN allocs
  <2>1. MallocFor(t, size, NoCall) /\ call[t].op # "record" /\ size \in Nat
    BY <1>1, <1>2, <1>3
  <2> QED
    BY <1>2, <2>1, NothingMore, MallocForStep
<1>4. CASE a \in DOMAIN allocs
  <2>1. PICK r : r = [op |-> IF Fits(a, size) THEN "shrink" ELSE "grow", base |-> a, size |-> size]
    OBVIOUS
  <2>2. call' = [call EXCEPT ![t] = r] /\ UNCHANGED <<vmas, bump>>
    BY <1>1, <1>4, <2>1 DEF Enter
  <2>3. r.op \in {"shrink", "grow"} /\ r.base = a /\ r.size = size
    BY <2>1
  <2>4. r.op = "shrink" => size <= allocs[a]
    <3>1. allocs[a] \in Int
      <4>1. ClaimOK(ClaimOf("malloc", a, allocs[a])) /\ ClaimOf("malloc", a, allocs[a]).size = allocs[a]
        BY <1>4, BlockClaim
      <4> QED
        BY <4>1 DEF ClaimOK
    <3> QED
      BY <2>1, <3>1 DEF Fits
  <2>5. \A b : About(r, b) => b = a
    BY <2>3 DEF About, Works
  <2>6. CallOK(r)
    BY <2>3 DEF CallOK
  <2>7. \A u \in Threads : call[u].op = "record" => call[u].base \notin DOMAIN allocs
    BY DEF MemInv, CallInv
  <2>8. CallInv /\ allocs' = allocs /\ r.op # "record"
    BY <1>2, <2>3 DEF MemInv
  <2>9. CallInv'
    <3>1. \A b : About(r, b) => b \in DOMAIN allocs' \/ (r.op = "record" /\ b = r.base)
      BY <1>4, <2>5, <2>8
    <3>2. \A b : About(r, b) => \A u \in Threads \ {t} : ~About(call[u], b)
      BY <1>2, <2>5
    <3>3. r.op = "shrink" => r.size <= allocs'[r.base]
      BY <2>3, <2>4, <2>8
    <3> QED
      BY <2>2, <2>6, <2>7, <2>8, <3>1, <3>2, <3>3, CallStep
  <2>10. bump' \in Int /\ Aligned(bump', HostPage)
    BY <2>2 DEF MemInv, AddressInv
  <2>11. call[t].op # "record" /\ r.op # "record"
         /\ UNCHANGED <<vmas, brk, allocs, mappings, jit, nextFd, shrunk, game, stack, modules>>
    BY <1>2, <2>2, <2>3
  <2> QED
    BY <2>2, <2>9, <2>10, <2>11, CallOnly
<1> QED
  BY <1>3, <1>4

\* The block's size is less; its pages stay.
LEMMA ShrinkStep ==
  ASSUME MemInv, NEW t \in Threads, LoaderStays, Shrink(t)
  PROVE  MemInv'
<1>1. PICK a, size : a = call[t].base /\ size = call[t].size
  OBVIOUS
<1>2. /\ call[t].op = "shrink" /\ allocs' = Insert(a, size) /\ shrunk' = shrunk \cup {a}
      /\ call' = [call EXCEPT ![t] = NoCall]
      /\ UNCHANGED <<vmas, bump, brk, mappings, jit, nextFd, game, stack, modules>>
  BY <1>1 DEF Shrink, Return, Enter, LoaderStays
<1>3. a \in DOMAIN allocs /\ size \in Nat \ {0} /\ size <= allocs[a] /\ \A u \in Threads \ {t} : ~About(call[u], a)
  <2>1. About(call[t], a)
    BY <1>1, <1>2 DEF About, Works
  <2> QED
    BY <1>1, <1>2, <2>1 DEF MemInv, CallInv, CallOK
<1>4. PICK c : c = ClaimOf("malloc", a, allocs[a])
  OBVIOUS
<1>5. PICK d : d = ClaimOf("malloc", a, size)
  OBVIOUS
<1>6. /\ c \in Claims /\ ClaimOK(c) /\ c.kind = "malloc" /\ c.lo = a /\ c.size = allocs[a]
      /\ \A e \in RecordClaims : e.lo # a
      /\ \A b \in DOMAIN allocs \ {a} : ClaimOf("malloc", b, allocs[b]) \in Claims \ {c}
  BY <1>3, <1>4, BlockClaim
<1>7. ClaimOK(d) /\ d.kind = c.kind /\ d.lo = c.lo /\ d.size <= c.size
  <2>1. a \in Int
    BY <1>6 DEF ClaimOK
  <2>2. d.kind = "malloc" /\ d.lo = a /\ d.size = size /\ ClaimOK(d)
    BY <1>3, <1>5, <2>1, ClaimFields
  <2> QED
    BY <1>3, <1>6, <2>2
<1>8. Kept((Claims \ {c}) \cup {d}, vmas)
  BY <1>6, <1>7, ShrunkKept DEF MemInv
<1>9. DOMAIN allocs' = DOMAIN allocs /\ allocs'[a] = size /\ \A b \in DOMAIN allocs \ {a} : allocs'[b] = allocs[b]
  BY <1>2, <1>3 DEF Insert
<1>10. CallOK(NoCall) /\ NoCall.op = "none"
  BY NothingMore DEF NoCall
<1>11. RecordClaims' = RecordClaims
  BY <1>2, <1>10, RecordChange DEF MemInv
<1>12. BlockClaims' \subseteq (Claims \ {c}) \cup {d}
  <2> SUFFICES ASSUME NEW e \in BlockClaims' PROVE e \in (Claims \ {c}) \cup {d}
    OBVIOUS
  <2>1. PICK b \in DOMAIN allocs' : e = ClaimOf("malloc", b, allocs'[b])
    BY DEF BlockClaims
  <2>2. CASE b = a
    BY <1>5, <1>9, <2>1, <2>2
  <2>3. CASE b # a
    BY <1>6, <1>9, <2>1, <2>3
  <2> QED
    BY <2>2, <2>3
<1>13. Claims' \subseteq (Claims \ {c}) \cup {d}
  <2>1. JitClaims' = JitClaims /\ LoadClaims' = LoadClaims /\ ModuleClaims' = ModuleClaims
    BY <1>2, SameClaims
  <2>2. MmapClaims(vmas)' = MmapClaims(vmas)
    BY <1>2 DEF MmapClaims
  <2>3. c \notin RecordClaims /\ c \notin JitClaims /\ c \notin LoadClaims /\ c \notin ModuleClaims
        /\ c \notin MmapClaims(vmas)
    BY <1>6, ClaimKinds
  <2> QED
    BY <1>11, <1>12, <2>1, <2>2, <2>3 DEF Claims, OwnClaims, MallocClaims
<1>14. Kept(Claims, vmas)'
  <2>1. Kept(Claims', vmas)
    BY <1>8, <1>13, FewerKept
  <2> QED
    BY <1>2, <2>1 DEF Kept, Holds
<1>15. Accounted(vmas, MallocClaims, shrunk)'
  <2> SUFFICES ASSUME NEW v \in vmas, v.kind = "malloc", v.base \notin shrunk \cup {a}
               PROVE  \E e \in MallocClaims' : e.lo = v.base /\ v.hi <= EndOf(e)
    BY <1>2 DEF Accounted
  <2>1. PICK e \in MallocClaims : e.lo = v.base /\ v.hi <= EndOf(e)
    BY DEF MemInv, Accounted
  <2>2. CASE e \in RecordClaims
    BY <1>11, <2>1, <2>2 DEF MallocClaims
  <2>3. CASE e \in BlockClaims
    <3>1. PICK b \in DOMAIN allocs : e = ClaimOf("malloc", b, allocs[b])
      BY <2>3 DEF BlockClaims
    <3>2. b # a
      BY <2>1, <3>1, ClaimFields
    <3>3. e \in BlockClaims'
      BY <1>9, <3>1, <3>2 DEF BlockClaims
    <3> QED
      BY <2>1, <3>3 DEF MallocClaims
  <2> QED
    BY <2>1, <2>2, <2>3 DEF MallocClaims
<1>16. CallInv'
  <2>1. \A b : ~About(NoCall, b)
    BY <1>10, AboutNothing
  <2>2. \A u \in Threads \ {t} : \A b :
          About(call[u], b) /\ b \in DOMAIN allocs => b \in DOMAIN allocs' /\ allocs'[b] = allocs[b]
    BY <1>3, <1>9
  <2>3. \A u \in Threads \ {t} : call[u].op = "record" => call[u].base \notin DOMAIN allocs'
    BY <1>9 DEF MemInv, CallInv
  <2>4. CallInv /\ NoCall.op # "record" /\ NoCall.op # "shrink"
    BY <1>10 DEF MemInv
  <2> QED
    BY <1>2, <1>10, <2>1, <2>2, <2>3, <2>4, CallStep
<1>17. BlockInv'
  BY <1>9 DEF MemInv, BlockInv
<1> QED
  BY <1>2, <1>14, <1>15, <1>16, <1>17, SameClaims DEF MemInv

-------------------------------------------------------------------------------
\* The break, the guest's own mappings and direct memory.

\* Memory somebody else has is mapped, given back or mapped over.
LEMMA OtherMemory ==
  ASSUME MemInv, AddressInv', Kept(Claims, vmas'), MmapClaims(vmas') \subseteq MmapClaims(vmas),
         Accounted(vmas', MallocClaims, shrunk),
         UNCHANGED <<allocs, mappings, jit, nextFd, call, shrunk, game, stack, modules>>
  PROVE  MemInv'
<1>1. MallocClaims' = MallocClaims /\ JitClaims' = JitClaims /\ LoadClaims' = LoadClaims /\ ModuleClaims' = ModuleClaims
  BY SameClaims DEF MallocClaims
<1>2. Claims' \subseteq Claims
  BY <1>1 DEF Claims, OwnClaims, MmapClaims
<1>3. Kept(Claims', vmas')
  BY <1>2, FewerKept
<1>4. Kept(Claims, vmas)' /\ Accounted(vmas, MallocClaims, shrunk)'
  BY <1>1, <1>3 DEF Kept, Holds, Accounted
<1> QED
  BY <1>4, SameClaims DEF MemInv

\* Without, and the break over it.
LEMMA ObreakStep ==
  ASSUME MemInv, NEW t \in Threads, LoaderStays, Obreak(t)
  PROVE  MemInv'
<1>1. PICK g \in Growths : LET to == brk + g IN
        /\ to > 0
        /\ LET top    == brk + RoundUp(to - brk, GuestPage)
               mapped == to > brk /\ brk % HostPage = 0
           IN  \/ /\ mapped
                  /\ vmas' = Without(vmas, brk, top) \cup {Mapping(brk, top - brk, "break")}
                  /\ UNCHANGED refusals
               \/ /\ mapped => refusals < MaxRefusals
                  /\ refusals' = refusals + IF mapped THEN 1 ELSE 0
                  /\ UNCHANGED vmas
        /\ brk' = to
  BY DEF Obreak
<1>2. PICK to \in Int : to = brk + g
  BY MemoryAssumption DEF MemInv, AddressInv
<1>3. UNCHANGED <<bump, allocs, mappings, jit, nextFd, call, shrunk, game, stack, modules>> /\ brk' = to
  BY <1>1, <1>2 DEF Obreak, LoaderStays
<1>4. /\ MapsOK(vmas) /\ Bounded(vmas) /\ Kept(Claims, vmas) /\ brk \in Int
      /\ bump \in Int /\ Aligned(bump, HostPage) /\ Accounted(vmas, MallocClaims, shrunk)
  BY DEF MemInv, AddressInv
<1>5. CASE vmas' = vmas
  <2>1. AddressInv'
    BY <1>3, <1>4, <1>5 DEF AddressInv
  <2> QED
    BY <1>3, <1>4, <1>5, <2>1, OtherMemory
<1>6. CASE vmas' # vmas
  <2>1. PICK length \in Int : length = RoundUp(to - brk, GuestPage) /\ to - brk <= length /\ Aligned(length, HostPage)
    BY <1>2, <1>4, Paged, PagesAligned
  <2>2. PICK top \in Int : top = brk + length /\ top - brk = length
    BY <1>4
  <2>3. to > brk /\ brk % HostPage = 0 /\ vmas' = Without(vmas, brk, top) \cup {Mapping(brk, top - brk, "break")}
    BY <1>1, <1>2, <1>6, <2>1, <2>2
  <2>4. Aligned(brk, HostPage) /\ length \in Nat \ {0}
    BY <1>2, <1>4, <2>1, <2>3, Units, NoRemainder
  <2>5. RegionOK(brk, top)
    <3>1. Aligned(brk + length, HostPage)
      BY <1>4, <2>1, <2>4, Units, AlignedSums
    <3>2. brk < top /\ Aligned(top, HostPage)
      BY <1>4, <2>2, <2>4, <3>1
    <3> QED
      BY <1>4, <2>4, <3>2 DEF RegionOK
  <2>6. PICK rest : rest = Without(vmas, brk, top)
    OBVIOUS
  <2>7. MapsOK(rest) /\ Pieces(rest, vmas)
    BY <1>4, <2>5, <2>6, WithoutPieces DEF MapsOK, Pieces
  <2>8. Bounded(rest) /\ MmapClaims(rest) \subseteq MmapClaims(vmas) /\ Accounted(rest, MallocClaims, shrunk)
    <3>1. \A c \in MallocClaims : EndOf(c) \in Int
      BY <1>4, ClaimsEnd DEF Claims, OwnClaims
    <3> QED
      BY <1>4, <2>7, <3>1, PiecesStay
  <2>9. vmas' = rest \cup {Mapping(brk, length, "break")}
    BY <2>2, <2>3, <2>6
  <2>10. MapsOK(vmas') /\ Bounded(vmas')
    BY <1>4, <2>1, <2>4, <2>7, <2>8, <2>9, OneMore
  <2>11. AddressInv'
    BY <1>3, <1>4, <2>10 DEF AddressInv
  <2>12. Kept(Claims, vmas')
    <3>1. Kept(Claims, Without(vmas, brk, top) \cup {Mapping(brk, top - brk, "break")})
      BY <1>4, <2>5, BreakKept
    <3> QED
      BY <2>3, <3>1
  <2>13. MmapClaims(vmas') = MmapClaims(rest)
    BY <1>4, <2>9, MappingCounts
  <2>14. Accounted(vmas', MallocClaims, shrunk)
    BY <2>8, <2>9, OtherCounts
  <2> QED
    BY <1>3, <2>8, <2>11, <2>12, <2>13, <2>14, OtherMemory
<1> QED
  BY <1>5, <1>6

\* What allocate_guest_memory answers for these.
LEMMA AllocationFor ==
  ASSUME MemInv, NEW size \in Nat, NEW hint \in {0, GuestHigh - Megabyte}, NEW kind,
         NEW o \in Allocations(hint, size, kind)
  PROVE  /\ o.bump \in Int /\ Aligned(o.bump, HostPage)
         /\ \/ o.base = None /\ o.vmas = vmas
            \/ /\ o.base # None /\ Fresh(o.base, size)
               /\ o.vmas = vmas \cup {Mapping(o.base, RoundUp(size, GuestPage), kind)}
<1>1. 0 \in Int /\ Aligned(0, HostPage)
  BY Units DEF Aligned
<1>2. PICK a \in Int : a = GuestHigh - Megabyte /\ Aligned(a, HostPage)
  <2>1. GuestHigh - Megabyte \in Int /\ Aligned(GuestHigh - Megabyte, HostPage)
    BY Units, AlignedSums
  <2> QED
    BY <2>1
<1>3. hint \in Int /\ Aligned(hint, HostPage)
  BY <1>1, <1>2
<1> QED
  BY <1>3, AllocationsAreFresh DEF MemInv

\* The guest maps memory.
LEMMA MmapStep ==
  ASSUME MemInv, NEW t \in Threads, LoaderStays, Mmap(t)
  PROVE  MemInv'
<1>1. PICK size \in Nat, hint \in {0, GuestHigh - Megabyte} :
        \E o \in Allocations(hint, size, "mmap") : vmas' = o.vmas /\ bump' = o.bump
  BY MemoryAssumption DEF Mmap, Take
<1>2. PICK o \in Allocations(hint, size, "mmap") : vmas' = o.vmas /\ bump' = o.bump
  BY <1>1
<1>3. /\ o.bump \in Int /\ Aligned(o.bump, HostPage)
      /\ \/ o.base = None /\ o.vmas = vmas
         \/ /\ o.base # None /\ Fresh(o.base, size)
            /\ o.vmas = vmas \cup {Mapping(o.base, RoundUp(size, GuestPage), "mmap")}
  BY AllocationFor
<1>4. UNCHANGED <<brk, allocs, mappings, jit, nextFd, call, shrunk, game, stack, modules>>
  BY DEF Mmap, LoaderStays
<1>5. AddressInv /\ brk' \in Int /\ Kept(Claims, vmas) /\ Accounted(vmas, MallocClaims, shrunk)
  BY <1>4 DEF MemInv, AddressInv
<1>6. CASE vmas' = vmas
  <2>1. AddressInv'
    BY <1>2, <1>3, <1>5, <1>6 DEF AddressInv
  <2> QED
    BY <1>4, <1>5, <1>6, <2>1, OtherMemory
<1>7. CASE vmas' # vmas
  <2>1. PICK base : base = o.base
    OBVIOUS
  <2>2. Fresh(base, size) /\ vmas' = vmas \cup {Mapping(base, RoundUp(size, GuestPage), "mmap")}
    BY <1>2, <1>3, <1>7, <2>1
  <2>3. PICK length \in Int : length = RoundUp(size, GuestPage) /\ size <= length
    BY Paged
  <2>4. RoundUp(length, GuestPage) = length
    <3>1. Aligned(length, GuestPage)
      <4>1. Aligned(RoundUp(size, GuestPage), GuestPage)
        BY PagesAligned
      <4> QED
        BY <2>3, <4>1
    <3> QED
      BY <3>1, Units, RoundedStays
  <2>5. base \in Int /\ Fresh(base, length)
    BY <2>2, <2>3, <2>4 DEF Fresh
  <2>6. vmas' = vmas \cup {Mapping(base, RoundUp(length, GuestPage), "mmap")}
    BY <2>2, <2>3, <2>4
  <2>7. Kept(Claims \cup {ClaimOf("mmap", base, length)}, vmas')
    BY <2>5, <2>6, FreshKept
  <2>8. MmapClaims(vmas') \subseteq MmapClaims(vmas) \cup {ClaimOf("mmap", base, length)}
        /\ Accounted(vmas', MallocClaims, shrunk)
    <3>1. vmas' = vmas \cup {Mapping(base, length, "mmap")}
      BY <2>4, <2>6
    <3>2. MmapClaims(vmas') \subseteq MmapClaims(vmas) \cup {ClaimOf("mmap", base, length)}
      BY <2>3, <2>5, <3>1, MappingCounts
    <3>3. Accounted(vmas', MallocClaims, shrunk)
      BY <1>5, <3>1, OtherCounts
    <3> QED
      BY <3>2, <3>3
  <2>9. AddressInv'
    <3>1. MapsOK(vmas') /\ Bounded(vmas')
      BY <1>5, <2>2, MappingAdded
    <3> QED
      BY <1>2, <1>3, <1>5, <3>1 DEF AddressInv
  <2>10. MallocClaims' = MallocClaims /\ JitClaims' = JitClaims /\ LoadClaims' = LoadClaims /\ ModuleClaims' = ModuleClaims
    BY <1>4, SameClaims DEF MallocClaims
  <2>11. Claims' \subseteq Claims \cup {ClaimOf("mmap", base, length)}
    BY <2>8, <2>10 DEF Claims, OwnClaims, MmapClaims
  <2>12. Kept(Claims', vmas')
    BY <2>7, <2>11, FewerKept
  <2>13. Kept(Claims, vmas)' /\ Accounted(vmas, MallocClaims, shrunk)'
    BY <1>4, <2>8, <2>10, <2>12 DEF Kept, Holds, Accounted
  <2> QED
    BY <1>4, <2>9, <2>13, SameClaims DEF MemInv
<1> QED
  BY <1>6, <1>7

\* All of a mapping goes back, and nothing else.
LEMMA MunmapStep ==
  ASSUME MemInv, NEW t \in Threads, LoaderStays, Munmap(t)
  PROVE  MemInv'
<1>1. PICK v \in vmas : v.kind = "mmap" /\ vmas' = Deallocate(vmas, v.base, v.end - v.base)
  BY DEF Munmap
<1>2. UNCHANGED <<bump, brk, allocs, mappings, jit, nextFd, call, shrunk, game, stack, modules>>
  BY DEF Munmap, LoaderStays
<1>3. PICK base \in Int, size \in Nat \ {0} : base = v.base /\ size = v.end - v.base
  <2>1. v.base \in Int /\ v.end - v.base \in Nat \ {0}
    BY DEF MemInv, AddressInv, MapsOK, MappingOK
  <2> QED
    BY <2>1
<1>4. PICK c : c = ClaimOf("mmap", base, size)
  OBVIOUS
<1>5. c \in Claims /\ ClaimOK(c) /\ c.kind = "mmap" /\ c.lo = base /\ c.size = size /\ EndOf(c) = base + RoundUp(size, GuestPage)
  <2>1. c \in MmapClaims(vmas)
    BY <1>1, <1>3, <1>4 DEF MmapClaims
  <2> QED
    BY <1>4, <2>1, ClaimFields DEF Claims
<1>6. MapsOK(vmas) /\ Kept(Claims, vmas) /\ Accounted(vmas, MallocClaims, shrunk) /\ AddressInv
  BY DEF MemInv, AddressInv
<1>7. vmas' = Deallocate(vmas, base, size)
  BY <1>1, <1>3
<1>8. Kept(Claims \ {c}, vmas) /\ \A d \in Claims \ {c} : Outside(c.lo, EndOf(c), d.lo, EndOf(d))
  <2>1. \A d \in Claims \ {c} : Outside(c.lo, EndOf(c), d.lo, EndOf(d))
    BY <1>5, <1>6 DEF Kept
  <2> QED
    BY <1>6, <2>1, FewerKept
<1>9. EndOf(c) \in Int /\ c.lo <= base /\ base + RoundUp(size, GuestPage) <= EndOf(c)
  BY <1>5, ClaimEnds
<1>10. /\ MapsOK(vmas') /\ Pieces(vmas', vmas) /\ Kept(Claims \ {c}, vmas')
       /\ base % HostPage = 0 /\ size # 0 =>
            \A w \in vmas' : Outside(w.lo, w.hi, base, base + RoundUp(size, GuestPage))
  BY <1>5, <1>6, <1>7, <1>8, <1>9, DeallocateKeeps
<1>11. AddressInv' /\ MmapClaims(vmas') \subseteq MmapClaims(vmas) /\ Accounted(vmas', MallocClaims, shrunk)
  <2>1. \A d \in MallocClaims : EndOf(d) \in Int
    BY <1>6, ClaimsEnd DEF Claims, OwnClaims
  <2>2. AddressInv'
    BY <1>2, <1>6, <1>10, MappingsCut
  <2> QED
    BY <1>6, <1>10, <2>1, <2>2, PiecesStay
<1>12. CASE base % HostPage # 0
  <2>1. vmas' = vmas
    BY <1>7, <1>12 DEF Deallocate
  <2> QED
    BY <1>2, <1>6, <1>11, <2>1, OtherMemory
<1>13. CASE base % HostPage = 0
  <2>1. c \notin MmapClaims(vmas')
    <3> SUFFICES ASSUME c \in MmapClaims(vmas') PROVE FALSE
      OBVIOUS
    <3>1. PICK w \in vmas' : w.kind = "mmap" /\ c = ClaimOf("mmap", w.base, w.end - w.base)
      BY DEF MmapClaims
    <3>2. w.base = base /\ w.end - w.base = size
      BY <1>5, <3>1, ClaimFields
    <3>3. MappingOK(w) /\ Outside(w.lo, w.hi, base, EndOf(c))
      BY <1>5, <1>10, <1>13 DEF MapsOK
    <3>4. w.end = base + size
      BY <3>2, <3>3 DEF MappingOK
    <3>5. base + size <= EndOf(c)
      BY <1>5, ClaimEnds
    <3> QED
      BY <1>9, <3>2, <3>3, <3>4, <3>5 DEF Outside, MappingOK
  <2>2. MallocClaims' = MallocClaims /\ JitClaims' = JitClaims /\ LoadClaims' = LoadClaims /\ ModuleClaims' = ModuleClaims
    BY <1>2, SameClaims DEF MallocClaims
  <2>3. Claims' \subseteq Claims \ {c}
    <3>1. c \notin OwnClaims
      BY <1>5, ClaimKinds DEF OwnClaims
    <3> QED
      BY <1>11, <2>1, <2>2, <3>1 DEF Claims, OwnClaims, MmapClaims
  <2>4. Kept(Claims', vmas')
    BY <1>10, <2>3, FewerKept
  <2>5. Kept(Claims, vmas)' /\ Accounted(vmas, MallocClaims, shrunk)'
    BY <1>2, <1>11, <2>2, <2>4 DEF Kept, Holds, Accounted
  <2> QED
    BY <1>2, <1>11, <2>5, SameClaims DEF MemInv
<1> QED
  BY <1>12, <1>13

\* Direct memory is allocated and registered.
LEMMA AllocateDirectStep ==
  ASSUME MemInv, NEW t \in Threads, LoaderStays, AllocateDirect(t)
  PROVE  MemInv'
<1>1. PICK size \in Nat : \E o \in Allocations(0, size, "direct") : vmas' = o.vmas /\ bump' = o.bump
  BY MemoryAssumption DEF AllocateDirect, Take
<1>2. PICK o \in Allocations(0, size, "direct") : vmas' = o.vmas /\ bump' = o.bump
  BY <1>1
<1>3. /\ o.bump \in Int /\ Aligned(o.bump, HostPage)
      /\ \/ o.base = None /\ o.vmas = vmas
         \/ /\ o.base # None /\ Fresh(o.base, size)
            /\ o.vmas = vmas \cup {Mapping(o.base, RoundUp(size, GuestPage), "direct")}
  BY AllocationFor
<1>4. UNCHANGED <<brk, allocs, mappings, jit, nextFd, call, shrunk, game, stack, modules>>
  BY DEF AllocateDirect, LoaderStays
<1>5. AddressInv /\ brk' \in Int /\ Kept(Claims, vmas) /\ Accounted(vmas, MallocClaims, shrunk)
  BY <1>4 DEF MemInv, AddressInv
<1>6. CASE vmas' = vmas
  <2>1. AddressInv'
    BY <1>2, <1>3, <1>5, <1>6 DEF AddressInv
  <2> QED
    BY <1>4, <1>5, <1>6, <2>1, OtherMemory
<1>7. CASE vmas' # vmas
  <2>1. PICK base : base = o.base
    OBVIOUS
  <2>2. Fresh(base, size) /\ vmas' = vmas \cup {Mapping(base, RoundUp(size, GuestPage), "direct")}
    BY <1>2, <1>3, <1>7, <2>1
  <2>3. base \in Int /\ RoundUp(size, GuestPage) \in Int
    BY <2>2, Paged DEF Fresh
  <2>4. Kept(Claims, vmas')
    <3>1. vmas \subseteq vmas'
      BY <2>2
    <3> QED
      BY <1>5, <3>1, MoreKept
  <2>5. MmapClaims(vmas') = MmapClaims(vmas) /\ Accounted(vmas', MallocClaims, shrunk)
    <3>1. PICK length \in Int : length = RoundUp(size, GuestPage)
      BY <2>3
    <3>2. vmas' = vmas \cup {Mapping(base, length, "direct")}
      BY <2>2, <3>1
    <3>3. MmapClaims(vmas') = MmapClaims(vmas)
      BY <2>3, <3>1, <3>2, MappingCounts
    <3>4. Accounted(vmas', MallocClaims, shrunk)
      BY <1>5, <3>2, OtherCounts
    <3> QED
      BY <3>3, <3>4
  <2>6. AddressInv'
    <3>1. MapsOK(vmas') /\ Bounded(vmas')
      BY <1>5, <2>2, MappingAdded
    <3> QED
      BY <1>2, <1>3, <1>5, <3>1 DEF AddressInv
  <2> QED
    BY <1>4, <2>4, <2>5, <2>6, OtherMemory
<1> QED
  BY <1>6, <1>7

\* Descriptors and entries change, no memory does.
LEMMA OtherEntries ==
  ASSUME MemInv, JitClaims' \subseteq JitClaims, JitInv', EntryInv',
         UNCHANGED <<vmas, bump, brk, allocs, call, shrunk, game, stack, modules>>
  PROVE  MemInv'
<1>1. MallocClaims' = MallocClaims /\ LoadClaims' = LoadClaims /\ ModuleClaims' = ModuleClaims
  BY SameClaims DEF MallocClaims
<1>2. Claims' \subseteq Claims
  BY <1>1 DEF Claims, OwnClaims, MmapClaims
<1>3. Kept(Claims', vmas)
  BY <1>2, FewerKept DEF MemInv
<1>4. Kept(Claims, vmas)' /\ Accounted(vmas, MallocClaims, shrunk)'
  BY <1>1, <1>3 DEF MemInv, Kept, Holds, Accounted
<1> QED
  BY <1>4, SameClaims DEF MemInv

\* An entry for an address itself.
LEMMA Registered ==
  ASSUME EntryInv, NEW a \in Int, NEW size \in Nat \ {0}, mappings' = Register(mappings, a, a, size)
  PROVE  EntryInv'
<1>1. /\ DOMAIN mappings' = DOMAIN mappings \cup {a} /\ mappings'[a] = [host |-> a, size |-> size]
      /\ \A g \in DOMAIN mappings \ {a} : mappings'[g] = mappings[g]
  BY DEF Register
<1> QED
  BY <1>1 DEF EntryInv

\* Direct memory is mapped where it is.
LEMMA MapDirectStep ==
  ASSUME MemInv, NEW t \in Threads, LoaderStays, MapDirect(t)
  PROVE  MemInv'
<1>1. PICK v \in vmas : mappings' = Register(mappings, v.lo, v.lo, v.hi - v.lo)
  BY DEF MapDirect
<1>2. PICK a \in Int, size \in Nat \ {0} : a = v.lo /\ size = v.hi - v.lo
  <2>1. v.lo \in Int /\ v.hi - v.lo \in Nat \ {0}
    BY DEF MemInv, AddressInv, MapsOK, MappingOK
  <2> QED
    BY <2>1
<1>3. EntryInv'
  BY <1>1, <1>2, Registered DEF MemInv
<1>4. UNCHANGED <<vmas, bump, brk, allocs, jit, nextFd, call, shrunk, game, stack, modules>>
  BY DEF MapDirect, LoaderStays
<1> QED
  BY <1>3, <1>4, SameClaims, OtherEntries DEF MemInv

\* The ring and its words.
LEMMA CreateQueueStep ==
  ASSUME MemInv, NEW t \in Threads, LoaderStays, CreateQueue(t)
  PROVE  MemInv'
<1>1. PICK v \in vmas :
        LET words == v.hi - QueueWords .. v.hi - 1
            sizes == [a \in {v.lo} \cup words |-> IF a \in words THEN 1 ELSE v.hi - QueueWords - v.lo]
        IN  mappings' = [a \in DOMAIN mappings \cup DOMAIN sizes |->
                           IF a \in DOMAIN sizes THEN [host |-> a, size |-> sizes[a]] ELSE mappings[a]]
  BY DEF CreateQueue
<1>2. v.lo \in Int /\ v.hi \in Int /\ v.lo < v.hi
  BY DEF MemInv, AddressInv, MapsOK, MappingOK
<1>3. PICK words : words = v.hi - QueueWords .. v.hi - 1
  OBVIOUS
<1>4. PICK sizes : sizes = [a \in {v.lo} \cup words |-> IF a \in words THEN 1 ELSE v.hi - QueueWords - v.lo]
  OBVIOUS
<1>5. mappings' = [a \in DOMAIN mappings \cup DOMAIN sizes |->
                     IF a \in DOMAIN sizes THEN [host |-> a, size |-> sizes[a]] ELSE mappings[a]]
  BY <1>1, <1>3, <1>4
<1>6. ASSUME NEW a \in DOMAIN sizes PROVE a \in Int /\ sizes[a] \in Nat \ {0}
  <2>1. CASE a \in words
    BY <1>2, <1>3, <1>4, <2>1 DEF QueueWords
  <2>2. CASE a \notin words
    <3>1. a = v.lo /\ sizes[a] = v.hi - 3 - v.lo
      BY <1>4, <2>2 DEF QueueWords
    <3>2. v.lo < v.hi - 3
      BY <1>2, <1>3, <2>2, <3>1 DEF QueueWords
    <3> QED
      BY <1>2, <3>1, <3>2
  <2> QED
    BY <2>1, <2>2
<1>7. EntryInv'
  <2> SUFFICES ASSUME NEW g \in DOMAIN mappings'
               PROVE  g \in Int /\ mappings'[g].host = g /\ mappings'[g].size \in Nat \ {0}
    BY DEF EntryInv
  <2>1. CASE g \in DOMAIN sizes
    <3>1. mappings'[g] = [host |-> g, size |-> sizes[g]]
      BY <1>5, <2>1
    <3> QED
      BY <1>6, <2>1, <3>1
  <2>2. CASE g \notin DOMAIN sizes
    <3>1. g \in DOMAIN mappings /\ mappings'[g] = mappings[g]
      BY <1>5, <2>2
    <3> QED
      BY <3>1 DEF MemInv, EntryInv
  <2> QED
    BY <2>1, <2>2
<1>8. UNCHANGED <<vmas, bump, brk, allocs, jit, nextFd, call, shrunk, game, stack, modules>>
  BY DEF CreateQueue, LoaderStays
<1> QED
  BY <1>7, <1>8, SameClaims, OtherEntries DEF MemInv

-------------------------------------------------------------------------------
\* JIT shared memory.

\* An alias is a descriptor of the same memory.
LEMMA AliasJitStep ==
  ASSUME MemInv, NEW t \in Threads, LoaderStays, AliasJit(t)
  PROVE  MemInv'
<1>1. PICK fd \in DOMAIN jit : AddJit(AliasOf(fd)) /\ nextFd' = nextFd + 1
  BY DEF AliasJit
<1>2. /\ DOMAIN jit' = DOMAIN jit \cup {nextFd} /\ jit'[nextFd] = jit[fd]
      /\ \A f \in DOMAIN jit \ {nextFd} : jit'[f] = jit[f]
  BY <1>1 DEF AddJit, AliasOf
<1>3. nextFd \in Int /\ nextFd \notin DOMAIN jit /\ \A f \in DOMAIN jit : f \in Int /\ f < nextFd
  BY DEF MemInv, JitInv
<1>4. JitClaims' \subseteq JitClaims
  <2> SUFFICES ASSUME NEW c \in JitClaims' PROVE c \in JitClaims
    OBVIOUS
  <2>1. PICK f \in DOMAIN jit' : c = ClaimOf("jit", jit'[f].host, jit'[f].len)
    BY DEF JitClaims
  <2>2. PICK g \in DOMAIN jit : jit'[f] = jit[g]
    BY <1>2
  <2> QED
    BY <2>1, <2>2 DEF JitClaims
<1>5. JitInv'
  <2>1. nextFd' \in Int /\ \A f \in DOMAIN jit' : f \in Int /\ f < nextFd'
    BY <1>1, <1>2, <1>3
  <2>2. ASSUME NEW f \in DOMAIN jit'
        PROVE  /\ DOMAIN jit'[f] = {"of", "host", "len", "guest"}
               /\ jit'[f].of \in DOMAIN jit' /\ jit'[f].host = jit'[jit'[f].of].host
               /\ jit'[f].guest # 0 => jit'[f].guest = jit'[f].host
    <3>1. PICK g \in DOMAIN jit : jit'[f] = jit[g]
      BY <1>2
    <3>2. /\ DOMAIN jit[g] = {"of", "host", "len", "guest"}
          /\ jit[g].of \in DOMAIN jit /\ jit[g].host = jit[jit[g].of].host
          /\ jit[g].guest # 0 => jit[g].guest = jit[g].host
      BY DEF MemInv, JitInv
    <3>3. jit'[jit[g].of] = jit[jit[g].of]
      BY <1>2, <1>3, <3>2
    <3> QED
      BY <1>2, <3>1, <3>2, <3>3
  <2> QED
    BY <2>1, <2>2 DEF JitInv
<1>6. UNCHANGED <<vmas, bump, brk, allocs, mappings, call, shrunk, game, stack, modules>>
  BY DEF AliasJit, LoaderStays
<1> QED
  BY <1>4, <1>5, <1>6, SameClaims, OtherEntries DEF MemInv

\* JIT memory is mapped at its own address.
LEMMA MapJitStep ==
  ASSUME MemInv, NEW t \in Threads, LoaderStays, MapJit(t)
  PROVE  MemInv'
<1>1. PICK fd \in DOMAIN jit :
        /\ mappings' = Register(mappings, jit[fd].host, jit[fd].host, jit[fd].len)
        /\ jit' = [jit EXCEPT ![fd].guest = jit[fd].host]
  BY DEF MapJit
<1>2. PICK host, len : host = jit[fd].host /\ len = jit[fd].len
  OBVIOUS
<1>3. host \in Int /\ len \in Nat \ {0}
  <2>1. PICK c : c = ClaimOf("jit", host, len)
    OBVIOUS
  <2>2. c \in Claims
    BY <1>2, <2>1 DEF Claims, OwnClaims, JitClaims
  <2>3. c.lo = host /\ c.size = len /\ ClaimOK(c)
    BY <2>1, <2>2, ClaimFields DEF MemInv, Kept
  <2> QED
    BY <2>3 DEF ClaimOK
<1>4. EntryInv'
  <2>1. mappings' = Register(mappings, host, host, len)
    BY <1>1, <1>2
  <2> QED
    BY <1>3, <2>1, Registered DEF MemInv
<1>5. ASSUME NEW f \in DOMAIN jit
      PROVE  /\ DOMAIN jit'[f] = {"of", "host", "len", "guest"}
             /\ jit'[f].of = jit[f].of /\ jit'[f].host = jit[f].host /\ jit'[f].len = jit[f].len
             /\ jit'[f].guest # 0 => jit'[f].guest = jit[f].host
  <2>1. DOMAIN jit[f] = {"of", "host", "len", "guest"} /\ (jit[f].guest # 0 => jit[f].guest = jit[f].host)
    BY DEF MemInv, JitInv
  <2>2. CASE f = fd
    <3>1. jit'[f] = [jit[f] EXCEPT !.guest = jit[f].host]
      BY <1>1, <2>2
    <3> QED
      BY <2>1, <3>1
  <2>3. CASE f # fd
    BY <1>1, <2>1, <2>3
  <2> QED
    BY <2>2, <2>3
<1>6. DOMAIN jit' = DOMAIN jit
  BY <1>1
<1>7. JitClaims' \subseteq JitClaims
  BY <1>5, <1>6 DEF JitClaims
<1>8. UNCHANGED <<vmas, bump, brk, allocs, nextFd, call, shrunk, game, stack, modules>>
  BY DEF MapJit, LoaderStays
<1>9. JitInv'
  <2>1. nextFd' \in Int /\ \A f \in DOMAIN jit' : f \in Int /\ f < nextFd'
    BY <1>6, <1>8 DEF MemInv, JitInv
  <2>2. ASSUME NEW f \in DOMAIN jit
        PROVE  jit'[f].of \in DOMAIN jit /\ jit'[f].host = jit'[jit'[f].of].host
    BY <1>5 DEF MemInv, JitInv
  <2> QED
    BY <1>5, <1>6, <2>1, <2>2 DEF JitInv
<1> QED
  BY <1>4, <1>7, <1>8, <1>9, OtherEntries

\* Memory and its descriptor, or neither.
LEMMA CreateJitStep ==
  ASSUME MemInv, NEW t \in Threads, LoaderStays, CreateJit(t)
  PROVE  MemInv'
<1>1. PICK size \in Nat, wanted \in BOOLEAN : \E o \in Allocations(0, size, "jit") :
        /\ bump' = o.bump
        /\ IF o.base # None /\ wanted
             THEN /\ vmas' = o.vmas
                  /\ AddJit([of |-> nextFd, host |-> o.base, len |-> size, guest |-> 0])
                  /\ nextFd' = nextFd + 1
             ELSE /\ vmas' = IF o.base = None THEN vmas ELSE Deallocate(o.vmas, o.base, size)
                  /\ UNCHANGED <<jit, nextFd>>
  BY MemoryAssumption DEF CreateJit
<1>2. PICK o \in Allocations(0, size, "jit") :
        /\ bump' = o.bump
        /\ IF o.base # None /\ wanted
             THEN /\ vmas' = o.vmas
                  /\ AddJit([of |-> nextFd, host |-> o.base, len |-> size, guest |-> 0])
                  /\ nextFd' = nextFd + 1
             ELSE /\ vmas' = IF o.base = None THEN vmas ELSE Deallocate(o.vmas, o.base, size)
                  /\ UNCHANGED <<jit, nextFd>>
  BY <1>1
<1>3. /\ o.bump \in Int /\ Aligned(o.bump, HostPage)
      /\ \/ o.base = None /\ o.vmas = vmas
         \/ /\ o.base # None /\ Fresh(o.base, size)
            /\ o.vmas = vmas \cup {Mapping(o.base, RoundUp(size, GuestPage), "jit")}
  BY AllocationFor
<1>4. UNCHANGED <<brk, allocs, mappings, call, shrunk, game, stack, modules>>
  BY DEF CreateJit, LoaderStays
<1>5. AddressInv /\ brk' \in Int /\ Kept(Claims, vmas) /\ Accounted(vmas, MallocClaims, shrunk)
  BY <1>4 DEF MemInv, AddressInv
<1>6. CASE o.base = None
  <2>1. vmas' = vmas /\ UNCHANGED <<jit, nextFd>>
    BY <1>2, <1>6
  <2>2. AddressInv'
    BY <1>2, <1>3, <1>5, <2>1 DEF AddressInv
  <2> QED
    BY <1>4, <1>5, <2>1, <2>2, OtherMemory
<1>7. CASE o.base # None
  <2>1. PICK base, more : base = o.base /\ more = o.vmas
    OBVIOUS
  <2>2. Fresh(base, size) /\ more = vmas \cup {Mapping(base, RoundUp(size, GuestPage), "jit")}
    BY <1>3, <1>7, <2>1
  <2>3. PICK length \in Int : length = RoundUp(size, GuestPage)
    BY Paged
  <2>4. PICK c : c = ClaimOf("jit", base, size)
    OBVIOUS
  <2>5. Kept(Claims \cup {c}, more) /\ c \notin Claims
    BY <2>2, <2>4, FreshKept
  <2>6. MmapClaims(more) = MmapClaims(vmas) /\ Accounted(more, MallocClaims, shrunk)
    <3>1. more = vmas \cup {Mapping(base, length, "jit")} /\ base \in Int
      BY <2>2, <2>3 DEF Fresh
    <3>2. MmapClaims(more) = MmapClaims(vmas)
      BY <3>1, MappingCounts
    <3>3. Accounted(more, MallocClaims, shrunk)
      BY <1>5, <3>1, OtherCounts
    <3> QED
      BY <3>2, <3>3
  <2>7. MapsOK(more) /\ Bounded(more)
    BY <1>5, <2>2, MappingAdded
  <2>8. MallocClaims' = MallocClaims /\ LoadClaims' = LoadClaims /\ ModuleClaims' = ModuleClaims
    BY <1>4, SameClaims DEF MallocClaims
  <2>9. CASE wanted
    <3>1. vmas' = more /\ nextFd' = nextFd + 1 /\ AddJit([of |-> nextFd, host |-> base, len |-> size, guest |-> 0])
      BY <1>2, <1>7, <2>1, <2>9
    <3>2. /\ DOMAIN jit' = DOMAIN jit \cup {nextFd}
          /\ jit'[nextFd] = [of |-> nextFd, host |-> base, len |-> size, guest |-> 0]
          /\ \A f \in DOMAIN jit \ {nextFd} : jit'[f] = jit[f]
      BY <3>1 DEF AddJit
    <3>3. nextFd \in Int /\ nextFd \notin DOMAIN jit /\ \A f \in DOMAIN jit : f \in Int /\ f < nextFd
      BY DEF MemInv, JitInv
    <3>4. JitClaims' \subseteq JitClaims \cup {c}
      <4> SUFFICES ASSUME NEW d \in JitClaims' PROVE d \in JitClaims \cup {c}
        OBVIOUS
      <4>1. PICK f \in DOMAIN jit' : d = ClaimOf("jit", jit'[f].host, jit'[f].len)
        BY DEF JitClaims
      <4>2. CASE f = nextFd
        BY <2>4, <3>2, <4>1, <4>2
      <4>3. CASE f # nextFd
        BY <3>2, <4>1, <4>3 DEF JitClaims
      <4> QED
        BY <4>2, <4>3
    <3>5. Claims' \subseteq Claims \cup {c}
      BY <2>6, <2>8, <3>1, <3>4 DEF Claims, OwnClaims, MmapClaims
    <3>6. Kept(Claims', vmas')
      BY <2>5, <3>1, <3>5, FewerKept
    <3>7. Kept(Claims, vmas)' /\ Accounted(vmas, MallocClaims, shrunk)'
      BY <1>4, <2>6, <2>8, <3>1, <3>6 DEF Kept, Holds, Accounted
    <3>8. AddressInv'
      BY <1>2, <1>3, <1>5, <2>7, <3>1 DEF AddressInv
    <3>9. JitInv'
      <4>1. nextFd' \in Int /\ \A f \in DOMAIN jit' : f \in Int /\ f < nextFd'
        BY <3>1, <3>2, <3>3
      <4>2. ASSUME NEW f \in DOMAIN jit'
            PROVE  /\ DOMAIN jit'[f] = {"of", "host", "len", "guest"}
                   /\ jit'[f].of \in DOMAIN jit' /\ jit'[f].host = jit'[jit'[f].of].host
                   /\ jit'[f].guest # 0 => jit'[f].guest = jit'[f].host
        <5>1. CASE f = nextFd
          BY <3>2, <5>1
        <5>2. CASE f # nextFd
          <6>1. f \in DOMAIN jit /\ jit'[f] = jit[f]
            BY <3>2, <5>2
          <6>2. /\ DOMAIN jit[f] = {"of", "host", "len", "guest"}
                /\ jit[f].of \in DOMAIN jit /\ jit[f].host = jit[jit[f].of].host
                /\ jit[f].guest # 0 => jit[f].guest = jit[f].host
            BY <6>1 DEF MemInv, JitInv
          <6>3. jit'[jit[f].of] = jit[jit[f].of]
            BY <3>2, <3>3, <6>2
          <6> QED
            BY <3>2, <6>1, <6>2, <6>3
        <5> QED
          BY <5>1, <5>2
      <4> QED
        BY <4>1, <4>2 DEF JitInv
    <3> QED
      BY <1>4, <3>7, <3>8, <3>9, SameClaims DEF MemInv
  <2>10. CASE ~wanted
    <3>1. vmas' = Deallocate(more, base, size) /\ UNCHANGED <<jit, nextFd>>
      BY <1>2, <1>7, <2>1, <2>10
    <3>2. c.lo = base /\ EndOf(c) = base + length /\ ClaimOK(c) /\ base \in Int
      BY <2>2, <2>3, <2>4, ClaimFields DEF Fresh
    <3>3. Kept(Claims, more) /\ \A d \in Claims : Outside(c.lo, EndOf(c), d.lo, EndOf(d))
      <4>1. \A d \in Claims : Outside(c.lo, EndOf(c), d.lo, EndOf(d))
        BY <2>5 DEF Kept
      <4> QED
        BY <2>5, <4>1, FewerKept
    <3>4. c.lo <= base /\ base + RoundUp(size, GuestPage) <= EndOf(c)
      BY <2>3, <3>2
    <3>5. MapsOK(vmas') /\ Pieces(vmas', more) /\ Kept(Claims, vmas')
      BY <2>7, <3>1, <3>2, <3>3, <3>4, DeallocateKeeps
    <3>6. Bounded(vmas') /\ MmapClaims(vmas') \subseteq MmapClaims(more) /\ Accounted(vmas', MallocClaims, shrunk)
      <4>1. \A d \in MallocClaims : EndOf(d) \in Int
        BY <1>5, ClaimsEnd DEF Claims, OwnClaims
      <4> QED
        BY <2>6, <2>7, <3>5, <4>1, PiecesStay
    <3>7. AddressInv'
      BY <1>2, <1>3, <1>5, <3>5, <3>6 DEF AddressInv
    <3> QED
      BY <1>4, <2>6, <3>1, <3>5, <3>6, <3>7, OtherMemory
  <2> QED
    BY <2>9, <2>10
<1> QED
  BY <1>6, <1>7

-------------------------------------------------------------------------------
\* All memory calls of the guest.

\* Every memory call of the guest keeps the invariant.
LEMMA MemoryStep ==
  ASSUME MemInv, NEW t \in Threads, LoaderStays, Memory(t)
  PROVE  MemInv'
<1>1. CASE Malloc(t) \/ Calloc(t) \/ CreateShader(t) \/ CreateBinary(t)
  BY <1>1, MallocSteps
<1>2. CASE RecordMalloc(t)
  BY <1>2, RecordMallocStep
<1>3. ASSUME NEW a, Free(t, a) \/ Realloc(t, a) PROVE MemInv'
  BY <1>3, FreeStep, ReallocStep
<1>4. CASE Shrink(t) \/ Grow(t) \/ FreeOld(t)
  BY <1>4, ShrinkStep, GrowStep, FreeOldStep
<1>5. CASE Obreak(t) \/ Mmap(t) \/ Munmap(t)
  BY <1>5, ObreakStep, MmapStep, MunmapStep
<1>6. CASE AllocateDirect(t) \/ MapDirect(t) \/ CreateQueue(t)
  BY <1>6, AllocateDirectStep, MapDirectStep, CreateQueueStep
<1>7. CASE CreateJit(t) \/ AliasJit(t) \/ MapJit(t)
  BY <1>7, CreateJitStep, AliasJitStep, MapJitStep
<1> QED
  BY <1>1, <1>2, <1>3, <1>4, <1>5, <1>6, <1>7 DEF Memory

-------------------------------------------------------------------------------
\* Loads that leave memory alone.

\* Frames with memory are those that had it.
BasesStay ==
  \A t \in Threads : \A i \in 1 .. Len(stack'[t]) : Based(stack'[t][i]) =>
    /\ i \in 1 .. Len(stack[t]) /\ Based(stack[t][i])
    /\ stack'[t][i].base = stack[t][i].base /\ stack'[t][i].image = stack[t][i].image

\* Frames that keep their memory claim no more.
LEMMA BasesStayClaimed ==
  ASSUME BasesStay
  PROVE  LoadClaims' \subseteq LoadClaims
<1> SUFFICES ASSUME NEW c \in LoadClaims' PROVE c \in LoadClaims
  OBVIOUS
<1>0. PICK t \in Threads : \E i \in 1 .. Len(stack'[t]) : Based(stack'[t][i]) /\ c = LoadClaim(stack'[t][i])
  BY DEF LoadClaims, Based, LoadClaim
<1>1. PICK i \in 1 .. Len(stack'[t]) : Based(stack'[t][i]) /\ c = LoadClaim(stack'[t][i])
  BY <1>0
<1>2. /\ i \in 1 .. Len(stack[t]) /\ Based(stack[t][i])
      /\ stack'[t][i].base = stack[t][i].base /\ stack'[t][i].image = stack[t][i].image
  BY <1>1 DEF BasesStay
<1>3. c = LoadClaim(stack[t][i])
  BY <1>1, <1>2 DEF LoadClaim
<1> QED
  BY <1>2, <1>3 DEF LoadClaims

\* They stay apart as well.
LEMMA FramesApart ==
  ASSUME BaseInv, BasesStay, UNCHANGED modules
  PROVE  BaseInv'
<1>1. modules' = modules /\ BaseInv
  OBVIOUS
<1>2. ASSUME NEW t \in Threads, NEW i \in 1 .. Len(stack'[t]), Based(stack'[t][i])
      PROVE  /\ i \in 1 .. Len(stack[t]) /\ Based(stack[t][i]) /\ stack'[t][i].base = stack[t][i].base
             /\ Aligned(stack[t][i].base, HostPage)
  <2>1. i \in 1 .. Len(stack[t]) /\ Based(stack[t][i]) /\ stack'[t][i].base = stack[t][i].base
    BY <1>2 DEF BasesStay
  <2> QED
    BY <1>1, <2>1 DEF BaseInv
<1>3. ASSUME NEW t \in Threads, NEW u \in Threads, NEW i \in 1 .. Len(stack'[t]), NEW j \in 1 .. Len(stack'[u]),
             Based(stack'[t][i]), Based(stack'[u][j]), stack'[t][i].base = stack'[u][j].base
      PROVE  t = u /\ i = j
  <2>1. i \in 1 .. Len(stack[t]) /\ Based(stack[t][i]) /\ stack'[t][i].base = stack[t][i].base
    BY <1>2, <1>3
  <2>2. j \in 1 .. Len(stack[u]) /\ Based(stack[u][j]) /\ stack'[u][j].base = stack[u][j].base
    BY <1>2, <1>3
  <2>3. stack[t][i].base = stack[u][j].base
    BY <1>3, <2>1, <2>2
  <2> QED
    BY <1>1, <2>1, <2>2, <2>3 DEF BaseInv
<1>4. ASSUME NEW t \in Threads, NEW i \in 1 .. Len(stack'[t]), NEW id \in DOMAIN modules, Based(stack'[t][i])
      PROVE  stack'[t][i].base # modules[id].base
  <2>1. i \in 1 .. Len(stack[t]) /\ Based(stack[t][i]) /\ stack'[t][i].base = stack[t][i].base
    BY <1>2, <1>4
  <2> QED
    BY <1>1, <2>1 DEF BaseInv
<1>5. \A id \in DOMAIN modules' : Aligned(modules'[id].base, HostPage)
  BY <1>1 DEF BaseInv
<1>6. \A id, jd \in DOMAIN modules' : modules'[id].base = modules'[jd].base => id = jd
  BY <1>1 DEF BaseInv
<1> QED
  BY <1>1, <1>2, <1>3, <1>4, <1>5, <1>6 DEF BaseInv, Based

\* A step that leaves memory and modules alone, up to the bump pointer.
LEMMA BumpStays ==
  ASSUME MemInv, BasesStay, UNCHANGED <<game, modules>>,
         UNCHANGED <<vmas, brk, allocs, mappings, jit, nextFd, call, shrunk>>,
         bump' \in Int, Aligned(bump', HostPage)
  PROVE  MemInv'
<1>1. MallocClaims' = MallocClaims /\ JitClaims' = JitClaims /\ ModuleClaims' = ModuleClaims
  BY SameClaims DEF MallocClaims
<1>2. Claims' \subseteq Claims
  BY <1>1, BasesStayClaimed DEF Claims, OwnClaims, MmapClaims
<1>3. Kept(Claims', vmas)
  BY <1>2, FewerKept DEF MemInv
<1>4. Kept(Claims, vmas)' /\ Accounted(vmas, MallocClaims, shrunk)'
  BY <1>1, <1>3 DEF MemInv, Kept, Holds, Accounted
<1>5. BaseInv'
  BY FramesApart DEF MemInv
<1>6. AddressInv'
  BY DEF MemInv, AddressInv
<1> QED
  BY <1>4, <1>5, <1>6, SameClaims DEF MemInv

\* A step that leaves memory and modules alone.
LEMMA FramesStay ==
  ASSUME MemInv, BasesStay, UNCHANGED <<game, modules>>, UNCHANGED memoryVars
  PROVE  MemInv'
<1>1. bump' \in Int /\ Aligned(bump', HostPage)
  BY DEF MemInv, AddressInv, memoryVars
<1>2. UNCHANGED <<vmas, brk, allocs, mappings, jit, nextFd, call, shrunk>>
  BY DEF memoryVars
<1> QED
  BY <1>1, <1>2, BumpStays

Replaces(s, f, u) == u = [s EXCEPT ![Len(s)] = f]

\* The last frame is replaced.
LEMMA Replaced ==
  ASSUME NEW s, IsSeq(s), s # << >>, NEW f, NEW u, Replaces(s, f, u)
  PROVE  /\ IsSeq(u) /\ Len(u) = Len(s) /\ u[Len(s)] = f
         /\ \A i \in 1 .. Len(s) - 1 : u[i] = s[i]
<1> DEFINE v == [s EXCEPT ![Len(s)] = f]
<1>1. IsSeq(v) /\ Len(v) = Len(s) /\ v[Len(s)] = f /\ \A i \in 1 .. Len(s) - 1 : v[i] = s[i]
  BY TopReplaced
<1>2. u = v
  BY DEF Replaces
<1> HIDE DEF v
<1> QED
  BY <1>1, <1>2

\* The active frame goes on, with the memory it had if it has any.
LEMMA TopGoesOn ==
  ASSUME StackInv, NEW t \in Threads, stack[t] # << >>, NEW f, Continues(t, f)
  PROVE  /\ Len(stack[t]) \in Nat /\ Len(stack[t]) \in 1 .. Len(stack[t]) /\ Top(t) = stack[t][Len(stack[t])]
         /\ Len(stack'[t]) = Len(stack[t]) /\ stack'[t][Len(stack[t])] = f
         /\ \A i \in 1 .. Len(stack[t]) - 1 : stack'[t][i] = stack[t][i]
         /\ \A u \in Threads \ {t} : stack'[u] = stack[u]
<1>1. PICK s : s = stack[t]
  OBVIOUS
<1>2. PICK u : u = [s EXCEPT ![Len(s)] = f]
  OBVIOUS
<1>3. IsSeq(s) /\ s # << >> /\ Len(s) \in Nat /\ Top(t) = s[Len(s)] /\ Len(s) \in 1 .. Len(s)
  BY <1>1, TopFrame DEF StackInv
<1>4. Len(u) = Len(s) /\ u[Len(s)] = f /\ \A i \in 1 .. Len(s) - 1 : u[i] = s[i]
  <2>1. IsSeq(s) /\ s # << >>
    BY <1>3
  <2>2. Replaces(s, f, u)
    BY <1>2 DEF Replaces
  <2> QED
    BY <2>1, <2>2, Replaced
<1>5. stack' = [stack EXCEPT ![t] = u]
  BY <1>1, <1>2 DEF Continues
<1>6. stack'[t] = u /\ \A w \in Threads \ {t} : stack'[w] = stack[w]
  BY <1>5 DEF StackInv
<1> QED
  BY <1>1, <1>3, <1>4, <1>6

\* It goes on with the memory it had, if it has any.
LEMMA ContinuesStays ==
  ASSUME StackInv, NEW t \in Threads, stack[t] # << >>, NEW f, Continues(t, f),
         Based(f) => Based(Top(t)) /\ f.base = Top(t).base /\ f.image = Top(t).image
  PROVE  BasesStay
<1>1. PICK s : s = stack[t]
  OBVIOUS
<1>2. PICK u : u = stack'[t]
  OBVIOUS
<1>3. Len(s) \in Nat /\ Top(t) = s[Len(s)] /\ Len(s) \in 1 .. Len(s)
  BY <1>1, TopGoesOn
<1>4. Len(u) = Len(s) /\ u[Len(s)] = f /\ \A i \in 1 .. Len(s) - 1 : u[i] = s[i]
  BY <1>1, <1>2, TopGoesOn
<1>5. \A w \in Threads \ {t} : stack'[w] = stack[w]
  BY TopGoesOn
<1>6. \A i \in 1 .. Len(s) : i = Len(s) \/ i \in 1 .. Len(s) - 1
  BY <1>3
<1>7. ASSUME NEW i \in 1 .. Len(u), Based(u[i])
      PROVE  i \in 1 .. Len(s) /\ Based(s[i]) /\ u[i].base = s[i].base /\ u[i].image = s[i].image
  BY <1>3, <1>4, <1>6, <1>7
<1> QED
  BY <1>1, <1>2, <1>5, <1>7 DEF BasesStay

\* The active frame ends.
LEMMA EndsStays ==
  ASSUME StackInv, NEW t \in Threads, stack[t] # << >>, stack' = [stack EXCEPT ![t] = Front(@)]
  PROVE  BasesStay /\ Len(stack'[t]) = Len(stack[t]) - 1 /\ Len(stack[t]) \in Nat
<1>1. PICK s : s = stack[t]
  OBVIOUS
<1>2. PICK u : u = Front(s)
  OBVIOUS
<1>3. IsSeq(s) /\ s # << >> /\ Len(s) \in Nat /\ Len(s) >= 1
  BY <1>1, SeqLength DEF StackInv
<1>4. Len(u) = Len(s) - 1 /\ \A i \in 1 .. Len(s) - 1 : u[i] = s[i]
  BY <1>2, <1>3, Popped
<1>5. stack' = [stack EXCEPT ![t] = u]
  BY <1>1, <1>2
<1>6. stack'[t] = u /\ \A w \in Threads \ {t} : stack'[w] = stack[w]
  BY <1>5 DEF StackInv
<1>7. \A i \in 1 .. Len(u) : i \in 1 .. Len(s) - 1 /\ i \in 1 .. Len(s)
  BY <1>3, <1>4
<1>8. BasesStay
  BY <1>1, <1>4, <1>6, <1>7 DEF BasesStay
<1> QED
  BY <1>1, <1>3, <1>4, <1>6, <1>8

\* A frame that begins has no memory yet.
LEMMA BeginsStays ==
  ASSUME StackInv, NEW t \in Threads, NEW path, NEW dep, stack' = [stack EXCEPT ![t] = <<Frame(path, dep)>>]
  PROVE  BasesStay
<1>1. PICK f : f = Frame(path, dep)
  OBVIOUS
<1>2. ~Based(f)
  BY <1>1 DEF Frame, Based
<1>3. PICK u : u = <<f>>
  OBVIOUS
<1>4. Len(u) = 1 /\ u[1] = f
  BY <1>3
<1>5. stack' = [stack EXCEPT ![t] = u]
  BY <1>1, <1>3
<1>6. stack'[t] = u /\ \A w \in Threads \ {t} : stack'[w] = stack[w]
  BY <1>5 DEF StackInv
<1>7. \A i \in 1 .. Len(u) : u[i] = f
  BY <1>4
<1> QED
  BY <1>2, <1>6, <1>7 DEF BasesStay

\* It goes to another phase.
LEMMA GoesStays ==
  ASSUME StackInv, NEW t \in Threads, stack[t] # << >>, Based(Top(t)), NEW phase, NEW i, Goes(t, phase, i)
  PROVE  BasesStay
<1>1. PICK g : g = Top(t)
  OBVIOUS
<1>2. PICK f : f = [g EXCEPT !.phase = phase, !.i = i]
  OBVIOUS
<1>3. DOMAIN g = FrameFields
  BY <1>1, TopFrame DEF FrameOK
<1>4. f.base = g.base /\ f.image = g.image
  BY <1>2, <1>3 DEF FrameFields
<1>5. Continues(t, f)
  BY <1>1, <1>2 DEF Goes
<1> QED
  BY <1>1, <1>4, <1>5, ContinuesStays

\* The steps of a load that touch neither memory nor the table of modules.
LEMMA ReadFileKeeps ==
  ASSUME IInv, MemInv, NEW t \in Threads, ReadFile(t)
  PROVE  MemInv'
<1>1. StackInv /\ stack[t] # << >> /\ Top(t).phase = "read" /\ UNCHANGED <<game, modules>> /\ UNCHANGED memoryVars
  BY DEF IInv, ReadFile, Is, Active, tableVars
<1>2. CASE stack' = [stack EXCEPT ![t] = Front(@)]
  BY <1>1, <1>2, EndsStays, FramesStay
<1>3. ASSUME NEW f, f = [Top(t) EXCEPT !.phase = "map", !.image = Image(Files[Top(t).path])], Continues(t, f)
      PROVE  MemInv'
  <2>1. DOMAIN Top(t) = FrameFields
    BY <1>1, TopFrame DEF FrameOK
  <2>2. f.phase = "map"
    BY <1>3, <2>1 DEF FrameFields
  <2>3. ~Based(f)
    BY <2>2 DEF Based
  <2>4. BasesStay
    BY <1>1, <1>3, <2>3, ContinuesStays
  <2> QED
    BY <1>1, <2>4, FramesStay
<1> QED
  BY <1>2, <1>3 DEF ReadFile, Fails

\* A symbol is registered.
LEMMA ExportKeeps ==
  ASSUME IInv, MemInv, NEW t \in Threads, Export(t)
  PROVE  MemInv'
<1>1. StackInv /\ stack[t] # << >> /\ Top(t).phase = "export" /\ UNCHANGED <<game, modules>> /\ UNCHANGED memoryVars
  BY DEF IInv, Export, Is, Active, tableVars
<1>2. PICK phase, i : Goes(t, phase, i)
  BY DEF Export
<1>3. Based(Top(t))
  BY <1>1 DEF Based
<1> QED
  BY <1>1, <1>2, <1>3, GoesStays, FramesStay

\* A relocation is applied.
LEMMA RelocateKeeps ==
  ASSUME IInv, MemInv, NEW t \in Threads, Relocate(t)
  PROVE  MemInv'
<1>1. StackInv /\ stack[t] # << >> /\ Top(t).phase = "relocate" /\ UNCHANGED <<game, modules>> /\ UNCHANGED memoryVars
  BY DEF IInv, Relocate, Is, Active, tableVars
<1>2. PICK phase, i : Goes(t, phase, i)
  BY DEF Relocate
<1>3. Based(Top(t))
  BY <1>1 DEF Based
<1> QED
  BY <1>1, <1>2, <1>3, GoesStays, FramesStay

\* A library that is needed begins to load above the frame that needs it.
LEMMA PushStays ==
  ASSUME StackInv, NEW t \in Threads, stack[t] # << >>, Based(Top(t)), NEW i, NEW path,
         stack' = [stack EXCEPT ![t] = Append([@ EXCEPT ![Len(@)] = [Top(t) EXCEPT !.i = i]], Frame(path, TRUE))]
  PROVE  BasesStay
<1>1. PICK s : s = stack[t]
  OBVIOUS
<1>2. PICK f : f = [Top(t) EXCEPT !.i = i]
  OBVIOUS
<1>3. PICK g : g = Frame(path, TRUE)
  OBVIOUS
<1>4. PICK v : v = [s EXCEPT ![Len(s)] = f]
  OBVIOUS
<1>5. PICK u : u = Append(v, g)
  OBVIOUS
<1>6. IsSeq(s) /\ s # << >> /\ Len(s) \in Nat /\ Top(t) = s[Len(s)] /\ Len(s) \in 1 .. Len(s)
  BY <1>1, TopFrame DEF StackInv
<1>7. DOMAIN Top(t) = FrameFields
  BY TopFrame DEF FrameOK
<1>8. f.base = Top(t).base /\ f.image = Top(t).image
  BY <1>2, <1>7 DEF FrameFields
<1>9. ~Based(g)
  BY <1>3 DEF Frame, Based
<1>10. IsSeq(v) /\ Len(v) = Len(s) /\ v[Len(s)] = f /\ \A j \in 1 .. Len(s) - 1 : v[j] = s[j]
  <2>1. Replaces(s, f, v) /\ IsSeq(s) /\ s # << >>
    BY <1>4, <1>6 DEF Replaces
  <2> QED
    BY <2>1, Replaced
<1>11. Len(u) = Len(v) + 1 /\ u[Len(v) + 1] = g /\ \A j \in 1 .. Len(v) : u[j] = v[j]
  <2>1. Pushes(v, g, u) /\ IsSeq(v)
    BY <1>5, <1>10 DEF Pushes
  <2> QED
    BY <2>1, Pushed
<1>12. stack' = [stack EXCEPT ![t] = u]
  BY <1>1, <1>2, <1>3, <1>4, <1>5
<1>13. stack'[t] = u /\ \A w \in Threads \ {t} : stack'[w] = stack[w]
  BY <1>12 DEF StackInv
<1>14. \A j \in 1 .. Len(u) : j = Len(s) + 1 \/ j = Len(s) \/ j \in 1 .. Len(s) - 1
  BY <1>6, <1>10, <1>11
<1>15. ASSUME NEW j \in 1 .. Len(u), Based(u[j])
       PROVE  j \in 1 .. Len(s) /\ Based(s[j]) /\ u[j].base = s[j].base /\ u[j].image = s[j].image
  <2>1. CASE j = Len(s) + 1
    BY <1>9, <1>10, <1>11, <1>15, <2>1
  <2>2. CASE j = Len(s)
    BY <1>6, <1>8, <1>10, <1>11, <1>15, <2>2
  <2>3. CASE j \in 1 .. Len(s) - 1
    <3>1. j \in 1 .. Len(s)
      BY <1>6, <2>3
    <3> QED
      BY <1>10, <1>11, <1>15, <2>3, <3>1
  <2> QED
    BY <1>14, <2>1, <2>2, <2>3
<1> QED
  BY <1>1, <1>13, <1>15 DEF BasesStay

\* The next library that is needed is looked for.
LEMMA NeedKeeps ==
  ASSUME IInv, MemInv, NEW t \in Threads, Need(t)
  PROVE  MemInv'
<1>1. StackInv /\ stack[t] # << >> /\ Top(t).phase = "needs" /\ UNCHANGED <<game, modules>> /\ UNCHANGED memoryVars
  BY DEF IInv, Need, Is, Active, tableVars
<1>2. Based(Top(t))
  BY <1>1 DEF Based
<1>3. ASSUME NEW f, NEW with, f = [Top(t) EXCEPT !.phase = "relocate", !.i = 1, !.with = with], Continues(t, f)
      PROVE  MemInv'
  <2>1. DOMAIN Top(t) = FrameFields
    BY <1>1, TopFrame DEF FrameOK
  <2>2. f.base = Top(t).base /\ f.image = Top(t).image
    BY <1>3, <2>1 DEF FrameFields
  <2>3. BasesStay
    BY <1>1, <1>2, <1>3, <2>2, ContinuesStays
  <2> QED
    BY <1>1, <2>3, FramesStay
<1>4. ASSUME NEW phase, NEW i, Goes(t, phase, i) PROVE MemInv'
  BY <1>1, <1>2, <1>4, GoesStays, FramesStay
<1>5. CASE UNCHANGED stack
  <2>1. BasesStay
    BY <1>5 DEF BasesStay
  <2> QED
    BY <1>1, <2>1, FramesStay
<1>6. ASSUME NEW i, NEW path,
             stack' = [stack EXCEPT ![t] = Append([@ EXCEPT ![Len(@)] = [Top(t) EXCEPT !.i = i]], Frame(path, TRUE))]
      PROVE  MemInv'
  <2>1. BasesStay
    BY <1>1, <1>2, <1>6, PushStays
  <2> QED
    BY <1>1, <2>1, FramesStay
<1> QED
  BY <1>3, <1>4, <1>5, <1>6 DEF Need

\* A missing import is called.
LEMMA CallImportKeeps ==
  ASSUME MemInv, NEW t \in Threads, CallImport(t)
  PROVE  MemInv'
<1>1. stack' = stack /\ UNCHANGED <<game, modules>> /\ UNCHANGED memoryVars
  BY DEF CallImport
<1>2. BasesStay
  BY <1>1 DEF BasesStay
<1> QED
  BY <1>1, <1>2, FramesStay

\* Loads that begin, and steps of nobody.
LEMMA BeginKeeps ==
  ASSUME IInv, MemInv,
         \/ Start
         \/ \E t \in Threads : LoadStartModule(t)
         \/ UNCHANGED vars
  PROVE  MemInv'
<1>1. StackInv
  BY DEF IInv
<1>2. CASE Start
  <2>1. BasesStay
    BY <1>1, <1>2, BeginsStays, LoaderAssumption DEF Start
  <2>2. UNCHANGED <<game, modules>> /\ UNCHANGED memoryVars
    BY <1>2 DEF Start, tableVars
  <2> QED
    BY <2>1, <2>2, FramesStay
<1>3. ASSUME NEW t \in Threads, LoadStartModule(t) PROVE MemInv'
  <2>1. PICK path : stack' = [stack EXCEPT ![t] = <<Frame(path, FALSE)>>]
    BY <1>3 DEF LoadStartModule
  <2>2. BasesStay
    BY <1>1, <2>1, BeginsStays
  <2>3. UNCHANGED <<game, modules>> /\ UNCHANGED memoryVars
    BY <1>3 DEF LoadStartModule, tableVars
  <2> QED
    BY <2>2, <2>3, FramesStay
<1>6. CASE UNCHANGED vars
  <2>1. stack' = stack /\ UNCHANGED <<game, modules>> /\ UNCHANGED memoryVars
    BY <1>6 DEF vars, loaderVars
  <2>2. BasesStay
    BY <2>1 DEF BasesStay
  <2> QED
    BY <2>1, <2>2, FramesStay
<1> QED
  BY <1>2, <1>3, <1>6

-------------------------------------------------------------------------------
\* Images.

\* The segments of a file lie in its image, and give back pages of it only.
SegmentsOK(image) ==
  /\ image.size \in Nat \ {0} /\ image.min \in Nat
  /\ Len(image.segments) \in Nat /\ DOMAIN image.segments = 1 .. Len(image.segments)
  /\ \A i \in 1 .. Len(image.segments) :
       LET s  == image.segments[i]
           at == s.va - image.min
       IN  /\ s.va \in Nat /\ s.size \in Nat
           /\ s.size # 0 => 0 <= at /\ at + s.size <= image.size
           /\ s.size # 0 /\ at % HostPage = 0 => at + RoundUp(s.size, GuestPage) <= RoundUp(image.size, GuestPage)

\* The numbers of headers.
LEMMA HeaderFields ==
  ASSUME NEW h \in Seq(LoadHeader)
  PROVE  /\ Len(h) \in Nat /\ DOMAIN h = 1 .. Len(h)
         /\ \A i \in 1 .. Len(h) : h[i].va \in Nat /\ h[i].memsz \in Nat
<1>1. Len(h) \in Nat /\ DOMAIN h = 1 .. Len(h) /\ \A i \in 1 .. Len(h) : h[i] \in LoadHeader
  OBVIOUS
<1>2. \A x \in LoadHeader : x.va \in Nat /\ x.memsz \in Nat
  BY DEF LoadHeader
<1> QED
  BY <1>1, <1>2

\* The first segments of a file end by an address.
EndBy(h, k, n) == \A i \in 1 .. Len(h) : i <= k => h[i].va + h[i].memsz <= n

\* The segments of a file end somewhere.
LEMMA HeadersEnd ==
  ASSUME NEW h \in Seq(LoadHeader)
  PROVE  \E n \in Int : \A i \in 1 .. Len(h) : h[i].va + h[i].memsz <= n
<1> DEFINE T == {k \in Nat : \E n \in Int : EndBy(h, k, n)}
<1>1. Len(h) \in Nat /\ \A i \in 1 .. Len(h) : h[i].va \in Nat /\ h[i].memsz \in Nat
  BY HeaderFields
<1>2. 0 \in T
  <2>1. EndBy(h, 0, 0)
    BY <1>1 DEF EndBy
  <2> QED
    BY <2>1
<1>3. ASSUME NEW k \in T PROVE k + 1 \in T
  <2>1. PICK n \in Int : EndBy(h, k, n)
    OBVIOUS
  <2>2. \E p \in Int : EndBy(h, k + 1, p)
    <3>1. CASE k + 1 \in 1 .. Len(h)
      <4>1. PICK m \in Int : m = h[k + 1].va + h[k + 1].memsz
        BY <1>1, <3>1
      <4>2. PICK p \in Int : p = IF n < m THEN m ELSE n
        OBVIOUS
      <4>3. \A i \in 1 .. Len(h) : i <= k + 1 => i <= k \/ i = k + 1
        BY <1>1
      <4>4. ASSUME NEW i \in 1 .. Len(h), i <= k + 1 PROVE h[i].va + h[i].memsz <= p
        <5>1. CASE i = k + 1
          BY <4>1, <4>2, <5>1
        <5>2. CASE i <= k
          <6>1. h[i].va + h[i].memsz <= n
            BY <2>1, <5>2 DEF EndBy
          <6>2. PICK e \in Int : e = h[i].va + h[i].memsz
            BY <1>1
          <6> QED
            BY <4>2, <6>1, <6>2
        <5> QED
          BY <4>3, <4>4, <5>1, <5>2
      <4>5. EndBy(h, k + 1, p)
        BY <4>4 DEF EndBy
      <4> QED
        BY <4>5
    <3>2. CASE k + 1 \notin 1 .. Len(h)
      <4>1. \A i \in 1 .. Len(h) : i <= k + 1 => i <= k
        BY <1>1, <3>2
      <4>2. EndBy(h, k + 1, n)
        BY <2>1, <4>1 DEF EndBy
      <4> QED
        BY <4>2
    <3> QED
      BY <3>1, <3>2
  <2> QED
    BY <2>2
<1>4. T = Nat
  <2> HIDE DEF T
  <2>1. T \in SUBSET Nat
    BY DEF T
  <2> QED
    BY <1>2, <1>3, <2>1, NumbersFromZero
<1>5. PICK n \in Int : EndBy(h, Len(h), n)
  BY <1>1, <1>4
<1>6. \A i \in 1 .. Len(h) : i <= Len(h)
  BY <1>1
<1>7. \A i \in 1 .. Len(h) : h[i].va + h[i].memsz <= n
  BY <1>5, <1>6 DEF EndBy
<1> QED
  BY <1>7

\* The range of the segments with a size.
LEMMA VaddrRange ==
  ASSUME NEW b, LoadHeaders(b) \in Seq(LoadHeader), Occupied(b) # {}
  PROVE  /\ MinVaddr(b) \in Nat /\ MaxVaddr(b) \in Int /\ MinVaddr(b) < MaxVaddr(b)
         /\ \A i \in Occupied(b) : MinVaddr(b) <= LoadHeaders(b)[i].va
                                     /\ LoadHeaders(b)[i].va + LoadHeaders(b)[i].memsz <= MaxVaddr(b)
<1>1. PICK h \in Seq(LoadHeader) : h = LoadHeaders(b)
  OBVIOUS
<1>2. DOMAIN h = 1 .. Len(h) /\ \A i \in DOMAIN h : h[i].va \in Nat /\ h[i].memsz \in Nat
  BY HeaderFields
<1>3. Occupied(b) = {i \in DOMAIN h : h[i].memsz > 0}
  BY <1>1 DEF Occupied
<1> DEFINE low  == {h[i].va : i \in Occupied(b)}
           high == {h[i].va + h[i].memsz : i \in Occupied(b)}
<1>4. low \in SUBSET Nat /\ low # {} /\ high \in SUBSET Int /\ high # {}
  <2>1. \A i \in Occupied(b) : h[i].va \in Nat /\ h[i].va + h[i].memsz \in Int
    BY <1>2, <1>3
  <2> QED
    BY <2>1
<1>5. PICK n \in Int : \A i \in 1 .. Len(h) : h[i].va + h[i].memsz <= n
  BY HeadersEnd
<1>6. \A x \in high : x <= n
  BY <1>2, <1>3, <1>5
<1>7. MinVaddr(b) = Min(low) /\ MaxVaddr(b) = Max(high)
  BY <1>1 DEF MinVaddr, MaxVaddr
<1>8. Min(low) \in low /\ \A x \in low : Min(low) <= x
  <2> HIDE DEF low
  <2> QED
    BY <1>4, LeastIsMin
<1>9. Max(high) \in high /\ \A x \in high : x <= Max(high)
  <2> HIDE DEF high
  <2> QED
    BY <1>4, <1>6, GreatestNumber
<1>10. ASSUME NEW i \in Occupied(b)
       PROVE  MinVaddr(b) <= h[i].va /\ h[i].va + h[i].memsz <= MaxVaddr(b) /\ h[i].memsz > 0 /\ h[i].va \in Nat
                /\ h[i].memsz \in Nat
  <2>1. h[i].va \in low /\ h[i].va + h[i].memsz \in high
    OBVIOUS
  <2> HIDE DEF low, high
  <2> QED
    BY <1>2, <1>3, <1>7, <1>8, <1>9, <2>1
<1>11. MinVaddr(b) \in Nat /\ MaxVaddr(b) \in Int
  <2> HIDE DEF low, high
  <2> QED
    BY <1>4, <1>7, <1>8, <1>9
<1>12. PICK i \in Occupied(b) : TRUE
  OBVIOUS
<1>13. MinVaddr(b) < MaxVaddr(b)
  BY <1>10, <1>11, <1>12
<1> QED
  BY <1>1, <1>10, <1>11, <1>13

\* A file's image has its segments in it.
LEMMA ImageBounds ==
  ASSUME game \in DOMAIN Games, NEW p \in DOMAIN Files, Loadable(Files[p])
  PROVE  SegmentsOK(Image(Files[p]))
<1>1. PICK b : b = Plain(Files[p])
  OBVIOUS
<1>2. LoadHeaders(b) \in Seq(LoadHeader) /\ \A h \in Range(LoadHeaders(b)) : HasOwnPages(b, h)
  BY <1>1, LoaderAssumption DEF Files
<1>3. Occupied(b) # {}
  BY <1>1 DEF Loadable
<1>4. PICK h \in Seq(LoadHeader) : h = LoadHeaders(b)
  BY <1>2
<1>5. /\ MinVaddr(b) \in Nat /\ MaxVaddr(b) \in Int /\ MinVaddr(b) < MaxVaddr(b)
      /\ \A i \in Occupied(b) : MinVaddr(b) <= h[i].va /\ h[i].va + h[i].memsz <= MaxVaddr(b)
  BY <1>2, <1>3, <1>4, VaddrRange
<1>6. PICK image : image = Image(Files[p])
  OBVIOUS
<1>7. /\ image.min = MinVaddr(b) /\ image.size = MaxVaddr(b) - MinVaddr(b)
      /\ image.segments = [i \in DOMAIN h |-> [va |-> h[i].va, size |-> h[i].memsz]]
  BY <1>1, <1>4, <1>6 DEF Image
<1>8. Len(h) \in Nat /\ DOMAIN h = 1 .. Len(h) /\ \A i \in 1 .. Len(h) : h[i] \in LoadHeader
  OBVIOUS
<1>9. Len(image.segments) = Len(h) /\ DOMAIN image.segments = 1 .. Len(h)
  BY <1>7, <1>8
<1>10. ASSUME NEW i \in 1 .. Len(h), NEW s, s = image.segments[i], NEW at, at = s.va - image.min
       PROVE  /\ s.va \in Nat /\ s.size \in Nat
              /\ s.size # 0 => 0 <= at /\ at + s.size <= image.size
              /\ s.size # 0 /\ at % HostPage = 0 => at + RoundUp(s.size, GuestPage) <= RoundUp(image.size, GuestPage)
  <2>1. s.va = h[i].va /\ s.size = h[i].memsz /\ h[i].va \in Nat /\ h[i].memsz \in Nat
    BY <1>7, <1>8, <1>10 DEF LoadHeader
  <2>2. at = h[i].va - MinVaddr(b)
    BY <1>7, <1>10, <2>1
  <2>3. ASSUME s.size # 0 PROVE 0 <= at /\ at + s.size <= image.size
    <3>1. i \in Occupied(b)
      BY <1>4, <1>8, <2>1, <2>3 DEF Occupied
    <3> QED
      BY <1>5, <1>7, <2>1, <2>2, <3>1
  <2>4. ASSUME s.size # 0, at % HostPage = 0
        PROVE  at + RoundUp(s.size, GuestPage) <= RoundUp(image.size, GuestPage)
    <3>1. h[i] \in Range(h)
      BY <1>8 DEF Range
    <3>2. HasOwnPages(b, h[i])
      BY <1>2, <1>4, <3>1
    <3>3. h[i].memsz > 0
      BY <2>1, <2>4
    <3> QED
      BY <1>7, <2>1, <2>2, <2>4, <3>2, <3>3 DEF HasOwnPages
  <2> QED
    BY <2>1, <2>3, <2>4
<1>11. image.size \in Nat \ {0} /\ image.min \in Nat
  BY <1>5, <1>7
<1> QED
  BY <1>6, <1>8, <1>9, <1>10, <1>11 DEF SegmentsOK

-------------------------------------------------------------------------------
\* A file is mapped.

\* Frames with memory are those that had it and one more.
OneMoreFrame(t, n, f) ==
  /\ n \in 1 .. Len(stack'[t]) /\ stack'[t][n] = f
  /\ \A u \in Threads : \A i \in 1 .. Len(stack'[u]) : Based(stack'[u][i]) =>
       \/ u = t /\ i = n
       \/ i \in 1 .. Len(stack[u]) /\ Based(stack[u][i]) /\ stack'[u][i] = stack[u][i]

\* The active frame gets memory.
LEMMA FrameAdded ==
  ASSUME StackInv, NEW t \in Threads, stack[t] # << >>, NEW f, Continues(t, f)
  PROVE  OneMoreFrame(t, Len(stack[t]), f)
<1>1. /\ Len(stack[t]) \in Nat /\ Len(stack[t]) \in 1 .. Len(stack[t])
      /\ Len(stack'[t]) = Len(stack[t]) /\ stack'[t][Len(stack[t])] = f
      /\ \A i \in 1 .. Len(stack[t]) - 1 : stack'[t][i] = stack[t][i]
  BY TopGoesOn
<1>2. \A u \in Threads \ {t} : stack'[u] = stack[u]
  BY TopGoesOn
<1>3. \A i \in 1 .. Len(stack[t]) : i = Len(stack[t]) \/ i \in 1 .. Len(stack[t]) - 1
  BY <1>1
<1> QED
  BY <1>1, <1>2, <1>3 DEF OneMoreFrame

\* The claim of a frame.
LEMMA FrameClaim ==
  ASSUME NEW t \in Threads, NEW i \in 1 .. Len(stack[t]), Based(stack[t][i])
  PROVE  LoadClaim(stack[t][i]) \in Claims
<1>1. LoadClaim(stack[t][i]) \in LoadClaims
  BY DEF LoadClaims
<1> QED
  BY <1>1 DEF Claims, OwnClaims

\* It adds its claim.
LEMMA FrameAddedClaims ==
  ASSUME NEW t \in Threads, NEW n, NEW f, OneMoreFrame(t, n, f)
  PROVE  LoadClaims' \subseteq LoadClaims \cup {LoadClaim(f)}
<1> SUFFICES ASSUME NEW c \in LoadClaims' PROVE c \in LoadClaims \cup {LoadClaim(f)}
  OBVIOUS
<1>0. PICK u \in Threads : \E i \in 1 .. Len(stack'[u]) : Based(stack'[u][i]) /\ c = LoadClaim(stack'[u][i])
  BY DEF LoadClaims, Based, LoadClaim
<1>1. PICK i \in 1 .. Len(stack'[u]) : Based(stack'[u][i]) /\ c = LoadClaim(stack'[u][i])
  BY <1>0
<1>2. CASE u = t /\ i = n
  BY <1>1, <1>2 DEF OneMoreFrame
<1>3. CASE i \in 1 .. Len(stack[u]) /\ Based(stack[u][i]) /\ stack'[u][i] = stack[u][i]
  BY <1>1, <1>3 DEF LoadClaims
<1> QED
  BY <1>1, <1>2, <1>3 DEF OneMoreFrame

\* It stays apart from the others when no claim begins where it does.
LEMMA FrameAddedApart ==
  ASSUME BaseInv, UNCHANGED modules, NEW t \in Threads, NEW n, NEW f, OneMoreFrame(t, n, f),
         Aligned(f.base, HostPage), \A d \in Claims : d.lo # f.base
  PROVE  BaseInv'
<1>1. ASSUME NEW u \in Threads, NEW i \in 1 .. Len(stack[u]), Based(stack[u][i])
      PROVE  stack[u][i].base # f.base
  <2>1. LoadClaim(stack[u][i]) \in Claims
    BY <1>1, FrameClaim
  <2>2. LoadClaim(stack[u][i]).lo = stack[u][i].base
    BY DEF LoadClaim, ClaimOf
  <2> QED
    BY <2>1, <2>2
<1>2. ASSUME NEW id \in DOMAIN modules PROVE modules[id].base # f.base
  <2>1. LoadClaim(modules[id]) \in Claims
    BY DEF Claims, OwnClaims, ModuleClaims
  <2>2. LoadClaim(modules[id]).lo = modules[id].base
    BY DEF LoadClaim, ClaimOf
  <2> QED
    BY <2>1, <2>2
<1>3. ASSUME NEW u \in Threads, NEW i \in 1 .. Len(stack'[u]), Based(stack'[u][i])
      PROVE  \/ u = t /\ i = n /\ stack'[u][i].base = f.base
             \/ /\ i \in 1 .. Len(stack[u]) /\ Based(stack[u][i]) /\ stack'[u][i].base = stack[u][i].base
                /\ Aligned(stack[u][i].base, HostPage) /\ stack[u][i].base # f.base
  <2>1. CASE u = t /\ i = n
    BY <2>1 DEF OneMoreFrame
  <2>2. CASE i \in 1 .. Len(stack[u]) /\ Based(stack[u][i]) /\ stack'[u][i] = stack[u][i]
    <3>1. Aligned(stack[u][i].base, HostPage)
      BY <2>2 DEF BaseInv
    <3> QED
      BY <1>1, <2>2, <3>1
  <2> QED
    BY <1>3, <2>1, <2>2 DEF OneMoreFrame
<1>4. ASSUME NEW u \in Threads, NEW v \in Threads, NEW i \in 1 .. Len(stack'[u]), NEW j \in 1 .. Len(stack'[v]),
             Based(stack'[u][i]), Based(stack'[v][j]), stack'[u][i].base = stack'[v][j].base
      PROVE  u = v /\ i = j
  <2>1. \/ u = t /\ i = n /\ stack'[u][i].base = f.base
        \/ i \in 1 .. Len(stack[u]) /\ Based(stack[u][i]) /\ stack'[u][i].base = stack[u][i].base
             /\ stack[u][i].base # f.base
    BY <1>3, <1>4
  <2>2. \/ v = t /\ j = n /\ stack'[v][j].base = f.base
        \/ j \in 1 .. Len(stack[v]) /\ Based(stack[v][j]) /\ stack'[v][j].base = stack[v][j].base
             /\ stack[v][j].base # f.base
    BY <1>3, <1>4
  <2>3. ASSUME i \in 1 .. Len(stack[u]), Based(stack[u][i]), j \in 1 .. Len(stack[v]), Based(stack[v][j]),
               stack[u][i].base = stack[v][j].base
        PROVE  u = v /\ i = j
    BY <2>3 DEF BaseInv
  <2> QED
    BY <1>4, <2>1, <2>2, <2>3
<1>5. ASSUME NEW u \in Threads, NEW i \in 1 .. Len(stack'[u]), NEW id \in DOMAIN modules, Based(stack'[u][i])
      PROVE  stack'[u][i].base # modules[id].base
  <2>1. ASSUME i \in 1 .. Len(stack[u]), Based(stack[u][i]) PROVE stack[u][i].base # modules[id].base
    BY <2>1 DEF BaseInv
  <2> QED
    BY <1>2, <1>3, <1>5, <2>1
<1>6. ASSUME NEW u \in Threads, NEW i \in 1 .. Len(stack'[u]), Based(stack'[u][i])
      PROVE  Aligned(stack'[u][i].base, HostPage)
  BY <1>3, <1>6
<1>7. /\ \A id \in DOMAIN modules' : Aligned(modules'[id].base, HostPage)
      /\ \A id, jd \in DOMAIN modules' : modules'[id].base = modules'[jd].base => id = jd
  BY DEF BaseInv
<1> QED
  BY <1>4, <1>5, <1>6, <1>7 DEF BaseInv, Based

\* A file is mapped, or there is no memory for it.
LEMMA MapFileKeeps ==
  ASSUME IInv, MemInv, NEW t \in Threads, MapFile(t)
  PROVE  MemInv'
<1>1. /\ StackInv /\ stack[t] # << >> /\ Top(t).phase = "map" /\ FrameOK(Top(t)) /\ game \in DOMAIN Games
      /\ UNCHANGED <<game, modules, allocs, mappings, jit, nextFd, call, shrunk>>
  BY TopFrame DEF IInv, StackInv, MapFile, Is, Active, tableVars
<1>2. SegmentsOK(Img(t))
  BY <1>1, ImageBounds DEF FrameOK, Img
<1>3. PICK size \in Nat \ {0} : size = Img(t).size
  BY <1>2 DEF SegmentsOK
<1>4. PICK o \in Allocations(0, size, "module") :
        /\ vmas' = o.vmas /\ bump' = o.bump
        /\ IF o.base = None THEN Fails(t) /\ UNCHANGED <<brk, placed>>
           ELSE /\ Continues(t, [Top(t) EXCEPT !.phase = "export", !.base = o.base])
                /\ brk' = IF Top(t).path = Executable THEN RoundUp(o.base + size, GuestPage) ELSE brk
  BY <1>3 DEF MapFile, Take
<1>5. /\ o.bump \in Int /\ Aligned(o.bump, HostPage)
      /\ \/ o.base = None /\ o.vmas = vmas
         \/ /\ o.base # None /\ Fresh(o.base, size)
            /\ o.vmas = vmas \cup {Mapping(o.base, RoundUp(size, GuestPage), "module")}
  BY AllocationFor
<1>6. CASE o.base = None /\ o.vmas = vmas
  <2>1. stack' = [stack EXCEPT ![t] = Front(@)] /\ UNCHANGED <<vmas, brk>> /\ bump' \in Int /\ Aligned(bump', HostPage)
    BY <1>4, <1>5, <1>6 DEF Fails
  <2>2. BasesStay
    BY <1>1, <2>1, EndsStays
  <2> QED
    BY <1>1, <2>1, <2>2, BumpStays
<1>7. CASE /\ o.base # None /\ Fresh(o.base, size)
           /\ o.vmas = vmas \cup {Mapping(o.base, RoundUp(size, GuestPage), "module")}
  <2>1. PICK base \in Int : base = o.base /\ Fresh(base, size) /\ base # None
    BY <1>7 DEF Fresh
  <2>2. PICK more : more = vmas \cup {Mapping(base, RoundUp(size, GuestPage), "module")} /\ vmas' = more
    BY <1>4, <1>7, <2>1
  <2>3. PICK g : g = Top(t)
    OBVIOUS
  <2>4. PICK f : f = [g EXCEPT !.phase = "export", !.base = base]
    OBVIOUS
  <2>5. DOMAIN g = FrameFields /\ g.image.size = size
    BY <1>1, <1>3, <2>3 DEF FrameOK, Img
  <2>6. f.base = base /\ f.image = g.image
    BY <2>4, <2>5 DEF FrameFields
  <2>7. Continues(t, f)
    BY <1>4, <1>7, <2>1, <2>3, <2>4
  <2>8. PICK n : OneMoreFrame(t, n, f)
    BY <1>1, <2>7, FrameAdded
  <2>9. PICK c : c = ClaimOf("module", base, size)
    OBVIOUS
  <2>10. LoadClaim(f) = c
    BY <2>5, <2>6, <2>9 DEF LoadClaim
  <2>11. Kept(Claims \cup {c}, more) /\ \A d \in Claims : d.lo # base
    BY <2>1, <2>2, <2>9, FreshKept
  <2>12. PICK length \in Int : length = RoundUp(size, GuestPage)
    BY Paged
  <2>13. MmapClaims(more) = MmapClaims(vmas) /\ Accounted(more, MallocClaims, shrunk)
    <3>1. more = vmas \cup {Mapping(base, length, "module")}
      BY <2>2, <2>12
    <3>2. MmapClaims(more) = MmapClaims(vmas)
      BY <3>1, MappingCounts
    <3>3. Accounted(vmas, MallocClaims, shrunk)
      BY DEF MemInv
    <3> QED
      BY <3>1, <3>2, <3>3, OtherCounts
  <2>14. LoadClaims' \subseteq LoadClaims \cup {c}
    BY <2>8, <2>10, FrameAddedClaims
  <2>15. MallocClaims' = MallocClaims /\ JitClaims' = JitClaims /\ ModuleClaims' = ModuleClaims
    BY <1>1, SameClaims DEF MallocClaims
  <2>16. Claims' \subseteq Claims \cup {c}
    BY <2>2, <2>13, <2>14, <2>15 DEF Claims, OwnClaims, MmapClaims
  <2>17. Kept(Claims', more)
    BY <2>11, <2>16, FewerKept
  <2>18. Kept(Claims, vmas)' /\ Accounted(vmas, MallocClaims, shrunk)'
    BY <1>1, <2>2, <2>13, <2>15, <2>17 DEF Kept, Holds, Accounted
  <2>19. BaseInv'
    <3>1. Aligned(base, HostPage) /\ BaseInv /\ modules' = modules
      BY <1>1, <2>1 DEF MemInv, Fresh
    <3> QED
      BY <2>6, <2>8, <2>11, <3>1, FrameAddedApart
  <2>20. brk' \in Int
    <3>1. base + size \in Int /\ brk \in Int
      BY DEF MemInv, AddressInv
    <3>2. RoundUp(base + size, GuestPage) \in Int
      BY <3>1, Paged
    <3> QED
      BY <1>4, <2>1, <3>1, <3>2
  <2>21. AddressInv'
    <3>1. MapsOK(more) /\ Bounded(more)
      BY <2>1, <2>2, MappingAdded DEF MemInv
    <3> QED
      BY <1>4, <1>5, <2>2, <2>20, <3>1 DEF AddressInv
  <2> QED
    BY <1>1, <2>18, <2>19, <2>21, SameClaims DEF MemInv
<1> QED
  BY <1>5, <1>6, <1>7

-------------------------------------------------------------------------------
\* A load is listed: its frame's memory is the module's.

\* The frame that ends leaves its place to its module.
LEMMA ListApart ==
  ASSUME BaseInv, BasesStay, NEW t \in Threads, NEW n \in Int, n \in 1 .. Len(stack[t]), Based(stack[t][n]),
         Len(stack[t]) = n, Len(stack'[t]) = n - 1, NEW id, id \notin DOMAIN modules,
         NEW m, m.base = stack[t][n].base, modules' = Put(modules, id, m)
  PROVE  BaseInv'
<1>1. /\ DOMAIN modules' = DOMAIN modules \cup {id} /\ modules'[id].base = stack[t][n].base
      /\ \A k \in DOMAIN modules : modules'[k].base = modules[k].base
  BY DEF Put
<1>2. Aligned(stack[t][n].base, HostPage) /\ \A k \in DOMAIN modules : stack[t][n].base # modules[k].base
  BY DEF BaseInv
<1>3. \A k \in DOMAIN modules' : Aligned(modules'[k].base, HostPage)
  BY <1>1, <1>2 DEF BaseInv
<1>4. ASSUME NEW k \in DOMAIN modules', NEW j \in DOMAIN modules', modules'[k].base = modules'[j].base
      PROVE  k = j
  <2>1. CASE k \in DOMAIN modules /\ j \in DOMAIN modules
    BY <1>1, <1>4, <2>1 DEF BaseInv
  <2>2. CASE k \notin DOMAIN modules \/ j \notin DOMAIN modules
    BY <1>1, <1>2, <1>4, <2>2
  <2> QED
    BY <2>1, <2>2
<1>5. ASSUME NEW u \in Threads, NEW i \in 1 .. Len(stack'[u]), Based(stack'[u][i])
      PROVE  /\ i \in 1 .. Len(stack[u]) /\ Based(stack[u][i]) /\ stack'[u][i].base = stack[u][i].base
             /\ Aligned(stack[u][i].base, HostPage) /\ stack[u][i].base # stack[t][n].base
  <2>1. i \in 1 .. Len(stack[u]) /\ Based(stack[u][i]) /\ stack'[u][i].base = stack[u][i].base
    BY <1>5 DEF BasesStay
  <2>2. stack[u][i].base = stack[t][n].base => u = t /\ i = n
    BY <2>1 DEF BaseInv
  <2>3. ~(u = t /\ i = n)
    OBVIOUS
  <2>4. Aligned(stack[u][i].base, HostPage)
    BY <2>1 DEF BaseInv
  <2> QED
    BY <2>1, <2>2, <2>3, <2>4
<1>6. ASSUME NEW u \in Threads, NEW v \in Threads, NEW i \in 1 .. Len(stack'[u]), NEW j \in 1 .. Len(stack'[v]),
             Based(stack'[u][i]), Based(stack'[v][j]), stack'[u][i].base = stack'[v][j].base
      PROVE  u = v /\ i = j
  <2>1. i \in 1 .. Len(stack[u]) /\ Based(stack[u][i]) /\ stack'[u][i].base = stack[u][i].base
    BY <1>5, <1>6
  <2>2. j \in 1 .. Len(stack[v]) /\ Based(stack[v][j]) /\ stack'[v][j].base = stack[v][j].base
    BY <1>5, <1>6
  <2>3. stack[u][i].base = stack[v][j].base
    BY <1>6, <2>1, <2>2
  <2> QED
    BY <2>1, <2>2, <2>3 DEF BaseInv
<1>7. ASSUME NEW u \in Threads, NEW i \in 1 .. Len(stack'[u]), NEW k \in DOMAIN modules', Based(stack'[u][i])
      PROVE  stack'[u][i].base # modules'[k].base
  <2>1. /\ i \in 1 .. Len(stack[u]) /\ Based(stack[u][i]) /\ stack'[u][i].base = stack[u][i].base
        /\ stack[u][i].base # stack[t][n].base
    BY <1>5, <1>7
  <2>2. k \in DOMAIN modules => stack[u][i].base # modules[k].base
    BY <2>1 DEF BaseInv
  <2> QED
    BY <1>1, <2>1, <2>2
<1>8. ASSUME NEW u \in Threads, NEW i \in 1 .. Len(stack'[u]), Based(stack'[u][i])
      PROVE  Aligned(stack'[u][i].base, HostPage)
  BY <1>5, <1>8
<1> QED
  BY <1>3, <1>4, <1>6, <1>7, <1>8 DEF BaseInv, Based

\* A load is listed, with the claim of its frame.
LEMMA ListKeeps ==
  ASSUME IInv, MemInv, NEW t \in Threads, List(t)
  PROVE  MemInv'
<1>1. /\ StackInv /\ stack[t] # << >> /\ Top(t).phase = "list" /\ FrameOK(Top(t)) /\ game' = game
      /\ process \in {"loading", "running"} /\ UNCHANGED memoryVars
      /\ stack' = [stack EXCEPT ![t] = Front(@)]
  BY TopFrame DEF IInv, List, Is, Active
<1>2. PICK n \in Int : n = Len(stack[t]) /\ n \in 1 .. Len(stack[t]) /\ Top(t) = stack[t][n]
  BY <1>1, TopFrame
<1>3. Based(Top(t)) /\ Based(stack[t][n])
  BY <1>1, <1>2 DEF Based
<1>4. PICK id : id = (IF Top(t).path = Executable /\ process = "loading" THEN 0 ELSE moduleCount)
  OBVIOUS
<1>5. PICK m : m = Module(t)
  OBVIOUS
<1>6. m.base = Top(t).base /\ m.image = Top(t).image
  BY <1>5 DEF Module, Img
<1>7. modules' = Put(modules, id, m)
  BY <1>4, <1>5 DEF List, Listed
<1>8. id \notin DOMAIN modules
  BY <1>1, <1>4, NewId
<1>9. BasesStay /\ Len(stack'[t]) = n - 1
  BY <1>1, <1>2, EndsStays
<1>10. BaseInv'
  <2>1. BaseInv
    BY DEF MemInv
  <2> QED
    BY <1>2, <1>3, <1>6, <1>7, <1>8, <1>9, <2>1, ListApart
<1>11. DOMAIN modules' = DOMAIN modules \cup {id} /\ modules'[id] = m /\ \A k \in DOMAIN modules : modules'[k] = modules[k]
  BY <1>7, <1>8 DEF Put
<1>12. ImageInv'
  <2>1. Top(t).path \in DOMAIN Files /\ Loadable(Files[Top(t).path]) /\ m.image = Image(Files[Top(t).path])
    BY <1>1, <1>6 DEF FrameOK
  <2>2. Files' = Files
    BY <1>1 DEF Files
  <2>3. ImageInv
    BY DEF MemInv
  <2> QED
    BY <1>11, <2>1, <2>2, <2>3 DEF ImageInv
<1>13. LoadClaim(m) \in LoadClaims
  <2>1. LoadClaim(m) = LoadClaim(stack[t][n])
    BY <1>2, <1>6 DEF LoadClaim
  <2> QED
    BY <1>2, <1>3, <2>1 DEF LoadClaims
<1>14. ModuleClaims' \subseteq ModuleClaims \cup LoadClaims
  <2> SUFFICES ASSUME NEW c \in ModuleClaims' PROVE c \in ModuleClaims \cup LoadClaims
    OBVIOUS
  <2>1. PICK k \in DOMAIN modules' : c = LoadClaim(modules'[k])
    BY DEF ModuleClaims, LoadClaim
  <2>2. CASE k = id
    BY <1>11, <1>13, <2>1, <2>2
  <2>3. CASE k \in DOMAIN modules
    BY <1>11, <2>1, <2>3 DEF ModuleClaims
  <2> QED
    BY <1>11, <2>2, <2>3
<1>15. UNCHANGED <<vmas, bump, brk, allocs, mappings, jit, nextFd, call, shrunk>>
  BY <1>1 DEF memoryVars
<1>16. MallocClaims' = MallocClaims /\ JitClaims' = JitClaims
  BY <1>15, SameClaims DEF MallocClaims
<1>17. Claims' \subseteq Claims
  BY <1>9, <1>14, <1>15, <1>16, BasesStayClaimed DEF Claims, OwnClaims, MmapClaims
<1>18. Kept(Claims', vmas)
  BY <1>17, FewerKept DEF MemInv
<1>19. Kept(Claims, vmas)' /\ Accounted(vmas, MallocClaims, shrunk)'
  BY <1>15, <1>16, <1>18 DEF MemInv, Kept, Holds, Accounted
<1> QED
  BY <1>10, <1>12, <1>15, <1>19, SameClaims DEF MemInv

-------------------------------------------------------------------------------
\* A module is unloaded: its segments go back one by one.

SegmentAt(m, i) == m.base + (m.image.segments[i].va - m.image.min)

GivenBack(m, i, maps) == Deallocate(maps, SegmentAt(m, i), m.image.segments[i].size)

\* What is left of mappings after each segment.
Lefts(m, maps, n, g) == g = [i \in 0 .. n |-> IF i = 0 THEN maps ELSE GivenBack(m, i, g[i - 1])]

\* The same value by value.
LeftAt(m, maps, n, g) == \A i \in 0 .. n : g[i] = IF i = 0 THEN maps ELSE GivenBack(m, i, g[i - 1])

\* A function that gives what is left gives it after each segment.
LEMMA LeftsAt ==
  ASSUME NEW m, NEW maps, NEW n \in Nat, NEW g, Lefts(m, maps, n, g)
  PROVE  LeftAt(m, maps, n, g)
<1> DEFINE k == [i \in 0 .. n |-> IF i = 0 THEN maps ELSE GivenBack(m, i, g[i - 1])]
<1>1. g = k
  BY DEF Lefts
<1>2. \A i \in 0 .. n : k[i] = IF i = 0 THEN maps ELSE GivenBack(m, i, g[i - 1])
  OBVIOUS
<1> HIDE DEF k
<1>3. \A i \in 0 .. n : g[i] = k[i]
  BY <1>1
<1> QED
  BY <1>2, <1>3 DEF LeftAt

\* Such a function is there for every number of segments.
LEMMA LeftsExist ==
  ASSUME NEW m, NEW maps, NEW n \in Nat
  PROVE  \E g : Lefts(m, maps, n, g)
<1> DEFINE T == {k \in Nat : \E g : Lefts(m, maps, k, g)}
<1>1. 0 \in T
  <2> DEFINE g == [i \in 0 .. 0 |-> maps]
             k == [i \in 0 .. 0 |-> IF i = 0 THEN maps ELSE GivenBack(m, i, g[i - 1])]
  <2>1. \A i \in 0 .. 0 : g[i] = k[i]
    OBVIOUS
  <2>2. g = k
    BY <2>1
  <2>3. Lefts(m, maps, 0, g)
    BY <2>2 DEF Lefts
  <2> QED
    BY <2>3
<1>2. \A k \in T : k + 1 \in T
  <2> SUFFICES ASSUME NEW k \in Nat, NEW g, Lefts(m, maps, k, g)
               PROVE  \E h : Lefts(m, maps, k + 1, h)
    OBVIOUS
  <2>1. \A i \in 0 .. k : g[i] = IF i = 0 THEN maps ELSE GivenBack(m, i, g[i - 1])
    BY LeftsAt DEF LeftAt
  <2> DEFINE h == [i \in 0 .. k + 1 |-> IF i = 0 THEN maps ELSE GivenBack(m, i, g[i - 1])]
             l == [i \in 0 .. k + 1 |-> IF i = 0 THEN maps ELSE GivenBack(m, i, h[i - 1])]
  <2>2. \A i \in 0 .. k : h[i] = g[i]
    BY <2>1
  <2>3. \A i \in 0 .. k + 1 : h[i] = l[i]
    <3> TAKE i \in 0 .. k + 1
    <3>1. CASE i = 0
      BY <3>1
    <3>2. CASE i # 0
      <4>1. i - 1 \in 0 .. k
        BY <3>2
      <4>2. h[i - 1] = g[i - 1]
        BY <2>2, <4>1
      <4>3. h[i] = GivenBack(m, i, g[i - 1])
        BY <3>2
      <4>4. l[i] = GivenBack(m, i, h[i - 1])
        BY <3>2
      <4> QED
        BY <4>2, <4>3, <4>4
    <3> QED
      BY <3>1, <3>2
  <2>4. h = l
    BY <2>3
  <2>5. Lefts(m, maps, k + 1, h)
    BY <2>4 DEF Lefts
  <2> QED
    BY <2>5
<1> HIDE DEF T
<1>3. T = Nat
  BY <1>1, <1>2, NumbersFromZero DEF T
<1> QED
  BY <1>3 DEF T

\* What unloading leaves is what is left after the last segment.
LEMMA UnmappedIsLeft ==
  ASSUME NEW m, Len(m.image.segments) \in Nat
  PROVE  \E g : Unmapped(m) = g[Len(m.image.segments)] /\ LeftAt(m, vmas, Len(m.image.segments), g)
<1> DEFINE n == Len(m.image.segments)
           g == CHOOSE g : g = [i \in 0 .. n |-> IF i = 0 THEN vmas ELSE GivenBack(m, i, g[i - 1])]
<1>1. Lefts(m, vmas, n, g)
  BY LeftsExist DEF Lefts
<1>2. Unmapped(m) = g[n]
  BY DEF Unmapped, GivenBack, SegmentAt
<1> HIDE DEF g
<1>3. LeftAt(m, vmas, n, g)
  BY <1>1, LeftsAt
<1> QED
  BY <1>2, <1>3

\* Pieces of pieces are pieces.
LEMMA PiecesTwice ==
  ASSUME NEW a, NEW b, NEW c, MapsOK(a), MapsOK(b), MapsOK(c), Pieces(a, b), Pieces(b, c)
  PROVE  Pieces(a, c)
<1> SUFFICES ASSUME NEW v \in a PROVE \E w \in c : PieceOf(v, w)
  BY DEF Pieces
<1>1. PICK u \in b : PieceOf(v, u)
  BY DEF Pieces
<1>2. PICK w \in c : PieceOf(u, w)
  BY DEF Pieces
<1>3. PieceOf(v, w)
  BY <1>1, <1>2 DEF PieceOf, MapsOK, MappingOK
<1> QED
  BY <1>3

\* Segments are given back of the module's own memory.
LEMMA SegmentInClaim ==
  ASSUME NEW m, SegmentsOK(m.image), m.base \in Int, Aligned(m.base, HostPage),
         NEW i \in 1 .. Len(m.image.segments), NEW addr, addr = SegmentAt(m, i),
         NEW size, size = m.image.segments[i].size
  PROVE  /\ addr \in Int /\ size \in Nat
         /\ size # 0 => m.base <= addr /\ addr + size <= m.base + m.image.size
         /\ addr % HostPage = 0 /\ size # 0 =>
              m.base <= addr /\ addr + RoundUp(size, GuestPage) <= EndOf(LoadClaim(m))
<1>1. PICK s : s = m.image.segments[i]
  OBVIOUS
<1>2. PICK at : at = s.va - m.image.min
  OBVIOUS
<1>3. /\ s.va \in Nat /\ s.size \in Nat
      /\ s.size # 0 => 0 <= at /\ at + s.size <= m.image.size
      /\ s.size # 0 /\ at % HostPage = 0 => at + RoundUp(s.size, GuestPage) <= RoundUp(m.image.size, GuestPage)
  BY <1>1, <1>2 DEF SegmentsOK
<1>4. m.image.size \in Nat \ {0} /\ m.image.min \in Nat /\ at \in Int
  BY <1>2, <1>3 DEF SegmentsOK
<1>5. addr = m.base + at /\ addr \in Int /\ size = s.size /\ size \in Nat
  BY <1>1, <1>2, <1>3, <1>4 DEF SegmentAt
<1>6. ASSUME addr % HostPage = 0 PROVE at % HostPage = 0
  <2>1. Aligned(addr, HostPage)
    BY <1>5, <1>6, Units, NoRemainder
  <2>2. Aligned(addr - m.base, HostPage)
    BY <1>5, <2>1, Units, AlignedSums
  <2>3. addr - m.base = at
    BY <1>4, <1>5
  <2> QED
    BY <1>4, <2>2, <2>3, Units, NoRemainder
<1>7. PICK whole \in Int : whole = RoundUp(m.image.size, GuestPage)
  BY <1>4, Paged
<1>8. PICK part \in Int : part = RoundUp(size, GuestPage)
  BY <1>5, Paged
<1>9. EndOf(LoadClaim(m)) = m.base + whole
  BY <1>7, ClaimFields DEF LoadClaim
<1>10. size # 0 => 0 <= at /\ at + size <= m.image.size
  BY <1>3, <1>5
<1>11. size # 0 /\ at % HostPage = 0 => at + part <= whole
  BY <1>3, <1>5, <1>7, <1>8
<1>12. size # 0 => m.base <= addr /\ addr + size <= m.base + m.image.size
  BY <1>4, <1>5, <1>10
<1>13. ASSUME addr % HostPage = 0, size # 0
       PROVE  m.base <= addr /\ addr + RoundUp(size, GuestPage) <= EndOf(LoadClaim(m))
  <2>1. 0 <= at /\ at + part <= whole
    BY <1>6, <1>10, <1>11, <1>13
  <2>2. m.base <= m.base + at /\ m.base + at + part <= m.base + whole
    BY <1>4, <2>1
  <2> QED
    BY <1>5, <1>8, <1>9, <2>2
<1> QED
  BY <1>5, <1>12, <1>13

\* All of a module's segments go back: other claims stay.
LEMMA UnmapKeeps ==
  ASSUME MapsOK(vmas), NEW claims, Kept(claims, vmas), NEW m, SegmentsOK(m.image),
         m.base \in Int, Aligned(m.base, HostPage),
         \A d \in claims : Outside(m.base, EndOf(LoadClaim(m)), d.lo, EndOf(d)),
         NEW rest, rest = Unmapped(m)
  PROVE  MapsOK(rest) /\ Pieces(rest, vmas) /\ Kept(claims, rest)
<1>1. PICK n \in Nat : n = Len(m.image.segments)
  BY DEF SegmentsOK
<1>2. PICK g : rest = g[n] /\ LeftAt(m, vmas, n, g)
  BY <1>1, UnmappedIsLeft
<1>3. PICK c : c = LoadClaim(m)
  OBVIOUS
<1>4. c.lo = m.base /\ ClaimOK(c)
  <2>1. m.image.size \in Nat \ {0}
    BY DEF SegmentsOK
  <2> QED
    BY <1>3, <2>1, ClaimFields DEF LoadClaim
<1> DEFINE T == {k \in Nat : k <= n => MapsOK(g[k]) /\ Pieces(g[k], vmas) /\ Kept(claims, g[k])}
<1>5. 0 \in T
  <2>1. g[0] = vmas
    BY <1>2 DEF LeftAt
  <2>2. \A v \in vmas : PieceOf(v, v)
    BY DEF PieceOf, MapsOK, MappingOK
  <2> QED
    BY <2>1, <2>2 DEF Pieces
<1>6. ASSUME NEW k \in T PROVE k + 1 \in T
  <2> SUFFICES ASSUME k + 1 <= n
               PROVE  MapsOK(g[k + 1]) /\ Pieces(g[k + 1], vmas) /\ Kept(claims, g[k + 1])
    OBVIOUS
  <2>1. PICK maps : maps = g[k]
    OBVIOUS
  <2>2. MapsOK(maps) /\ Pieces(maps, vmas) /\ Kept(claims, maps)
    BY <2>1
  <2>3. PICK i \in 1 .. n : i = k + 1 /\ i - 1 = k
    OBVIOUS
  <2>4. PICK next : next = g[i]
    OBVIOUS
  <2>5. next = GivenBack(m, i, maps)
    <3>1. i \in 0 .. n /\ i # 0
      OBVIOUS
    <3> QED
      BY <1>2, <2>1, <2>3, <2>4, <3>1 DEF LeftAt
  <2>6. PICK addr : addr = SegmentAt(m, i)
    OBVIOUS
  <2>7. PICK size : size = m.image.segments[i].size
    OBVIOUS
  <2>8. /\ addr \in Int /\ size \in Nat
        /\ addr % HostPage = 0 /\ size # 0 => c.lo <= addr /\ addr + RoundUp(size, GuestPage) <= EndOf(c)
    BY <1>1, <1>3, <1>4, <2>6, <2>7, SegmentInClaim
  <2>9. next = Deallocate(maps, addr, size)
    BY <2>5, <2>6, <2>7 DEF GivenBack
  <2>10. \A d \in claims : Outside(c.lo, EndOf(c), d.lo, EndOf(d))
    BY <1>3, <1>4
  <2>11. MapsOK(next) /\ Pieces(next, maps) /\ Kept(claims, next)
    BY <1>4, <2>2, <2>8, <2>9, <2>10, DeallocateKeeps
  <2>12. Pieces(next, vmas)
    BY <2>2, <2>11, PiecesTwice
  <2> QED
    BY <2>3, <2>4, <2>11, <2>12
<1>7. T = Nat
  <2> HIDE DEF T
  <2>1. T \in SUBSET Nat
    BY DEF T
  <2> QED
    BY <1>5, <1>6, <2>1, NumbersFromZero
<1>8. n \in T
  BY <1>7
<1> QED
  BY <1>2, <1>8

\* The module's claim is no other's.
LEMMA ModuleOwnsClaim ==
  ASSUME BaseInv, NEW id \in DOMAIN modules, NEW c, c = LoadClaim(modules[id])
  PROVE  /\ c \notin MallocClaims \cup JitClaims \cup LoadClaims \cup MmapClaims(vmas)
         /\ \A jd \in DOMAIN modules \ {id} : LoadClaim(modules[jd]) # c
<1>1. \A f : LoadClaim(f).lo = f.base /\ LoadClaim(f).kind = "module"
  BY DEF LoadClaim, ClaimOf
<1>2. c.lo = modules[id].base /\ c.kind = "module"
  BY <1>1
<1>3. c \notin MallocClaims \cup JitClaims \cup MmapClaims(vmas)
  BY <1>2, ClaimKinds
<1>4. ASSUME c \in LoadClaims PROVE FALSE
  <2>0. PICK t \in Threads : \E i \in 1 .. Len(stack[t]) : Based(stack[t][i]) /\ c = LoadClaim(stack[t][i])
    BY <1>4 DEF LoadClaims
  <2>1. PICK i \in 1 .. Len(stack[t]) : Based(stack[t][i]) /\ c = LoadClaim(stack[t][i])
    BY <2>0
  <2>2. stack[t][i].base = modules[id].base
    BY <1>1, <1>2, <2>1
  <2> QED
    BY <2>1, <2>2 DEF BaseInv
<1>5. ASSUME NEW jd \in DOMAIN modules \ {id}, LoadClaim(modules[jd]) = c PROVE FALSE
  <2>1. modules[jd].base = modules[id].base
    BY <1>1, <1>2, <1>5
  <2> QED
    BY <2>1 DEF BaseInv
<1> QED
  BY <1>3, <1>4, <1>5

\* Fewer modules stay apart.
LEMMA UnloadApart ==
  ASSUME BaseInv, ImageInv, UNCHANGED <<game, stack>>, NEW id, modules' = Restrict(modules, DOMAIN modules \ {id})
  PROVE  BaseInv' /\ ImageInv'
<1>1. DOMAIN modules' \subseteq DOMAIN modules /\ \A k \in DOMAIN modules' : modules'[k] = modules[k]
  BY DEF Restrict
<1>2. BaseInv'
  <2>1. \A k \in DOMAIN modules' : Aligned(modules'[k].base, HostPage)
    BY <1>1 DEF BaseInv
  <2>2. ASSUME NEW k \in DOMAIN modules', NEW j \in DOMAIN modules', modules'[k].base = modules'[j].base
        PROVE  k = j
    BY <1>1, <2>2 DEF BaseInv
  <2>3. ASSUME NEW t \in Threads, NEW i \in 1 .. Len(stack[t]), NEW k \in DOMAIN modules', Based(stack[t][i])
        PROVE  stack[t][i].base # modules'[k].base
    <3>1. k \in DOMAIN modules /\ modules'[k] = modules[k]
      BY <1>1
    <3> QED
      BY <2>3, <3>1 DEF BaseInv
  <2>4. /\ \A t \in Threads : \A i \in 1 .. Len(stack[t]) : Based(stack[t][i]) => Aligned(stack[t][i].base, HostPage)
        /\ \A t, u \in Threads : \A i \in 1 .. Len(stack[t]), j \in 1 .. Len(stack[u]) :
             Based(stack[t][i]) /\ Based(stack[u][j]) /\ stack[t][i].base = stack[u][j].base => t = u /\ i = j
    BY DEF BaseInv
  <2>5. stack' = stack
    OBVIOUS
  <2>6. /\ \A t \in Threads : \A i \in 1 .. Len(stack'[t]) : Based(stack'[t][i]) => Aligned(stack'[t][i].base, HostPage)
        /\ \A t, u \in Threads : \A i \in 1 .. Len(stack'[t]), j \in 1 .. Len(stack'[u]) :
             Based(stack'[t][i]) /\ Based(stack'[u][j]) /\ stack'[t][i].base = stack'[u][j].base => t = u /\ i = j
    BY <2>4, <2>5
  <2>7. ASSUME NEW t \in Threads, NEW i \in 1 .. Len(stack'[t]), NEW k \in DOMAIN modules', Based(stack'[t][i])
        PROVE  stack'[t][i].base # modules'[k].base
    <3>1. i \in 1 .. Len(stack[t]) /\ Based(stack[t][i]) /\ stack'[t][i].base = stack[t][i].base
      BY <2>5, <2>7
    <3> QED
      BY <2>3, <3>1
  <2> QED
    BY <2>1, <2>2, <2>6, <2>7 DEF BaseInv, Based
<1>3. ImageInv'
  <2>1. Files' = Files
    BY DEF Files
  <2> QED
    BY <1>1, <2>1 DEF ImageInv
<1> QED
  BY <1>2, <1>3

\* A module is unloaded: its claim goes, the others stay.
LEMMA StopUnloadModuleKeeps ==
  ASSUME IInv, MemInv, NEW t \in Threads, StopUnloadModule(t)
  PROVE  MemInv'
<1>1. UNCHANGED <<game, stack, bump, brk, allocs, mappings, jit, nextFd, call, shrunk>>
  BY DEF StopUnloadModule
<1>2. CASE UNCHANGED <<modules, vmas>>
  <2>1. UNCHANGED memoryVars /\ UNCHANGED <<stack, game, modules>>
    BY <1>1, <1>2 DEF memoryVars
  <2>2. BasesStay
    BY <1>1 DEF BasesStay
  <2> QED
    BY <2>1, <2>2, FramesStay
<1>3. ASSUME NEW id \in DOMAIN modules, modules' = Restrict(modules, DOMAIN modules \ {id}),
             vmas' = Unmapped(modules[id])
      PROVE  MemInv'
  <2>1. PICK m : m = modules[id]
    OBVIOUS
  <2>2. PICK c : c = LoadClaim(m)
    OBVIOUS
  <2>3. c \in Claims
    BY <2>1, <2>2 DEF Claims, OwnClaims, ModuleClaims
  <2>4. /\ c \notin MallocClaims \cup JitClaims \cup LoadClaims \cup MmapClaims(vmas)
        /\ \A jd \in DOMAIN modules \ {id} : LoadClaim(modules[jd]) # c
    BY <2>1, <2>2, ModuleOwnsClaim DEF MemInv
  <2>5. PICK others : others = Claims \ {c}
    OBVIOUS
  <2>6. Kept(others, vmas) /\ \A d \in others : Outside(c.lo, EndOf(c), d.lo, EndOf(d))
    <3>1. Kept(Claims, vmas)
      BY DEF MemInv
    <3>2. Kept(others, vmas)
      BY <2>5, <3>1, FewerKept
    <3> QED
      BY <2>3, <2>5, <3>1, <3>2 DEF Kept
  <2>7. ClaimOK(c) /\ c.lo = m.base /\ m.base \in Int
    <3>1. ClaimOK(c)
      BY <2>3 DEF MemInv, Kept
    <3>2. c.lo = m.base
      BY <2>2 DEF LoadClaim, ClaimOf
    <3> QED
      BY <3>1, <3>2 DEF ClaimOK
  <2>8. SegmentsOK(m.image)
    <3>1. PICK p \in DOMAIN Files : Loadable(Files[p]) /\ m.image = Image(Files[p])
      BY <2>1 DEF MemInv, ImageInv
    <3>2. game \in DOMAIN Games
      BY DEF IInv, StackInv
    <3> QED
      BY <3>1, <3>2, ImageBounds
  <2>9. Aligned(m.base, HostPage)
    BY <2>1 DEF MemInv, BaseInv
  <2>10. MapsOK(vmas') /\ Pieces(vmas', vmas) /\ Kept(others, vmas')
    <3>1. MapsOK(vmas)
      BY DEF MemInv, AddressInv
    <3>2. \A d \in others : Outside(m.base, EndOf(LoadClaim(m)), d.lo, EndOf(d))
      BY <2>2, <2>6, <2>7
    <3>3. vmas' = Unmapped(m)
      BY <1>3, <2>1
    <3> QED
      BY <2>6, <2>7, <2>8, <2>9, <3>1, <3>2, <3>3, UnmapKeeps
  <2>11. AddressInv'
    BY <1>1, <2>10, MappingsCut DEF MemInv
  <2>12. MmapClaims(vmas') \subseteq MmapClaims(vmas) /\ Accounted(vmas', MallocClaims, shrunk)
    <3>1. \A d \in MallocClaims : EndOf(d) \in Int
      BY ClaimsEnd DEF MemInv, Claims, OwnClaims
    <3>2. MapsOK(vmas) /\ Accounted(vmas, MallocClaims, shrunk)
      BY DEF MemInv, AddressInv
    <3> QED
      BY <2>10, <3>1, <3>2, PiecesStay
  <2>13. MallocClaims' = MallocClaims /\ JitClaims' = JitClaims /\ LoadClaims' = LoadClaims
    BY <1>1, SameClaims DEF MallocClaims
  <2>14. ModuleClaims' \subseteq ModuleClaims \ {c}
    <3> SUFFICES ASSUME NEW d \in ModuleClaims' PROVE d \in ModuleClaims \ {c}
      OBVIOUS
    <3>1. PICK jd \in DOMAIN modules' : d = LoadClaim(modules'[jd])
      BY DEF ModuleClaims, LoadClaim
    <3>2. jd \in DOMAIN modules \ {id} /\ modules'[jd] = modules[jd]
      BY <1>3, <3>1 DEF Restrict
    <3> QED
      BY <2>4, <3>1, <3>2 DEF ModuleClaims
  <2>15. MmapClaims(vmas)' = MmapClaims(vmas')
    BY DEF MmapClaims
  <2>16. Claims' \subseteq others
    BY <2>4, <2>5, <2>12, <2>13, <2>14, <2>15 DEF Claims, OwnClaims
  <2>17. Kept(Claims', vmas')
    BY <2>10, <2>16, FewerKept
  <2>18. Kept(Claims, vmas)' /\ Accounted(vmas, MallocClaims, shrunk)'
    BY <1>1, <2>12, <2>13, <2>17 DEF Kept, Holds, Accounted
  <2>19. BaseInv' /\ ImageInv'
    BY <1>1, <1>3, UnloadApart DEF MemInv
  <2> QED
    BY <1>1, <2>11, <2>18, <2>19, SameClaims DEF MemInv
<1>4. \/ UNCHANGED <<modules, vmas>>
      \/ \E id \in DOMAIN modules :
           modules' = Restrict(modules, DOMAIN modules \ {id}) /\ vmas' = Unmapped(modules[id])
  BY DEF StopUnloadModule
<1> QED
  BY <1>2, <1>3, <1>4

-------------------------------------------------------------------------------
\* The invariant holds.

\* It holds when the program starts.
LEMMA InitMemInv ==
  ASSUME Init
  PROVE  MemInv
<1>1. /\ vmas = {} /\ bump = GuestLow /\ brk = 0 /\ allocs = << >> /\ mappings = << >> /\ jit = << >> /\ nextFd = 500
      /\ call = [t \in Threads |-> NoCall] /\ modules = << >> /\ stack = [t \in Threads |-> << >>]
  BY DEF Init, InitMemory, InitLoader
<1>2. DOMAIN << >> = {} /\ Len(<< >>) = 0
  BY EmptySeq
<1>3. \A i \in 1 .. 0 : FALSE
  OBVIOUS
<1>4. AddressInv
  <2>1. MapsOK(vmas) /\ Bounded(vmas)
    BY <1>1 DEF MapsOK, Bounded
  <2>2. GuestLow \in Int /\ Aligned(GuestLow, HostPage)
    <3>1. GuestLow \in Int /\ Megabyte \in Nat \ {0} /\ GuestLow % Megabyte = 0
      BY MemoryAssumption
    <3>2. Aligned(GuestLow, Megabyte)
      BY <3>1, NoRemainder
    <3> QED
      BY <3>1, <3>2, Units, AlignedWithin
  <2> QED
    BY <1>1, <2>1, <2>2 DEF AddressInv
<1>5. \A t \in Threads : call[t].op = "none"
  BY <1>1 DEF NoCall
<1>6. Claims = {}
  <2>1. BlockClaims = {} /\ JitClaims = {} /\ ModuleClaims = {} /\ MmapClaims(vmas) = {}
    BY <1>1, <1>2 DEF BlockClaims, JitClaims, ModuleClaims, MmapClaims
  <2>2. RecordClaims = {}
    BY <1>5 DEF RecordClaims
  <2>3. LoadClaims = {}
    BY <1>1, <1>2, <1>3 DEF LoadClaims
  <2> QED
    BY <2>1, <2>2, <2>3 DEF Claims, OwnClaims, MallocClaims
<1>7. Kept(Claims, vmas) /\ Accounted(vmas, MallocClaims, shrunk)
  BY <1>1, <1>6 DEF Kept, Accounted
<1>8. CallInv
  <2>1. call = [t \in Threads |-> call[t]]
    BY <1>1
  <2>2. \A t \in Threads : CallOK(call[t]) /\ \A a : ~About(call[t], a)
    BY <1>5 DEF CallOK, About, Works
  <2> QED
    BY <1>5, <2>1, <2>2 DEF CallInv
<1>9. BlockInv /\ ImageInv /\ EntryInv
  BY <1>1, <1>2 DEF BlockInv, ImageInv, EntryInv
<1>10. JitInv
  BY <1>1, <1>2 DEF JitInv
<1>11. BaseInv
  BY <1>1, <1>2, <1>3 DEF BaseInv
<1> QED
  BY <1>4, <1>7, <1>8, <1>9, <1>10, <1>11 DEF MemInv

\* Every step keeps it.
LEMMA NextMemInv ==
  ASSUME IInv, MemInv, [Next]_vars
  PROVE  MemInv'
<1>1. ASSUME NEW t \in Threads, LoadStep(t) PROVE MemInv'
  BY <1>1, ReadFileKeeps, MapFileKeeps, ExportKeeps, NeedKeeps, RelocateKeeps, ListKeeps DEF LoadStep
<1>2. ASSUME NEW t \in Threads, StopUnloadModule(t) PROVE MemInv'
  BY <1>2, StopUnloadModuleKeeps
<1>3. ASSUME NEW t \in Threads, GuestMemoryCall(t) PROVE MemInv'
  <2>1. LoaderStays /\ Memory(t)
    BY <1>3 DEF GuestMemoryCall, LoaderStays, loaderVars
  <2> QED
    BY <2>1, MemoryStep
<1>4. CASE Start \/ (\E t \in Threads : LoadStartModule(t)) \/ UNCHANGED vars
  BY <1>4, BeginKeeps
<1>5. ASSUME NEW t \in Threads, CallImport(t) PROVE MemInv'
  BY <1>5, CallImportKeeps
<1> QED
  BY <1>1, <1>2, <1>3, <1>4, <1>5 DEF Next

-------------------------------------------------------------------------------
\* What it says of memory.

\* What is held is mapped, or the break has met it.
LEMMA HeldIsMapped ==
  ASSUME MapsOK(vmas), NEW c, ClaimOK(c), Holds(vmas, c.kind, c.lo, EndOf(c)),
         NEW lo \in Int, NEW hi \in Int, c.lo <= lo, lo < hi, hi <= EndOf(c)
  PROVE  MappedFor(c.kind, c.lo, lo, hi) \/ \E v \in vmas : v.kind = "break" /\ Overlap(v, lo, hi)
<1>1. \/ \E v \in vmas : v.kind = c.kind /\ v.base = c.lo /\ v.lo <= lo /\ hi <= v.hi
      \/ \E v \in vmas : v.kind = "break" /\ v.lo < hi /\ lo < v.hi
  BY DEF Holds
<1> QED
  BY <1>1 DEF MappedFor, Overlap

\* Blocks of malloc and JIT memory are mapped.
LEMMA BlocksAreKept ==
  ASSUME MemInv
  PROVE  BlocksKeepTheirMemory
<1>1. MapsOK(vmas) /\ Kept(Claims, vmas)
  BY DEF MemInv, AddressInv
<1>2. ASSUME NEW kind, NEW base, NEW size, ClaimOf(kind, base, size) \in Claims
      PROVE  \/ MappedFor(kind, base, base, base + size)
             \/ \E v \in vmas : v.kind = "break" /\ Overlap(v, base, base + size)
  <2>1. PICK c : c = ClaimOf(kind, base, size)
    OBVIOUS
  <2>2. c.kind = kind /\ c.lo = base /\ c.size = size /\ ClaimOK(c) /\ Holds(vmas, c.kind, c.lo, EndOf(c))
    BY <1>1, <1>2, <2>1 DEF Kept, ClaimOf
  <2>3. base \in Int /\ size \in Nat \ {0} /\ base + size <= EndOf(c)
    BY <2>2, ClaimEnds DEF ClaimOK
  <2>4. base + size \in Int /\ base < base + size
    BY <2>3
  <2> QED
    BY <1>1, <2>2, <2>3, <2>4, HeldIsMapped
<1>3. \A a \in DOMAIN allocs : ClaimOf("malloc", a, allocs[a]) \in Claims
  BY DEF Claims, OwnClaims, MallocClaims, BlockClaims
<1>4. \A f \in DOMAIN jit : ClaimOf("jit", jit[f].host, jit[f].len) \in Claims
  BY DEF Claims, OwnClaims, JitClaims
<1> QED
  BY <1>2, <1>3, <1>4 DEF BlocksKeepTheirMemory

\* Segments of listed modules are mapped.
LEMMA SegmentsAreMapped ==
  ASSUME IInv, MemInv
  PROVE  LiveMemoryIsMapped
<1>1. SUFFICES ASSUME NEW id \in DOMAIN modules, NEW m, m = modules[id], NEW s \in Range(m.image.segments),
                      NEW lo, lo = m.base + (s.va - m.image.min), s.size # 0
               PROVE  \/ MappedFor("module", m.base, lo, lo + s.size)
                      \/ \E v \in vmas : v.kind = "break" /\ Overlap(v, lo, lo + s.size)
  BY BlocksAreKept DEF LiveMemoryIsMapped
<1>2. SegmentsOK(m.image)
  <2>1. PICK p \in DOMAIN Files : Loadable(Files[p]) /\ m.image = Image(Files[p])
    BY <1>1 DEF MemInv, ImageInv
  <2>2. game \in DOMAIN Games
    BY DEF IInv, StackInv
  <2> QED
    BY <2>1, <2>2, ImageBounds
<1>3. PICK c : c = LoadClaim(m)
  OBVIOUS
<1>4. c \in Claims /\ c.kind = "module" /\ c.lo = m.base /\ c.size = m.image.size
  BY <1>1, <1>3 DEF Claims, OwnClaims, ModuleClaims, LoadClaim, ClaimOf
<1>5. MapsOK(vmas) /\ ClaimOK(c) /\ Holds(vmas, c.kind, c.lo, EndOf(c))
  BY <1>4 DEF MemInv, AddressInv, Kept
<1>6. m.base \in Int /\ Aligned(m.base, HostPage)
  BY <1>1, <1>4, <1>5 DEF ClaimOK, MemInv, BaseInv
<1>7. PICK i \in 1 .. Len(m.image.segments) : s = m.image.segments[i]
  BY <1>2 DEF SegmentsOK, Range
<1>8. lo = SegmentAt(m, i)
  BY <1>1, <1>7 DEF SegmentAt
<1>9. lo \in Int /\ s.size \in Nat /\ m.base <= lo /\ lo + s.size <= m.base + m.image.size
  BY <1>1, <1>2, <1>6, <1>7, <1>8, SegmentInClaim
<1>10. EndOf(c) \in Int /\ c.lo + c.size <= EndOf(c) /\ c.size \in Nat
  BY <1>5, ClaimEnds DEF ClaimOK
<1>11. PICK hi \in Int : hi = lo + s.size
  BY <1>9
<1>12. c.lo <= lo /\ lo < hi /\ hi <= EndOf(c)
  BY <1>1, <1>4, <1>6, <1>9, <1>10, <1>11
<1> QED
  BY <1>4, <1>5, <1>9, <1>11, <1>12, HeldIsMapped

\* Memory of malloc has a claim, or its block was made smaller.
LEMMA NothingElseLeaks ==
  ASSUME MemInv
  PROVE  OnlyShrinkingLeaks
<1>1. SUFFICES ASSUME NEW v \in vmas, v.kind = "malloc", v.base \notin shrunk
               PROVE  \/ v.base \in DOMAIN allocs
                      \/ \E t \in Threads : call[t].op = "record" /\ call[t].base = v.base
  BY DEF OnlyShrinkingLeaks
<1>2. PICK c \in MallocClaims : c.lo = v.base
  BY <1>1 DEF MemInv, Accounted
<1>3. CASE c \in BlockClaims
  <2>1. PICK a \in DOMAIN allocs : c = ClaimOf("malloc", a, allocs[a])
    BY <1>3 DEF BlockClaims
  <2> QED
    BY <1>2, <2>1 DEF ClaimOf
<1>4. CASE c \in RecordClaims
  <2>1. PICK t \in Threads : call[t].op = "record" /\ c = ClaimOf("malloc", call[t].base, call[t].size)
    BY <1>4 DEF RecordClaims
  <2> QED
    BY <1>2, <2>1 DEF ClaimOf
<1> QED
  BY <1>3, <1>4 DEF MallocClaims

\* Descriptors and entries of the address map agree.
LEMMA NamesAgree ==
  ASSUME MemInv
  PROVE  AliasesShareMemory
<1>1. \A f \in DOMAIN jit : jit[f].host = jit[jit[f].of].host /\ (jit[f].guest # 0 => jit[f].guest = jit[f].host)
  BY DEF MemInv, JitInv
<1>2. ASSUME NEW g \in DOMAIN mappings PROVE Translations(g) = {g}
  <2>1. \A h \in DOMAIN mappings : h \in Int /\ mappings[h].host = h /\ mappings[h].size \in Nat \ {0}
    BY DEF MemInv, EntryInv
  <2>2. \A h \in DOMAIN mappings : mappings[h].host + (g - h) = g
    BY <2>1
  <2>3. g <= g /\ g < g + mappings[g].size
    BY <2>1
  <2> QED
    BY <2>2, <2>3 DEF Translations
<1> QED
  BY <1>1, <1>2 DEF AliasesShareMemory

\* Whoever loads, unloads, allocates, reallocates, frees, maps or moves the break, and
\* however their steps interleave: blocks of malloc, JIT memory and the segments of
\* listed modules stay mapped unless the break has grown over them, only the tails of
\* blocks made smaller leak, and all names of one memory agree (deallocate_guest_memory,
\* hle_free, hle_realloc, unload_sprx_module, translate_guest_addr).
THEOREM MemoryAlwaysKept == Spec => []MemoryIsKept
<1>1. Init => MemInv
  BY InitMemInv
<1>2. IInv /\ MemInv /\ [Next]_vars => MemInv'
  BY NextMemInv
<1>3. IInv /\ MemInv => MemoryIsKept
  BY SegmentsAreMapped, NothingElseLeaks, NamesAgree DEF MemoryIsKept
<1> QED
  BY <1>1, <1>2, <1>3, LoaderInvariant, PTL DEF Spec
===============================================================================
