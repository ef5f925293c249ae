---------------------------- MODULE Pipelines_proofs ----------------------------
(***************************************************************************)
(* Theorems of Pipelines, alone and as part of GraphicsDevice, for any     *)
(* threads, keys, shader programs and bounds, and of DeviceContext, for    *)
(* any hosts that keep what Vulkan promises; and those of the frame loop   *)
(* (RenderLoop), for any slots, users and draws.                           *)
(*                                                                         *)
(* What is drawn is known through three places that keep translations: the *)
(* files, which outlive a process, the loads of the thread that holds the  *)
(* device, and the caches.  The invariant says of each what its            *)
(* translations are of, and, unless a process was cut short, that they are *)
(* whole.                                                                  *)
(*                                                                         *)
(* A context is opened in stages.  The invariant says of each stage what   *)
(* has been chosen by then and which of the numbered objects are made.     *)
(***************************************************************************)
EXTENDS GraphicsDevice, RenderLoop, TLAPS, SequenceTheorems, FiniteSetTheorems, WellFoundedInduction

Holding == {"load", "write"}

\* Who holds the device lock across steps is loading shaders.
LockInv == \A t \in Threads : holder = t <=> pc[t] \in Holding

\* What a thread works on fits the place it is at; a miss stays a miss.
WorkOK(t) ==
  LET w == work[t] IN
  /\ pc[t] # "idle" => w \in DrawWork \cup DispatchWork
  /\ pc[t] \in {"read", "looked"} => w.kind = "draw"
  /\ w.kind = "draw" => Len(w.codes) = 2 /\ (pc[t] \in Holding => w.seen = None)
  /\ w.kind = "dispatch" => Len(w.codes) = 1
  /\ pc[t] = "read" => w.seen = None
  /\ pc[t] = "load" => Len(loaded[t]) <= Len(w.codes)
  /\ pc[t] = "write" => Len(loaded[t]) < Len(w.codes)

WorksInv == \A t \in Threads : WorkOK(t)

IsOf(words, c, kind, shape) == words.code = c /\ words.stage = kind /\ words.shape = shape

\* A file's name says what it is a translation of.
FilesInv ==
  \A n \in Names :
    files[n].state # "absent" => IsOf(files[n].words, n.code, n.stage, n.shape)

LoadedOK(t) ==
  pc[t] \in Holding =>
    \A i \in 1 .. Len(loaded[t]) :
      IsOf(loaded[t][i], work[t].codes[i], Stages(work[t])[i], ShapeOfWork(work[t]))

\* What a thread has loaded are translations of the programs it has read.
LoadedInv == \A t \in Threads : LoadedOK(t)

Current(k, vs, fs) ==
  /\ VsAddr[k] \notin rewritten => vs = code[VsAddr[k]]
  /\ FsAddr[k] \notin rewritten => fs = code[FsAddr[k]]

\* Words that a pipeline of key k can be made of now.
Fits(k, words) ==
  /\ Len(words) = 2
  /\ Current(k, words[1].code, words[2].code)
  /\ IsOf(words[1], words[1].code, "vs", ShapeOf[k])
  /\ IsOf(words[2], words[2].code, "fs", ShapeOf[k])

\* The caches, the results of look-ups and the queued draws fit their keys, and the
\* layouts are there.
CachedInv == \A k \in Keys : pipelines[k] # None => Fits(k, pipelines[k]) /\ layouts[k] = ShapeOf[k]

DrawOK(t) ==
  LET w == work[t] IN
  w.kind = "draw" =>
    /\ Current(w.key, w.codes[1], w.codes[2])
    /\ w.seen # None => Fits(w.key, w.seen) /\ layouts[w.key] = ShapeOf[w.key]

DrawsInv == \A t \in Threads : DrawOK(t)

PendingInv == \A p \in pending : Fits(p.key, p.words) /\ p.layout = ShapeOf[p.key]

\* A file is being written by the thread that holds the lock.
WritingInv ==
  /\ \A n \in Names :
       files[n].state = "writing" => \E t \in Threads : pc[t] = "write" /\ NameFor(t) = n
  /\ \A t \in Threads : pc[t] = "write" => files[NameFor(t)].state = "writing"

AllWhole(words) == \A i \in 1 .. Len(words) : words[i].whole

WholeFiles == \A n \in Names : files[n].state \notin {"cut", "odd"}

WholeWork(t) ==
  /\ pc[t] \in Holding => AllWhole(loaded[t])
  /\ work[t].kind = "draw" /\ work[t].seen # None => AllWhole(work[t].seen)

WholeCaches ==
  /\ \A k \in Keys : pipelines[k] # None => AllWhole(pipelines[k])
  /\ \A a \in CsAddrs : computes[a] # None => AllWhole(computes[a])
  /\ \A p \in pending : AllWhole(p.words)

\* Until a process is cut short, every translation that is kept is whole.
WholeInv == ~cut => WholeFiles /\ (\A t \in Threads : WholeWork(t)) /\ WholeCaches

\* A pipeline is compiled by who has missed it, and is in the cache from then on.
CompileInv ==
  /\ \A t \in Threads, k \in Keys :
       compiles[t][k] <= 1 /\ (compiles[t][k] > 0 => pipelines[k] # None)
  /\ \A t \in Threads :
       pc[t] \in {"looked"} \cup Holding /\ work[t].kind = "draw" /\ work[t].seen = None
         => compiles[t][work[t].key] = 0

Step(t) ==
  \/ \E k \in Keys : ReadCode(t, k)
  \/ \E a \in CsAddrs : BeginDispatch(t, a)
  \/ Look(t) \/ PushHit(t) \/ Drop(t) \/ LockForMiss(t)
  \/ Load(t) \/ Translate(t) \/ FinishWrite(t)
  \/ Compile(t) \/ CompileFails(t) \/ CompileCompute(t)

(***************************************************************************)
(* What a thread has to do with.                                           *)
(***************************************************************************)

\* The steps by their actors.
LEMMA NextIsStep ==
  Next => (\E t \in Threads : Step(t)) \/ Frame \/ Exit \/ \E a \in Addrs, c \in Codes : Rewrite(a, c)
BY DEF Next, Step

\* A key has shaders' addresses and a shape.
LEMMA KeysHaveAddresses ==
  ASSUME NEW k \in Keys
  PROVE  VsAddr[k] \in Addrs /\ FsAddr[k] \in Addrs /\ ShapeOf[k] \in Shapes
BY DEF Addrs, Shapes

\* The draw or dispatch of a thread that is not idle.
LEMMA WorkTyped ==
  ASSUME TypeOK, NEW t \in Threads, WorkOK(t)
  PROVE  /\ pc[t] # "idle" => work[t].kind \in {"draw", "dispatch"}
         /\ work[t].kind = "draw" =>
              /\ work[t] \in DrawWork /\ work[t].key \in Keys
              /\ work[t].codes \in Seq(Codes) /\ Len(work[t].codes) = 2
              /\ work[t].seen \in Seq(Translations) \cup {None}
              /\ Stages(work[t]) = <<"vs", "fs">>
              /\ ShapeOfWork(work[t]) = ShapeOf[work[t].key]
         /\ work[t].kind = "dispatch" =>
              /\ work[t] \in DispatchWork /\ work[t].addr \in CsAddrs
              /\ work[t].codes \in Seq(Codes) /\ Len(work[t].codes) = 1
              /\ Stages(work[t]) = <<"cs">>
              /\ ShapeOfWork(work[t]) = "plain"
<1>1. work[t] \in {NoWork} \cup DrawWork \cup DispatchWork
  BY DEF TypeOK
<1>2. \A w \in DrawWork : w.kind = "draw" /\ w.key \in Keys /\ w.codes \in Seq(Codes)
                          /\ w.seen \in Seq(Translations) \cup {None}
  BY DEF DrawWork
<1>3. \A w \in DispatchWork : w.kind = "dispatch" /\ w.addr \in CsAddrs /\ w.codes \in Seq(Codes)
  BY DEF DispatchWork
<1>4. NoWork.kind = "none"
  BY DEF NoWork
<1> QED
  BY <1>1, <1>2, <1>3, <1>4 DEF WorkOK, Stages, ShapeOfWork

\* While shaders are missing: the next one's program, stage and resources.
LEMMA NextShader ==
  ASSUME TypeOK, NEW t \in Threads, WorkOK(t), pc[t] \in Holding,
         Len(loaded[t]) < Len(Stages(work[t]))
  PROVE  /\ Len(loaded[t]) \in Nat /\ Len(loaded[t]) < Len(work[t].codes)
         /\ work[t].codes[Len(loaded[t]) + 1] \in Codes
         /\ Stage(t) \in {"vs", "fs", "cs"}
         /\ ShapeOfWork(work[t]) \in Shapes
         /\ NameFor(t) = [code |-> work[t].codes[Len(loaded[t]) + 1], stage |-> Stage(t),
                          shape |-> ShapeOfWork(work[t])]
         /\ NameFor(t) \in Names
         /\ Translation(t) \in Translations
         /\ IsOf(Translation(t), work[t].codes[Len(loaded[t]) + 1], Stage(t), ShapeOfWork(work[t]))
         /\ Translation(t).whole
<1> DEFINE n == Len(loaded[t])
<1>1. n \in Nat
  BY LenProperties DEF TypeOK
<1>2. work[t].codes \in Seq(Codes) /\ Len(Stages(work[t])) = Len(work[t].codes)
  BY WorkTyped DEF Holding
<1>3. Len(work[t].codes) \in {1, 2}
  BY WorkTyped DEF Holding
<1> HIDE DEF n
<1>4. n + 1 \in 1 .. Len(work[t].codes)
  BY <1>1, <1>2, <1>3 DEF n
<1>5. work[t].codes[n + 1] \in Codes
  BY <1>2, <1>4, ElementOfSeq
<1>6. Stages(work[t])[n + 1] \in {"vs", "fs", "cs"}
  <2>1. CASE work[t].kind = "draw"
    <3>1. n + 1 \in 1 .. 2
      BY <1>4, <2>1, WorkTyped
    <3>2. n + 1 = 1 \/ n + 1 = 2
      BY <1>1, <3>1
    <3> QED
      BY <2>1, <3>2, WorkTyped
  <2>2. CASE work[t].kind = "dispatch"
    <3>1. n + 1 \in 1 .. 1
      BY <1>4, <2>2, WorkTyped
    <3>2. n + 1 = 1
      BY <1>1, <3>1
    <3> QED
      BY <2>2, <3>2, WorkTyped
  <2> QED
    BY <2>1, <2>2, WorkTyped DEF Holding
<1>7. ShapeOfWork(work[t]) \in Shapes
  BY WorkTyped, KeysHaveAddresses DEF Holding, Shapes
<1>8. n < Len(work[t].codes)
  BY <1>1, <1>3, <1>4
<1>9. Stage(t) = Stages(work[t])[n + 1]
  BY DEF Stage, n
<1>10. NameFor(t) = [code |-> work[t].codes[n + 1], stage |-> Stage(t), shape |-> ShapeOfWork(work[t])]
  BY DEF NameFor, FileName, n
<1>11. Translation(t) = [code |-> work[t].codes[n + 1], stage |-> Stage(t),
                         shape |-> ShapeOfWork(work[t]), whole |-> TRUE]
  BY DEF Translation, Words, n
<1> QED
  BY <1>1, <1>5, <1>6, <1>7, <1>8, <1>9, <1>10, <1>11 DEF Names, Translations, IsOf, n

\* A thread's step leaves the other threads where they are.
LEMMA OthersStay ==
  ASSUME TypeOK, NEW t \in Threads, Step(t), NEW u \in Threads, u # t
  PROVE  pc'[u] = pc[u] /\ work'[u] = work[u] /\ loaded'[u] = loaded[u]
<1>1. pc \in [Threads -> {"idle", "read", "looked", "load", "write"}] /\ DOMAIN work = Threads
      /\ DOMAIN loaded = Threads
  BY DEF TypeOK
<1>2. CASE \E k \in Keys : ReadCode(t, k)
  BY <1>1, <1>2 DEF ReadCode
<1>3. CASE \E a \in CsAddrs : BeginDispatch(t, a)
  BY <1>1, <1>3 DEF BeginDispatch
<1>4. CASE Look(t) \/ LockForMiss(t) \/ Load(t) \/ Translate(t) \/ FinishWrite(t)
  BY <1>1, <1>4 DEF Look, LockForMiss, Load, Translate, FinishWrite
<1>5. CASE PushHit(t) \/ Drop(t) \/ Compile(t) \/ CompileFails(t) \/ CompileCompute(t)
  BY <1>1, <1>5 DEF PushHit, Drop, Compile, CompileFails, CompileCompute, Unlock, Done
<1> QED
  BY <1>2, <1>3, <1>4, <1>5 DEF Step

\* The steps that are no thread's.
LEMMA OutsideSteps ==
  ASSUME Frame \/ (\E a \in Addrs, c \in Codes : Rewrite(a, c)) \/ UNCHANGED vars
  PROVE  /\ UNCHANGED <<context, holder, pipelines, layouts, computes, threadVars, files,
                        compiles, cut>>
         /\ pending' = {} \/ pending' = pending
BY DEF Frame, Rewrite, vars, deviceVars, countVars

(***************************************************************************)
(* Types.                                                                  *)
(***************************************************************************)

\* A thread is done.
LEMMA DoneTyped ==
  ASSUME TypeOK, NEW t \in Threads, Done(t)
  PROVE  /\ pc' \in [Threads -> {"idle", "read", "looked", "load", "write"}]
         /\ work' \in [Threads -> {NoWork} \cup DrawWork \cup DispatchWork]
         /\ loaded' \in [Threads -> Seq(Translations)]
<1>1. << >> \in Seq(Translations)
  BY EmptySeq
<1> QED
  BY <1>1 DEF Done, TypeOK

\* A draw or a dispatch begins.
LEMMA BeginTyped ==
  ASSUME TypeOK, NEW t \in Threads,
         (\E k \in Keys : ReadCode(t, k)) \/ \E a \in CsAddrs : BeginDispatch(t, a)
  PROVE  TypeOK'
<1>1. draws' \in 0 .. MaxDraws
  BY PipelinesAssumption DEF ReadCode, BeginDispatch, TypeOK
<1>2. CASE \E k \in Keys : ReadCode(t, k)
  <2>1. PICK k \in Keys : ReadCode(t, k)
    BY <1>2
  <2> DEFINE w == [kind |-> "draw", key |-> k, codes |-> <<code[VsAddr[k]], code[FsAddr[k]]>>,
                   seen |-> None]
  <2>2. code[VsAddr[k]] \in Codes /\ code[FsAddr[k]] \in Codes
    BY KeysHaveAddresses DEF TypeOK
  <2>3. <<code[VsAddr[k]], code[FsAddr[k]]>> \in Seq(Codes)
    BY <2>2
  <2>4. w \in DrawWork
    BY <2>3 DEF DrawWork
  <2>5. work' = [work EXCEPT ![t] = w]
    BY <2>1 DEF ReadCode
  <2> HIDE DEF w
  <2>6. work' \in [Threads -> {NoWork} \cup DrawWork \cup DispatchWork]
    BY <2>4, <2>5 DEF TypeOK
  <2> QED
    BY <1>1, <2>1, <2>6 DEF ReadCode, TypeOK, deviceVars, guestVars
<1>3. CASE \E a \in CsAddrs : BeginDispatch(t, a)
  <2>1. PICK a \in CsAddrs : BeginDispatch(t, a)
    BY <1>3
  <2> DEFINE w == [kind |-> "dispatch", addr |-> a, codes |-> <<code[a]>>]
  <2>2. code[a] \in Codes
    BY DEF TypeOK, Addrs
  <2>3. <<code[a]>> \in Seq(Codes) /\ << >> \in Seq(Translations)
    BY <2>2
  <2>4. w \in DispatchWork
    BY <2>3 DEF DispatchWork
  <2>5. work' = [work EXCEPT ![t] = w]
    BY <2>1 DEF BeginDispatch
  <2> HIDE DEF w
  <2>6. work' \in [Threads -> {NoWork} \cup DrawWork \cup DispatchWork]
    BY <2>4, <2>5 DEF TypeOK
  <2>7. loaded' \in [Threads -> Seq(Translations)]
    BY <2>1, <2>3 DEF BeginDispatch, TypeOK
  <2> QED
    BY <1>1, <2>1, <2>6, <2>7 DEF BeginDispatch, TypeOK, guestVars
<1> QED
  BY <1>2, <1>3

\* A thread looks into the cache.
LEMMA LookTyped ==
  ASSUME TypeOK, NEW t \in Threads, WorkOK(t), Look(t)
  PROVE  /\ TypeOK' /\ work[t] \in DrawWork
         /\ work'[t] = [kind |-> "draw", key |-> work[t].key, codes |-> work[t].codes,
                        seen |-> pipelines[work[t].key]]
<1> DEFINE w == [kind |-> "draw", key |-> work[t].key, codes |-> work[t].codes,
                 seen |-> pipelines[work[t].key]]
<1>1. work[t].kind = "draw"
  BY DEF Look, WorkOK
<1>2. work[t] \in DrawWork /\ work[t].key \in Keys /\ work[t].codes \in Seq(Codes)
  BY <1>1, WorkTyped
<1>3. pipelines[work[t].key] \in Seq(Translations) \cup {None}
  BY <1>2 DEF TypeOK
<1>4. w \in DrawWork
  BY <1>2, <1>3 DEF DrawWork
<1>5. [work[t] EXCEPT !.seen = pipelines[work[t].key]] = w
  BY <1>1, <1>2 DEF DrawWork
<1>6. work' = [work EXCEPT ![t] = w]
  BY <1>5 DEF Look
<1> HIDE DEF w
<1>7. work' \in [Threads -> {NoWork} \cup DrawWork \cup DispatchWork] /\ work'[t] = w
  BY <1>4, <1>6 DEF TypeOK
<1>8. TypeOK'
  BY <1>7 DEF Look, TypeOK, deviceVars, guestVars, countVars
<1> QED
  BY <1>2, <1>7, <1>8 DEF w

\* It finds the pipeline, finds no device, or takes the lock.
LEMMA HitTyped ==
  ASSUME TypeOK, NEW t \in Threads, WorkOK(t), PushHit(t) \/ Drop(t) \/ LockForMiss(t)
  PROVE  TypeOK'
<1>1. CASE PushHit(t)
  <2> DEFINE p == PendingDraw(work[t].key, work[t].seen, layouts[work[t].key])
  <2>1. work[t].kind = "draw" /\ work[t].seen # None
    BY <1>1 DEF PushHit, WorkOK
  <2>2. work[t].key \in Keys /\ work[t].seen \in Seq(Translations)
    BY <2>1, WorkTyped
  <2>3. layouts[work[t].key] \in Shapes \cup {None}
    BY <2>2 DEF TypeOK
  <2>4. p \in [key : Keys, words : Seq(Translations), layout : Shapes \cup {None}]
    BY <2>2, <2>3 DEF PendingDraw
  <2>5. pending' = pending \cup {p} /\ Done(t)
    BY <1>1 DEF PushHit
  <2> HIDE DEF p
  <2> QED
    BY <1>1, <2>4, <2>5, DoneTyped DEF PushHit, TypeOK, guestVars, countVars
<1>2. CASE Drop(t)
  <2>1. Done(t)
    BY <1>2 DEF Drop
  <2> QED
    BY <1>2, <2>1, DoneTyped DEF Drop, TypeOK, deviceVars, guestVars, countVars
<1>3. CASE LockForMiss(t)
  <2>1. << >> \in Seq(Translations)
    BY EmptySeq
  <2>2. loaded' \in [Threads -> Seq(Translations)]
    BY <1>3, <2>1 DEF LockForMiss, TypeOK
  <2> QED
    BY <1>3, <2>2 DEF LockForMiss, TypeOK, guestVars, countVars
<1> QED
  BY <1>1, <1>2, <1>3

\* While a file is written a stage is missing.
LEMMA MissingWhileWriting ==
  ASSUME TypeOK, NEW t \in Threads, WorkOK(t), pc[t] = "write"
  PROVE  Len(loaded[t]) < Len(Stages(work[t]))
<1>1. Len(Stages(work[t])) = Len(work[t].codes)
  BY WorkTyped
<1> QED
  BY <1>1 DEF WorkOK

\* What a load adds to the words at hand.
LEMMA ReadTyped ==
  ASSUME TypeOK, NEW n \in Names, Readable(files[n])
  PROVE  /\ files[n].words \in Translations
         /\ ReadWords(files[n]) \in Translations
         /\ IsOf(ReadWords(files[n]), files[n].words.code, files[n].words.stage, files[n].words.shape)
         /\ ReadWords(files[n]).whole = (files[n].state = "whole")
<1> DEFINE f == files[n]
<1>1. f \in {Absent} \cup [state : {"whole", "writing", "cut", "odd"}, words : Translations]
  BY DEF TypeOK
<1>2. f # Absent
  BY DEF Readable, Absent
<1> HIDE DEF f
<1>3. f.words \in Translations
  BY <1>1, <1>2
<1> DEFINE w == f.words
<1>4. w = [code |-> w.code, stage |-> w.stage, shape |-> w.shape, whole |-> w.whole]
      /\ w.code \in Codes /\ w.stage \in {"vs", "fs", "cs"} /\ w.shape \in Shapes
  BY <1>3 DEF Translations
<1> DEFINE r == [w EXCEPT !.whole = f.state = "whole"]
<1>5. r = [code |-> w.code, stage |-> w.stage, shape |-> w.shape, whole |-> f.state = "whole"]
  BY <1>4
<1>6. ReadWords(f) = r
  BY DEF ReadWords
<1> HIDE DEF w, r
<1>7. r.code = w.code /\ r.stage = w.stage /\ r.shape = w.shape /\ r.whole = (f.state = "whole")
  BY <1>5
<1>8. r \in Translations
  BY <1>4, <1>5 DEF Translations
<1> QED
  BY <1>3, <1>6, <1>7, <1>8 DEF IsOf, f, w

\* A shader is loaded or translated and written.
LEMMA LoadTyped ==
  ASSUME TypeOK, WritingInv, NEW t \in Threads, WorkOK(t),
         Load(t) \/ Translate(t) \/ FinishWrite(t)
  PROVE  TypeOK'
<1>1. ASSUME NEW w \in Translations, loaded' = [loaded EXCEPT ![t] = Append(@, w)]
      PROVE  loaded' \in [Threads -> Seq(Translations)]
  <2>1. loaded[t] \in Seq(Translations)
    BY DEF TypeOK
  <2>2. Append(loaded[t], w) \in Seq(Translations)
    BY <2>1, AppendProperties
  <2> QED
    BY <1>1, <2>2 DEF TypeOK
<1>2. CASE Load(t)
  <2>1. NameFor(t) \in Names
    BY <1>2, NextShader DEF Load, Loading, Holding
  <2>2. ReadWords(files[NameFor(t)]) \in Translations
    BY <1>2, <2>1, ReadTyped DEF Load
  <2>3. loaded' \in [Threads -> Seq(Translations)]
    BY <1>1, <1>2, <2>2 DEF Load
  <2> QED
    BY <1>2, <2>3 DEF Load, TypeOK, deviceVars, guestVars, countVars
<1>3. CASE Translate(t)
  <2>1. NameFor(t) \in Names /\ Translation(t) \in Translations
    BY <1>3, NextShader DEF Translate, Loading, Holding
  <2>2. files' = [files EXCEPT ![NameFor(t)] = [state |-> "writing", words |-> Translation(t)]]
    BY <1>3 DEF Translate
  <2>3. files' \in [Names -> {Absent} \cup [state : {"whole", "writing", "cut", "odd"},
                                             words : Translations]]
    BY <2>1, <2>2 DEF TypeOK
  <2> QED
    BY <1>3, <2>3 DEF Translate, TypeOK, deviceVars, guestVars, countVars
<1>4. CASE FinishWrite(t)
  <2>1. pc[t] = "write" /\ Len(loaded[t]) < Len(Stages(work[t]))
    BY <1>4, MissingWhileWriting DEF FinishWrite
  <2>2. NameFor(t) \in Names /\ Translation(t) \in Translations
    BY <2>1, NextShader DEF Holding
  <2>3. files[NameFor(t)].state = "writing"
    BY <2>1 DEF WritingInv
  <2>4. files' \in [Names -> {Absent} \cup [state : {"whole", "writing", "cut", "odd"},
                                             words : Translations]]
    <3> DEFINE f == files[NameFor(t)]
               g == [f EXCEPT !.state = "whole"]
    <3>1. f \in [state : {"whole", "writing", "cut", "odd"}, words : Translations]
      BY <2>2, <2>3 DEF TypeOK, Absent
    <3>2. g \in [state : {"whole", "writing", "cut", "odd"}, words : Translations]
      BY <3>1
    <3>3. files' = [files EXCEPT ![NameFor(t)] = g]
      BY <1>4 DEF FinishWrite
    <3> HIDE DEF g
    <3> QED
      BY <2>2, <3>2, <3>3 DEF TypeOK
  <2>5. loaded' \in [Threads -> Seq(Translations)]
    BY <1>1, <1>4, <2>2 DEF FinishWrite
  <2> QED
    BY <1>4, <2>4, <2>5 DEF FinishWrite, TypeOK, deviceVars, guestVars, countVars
<1> QED
  BY <1>2, <1>3, <1>4

\* A draw or dispatch whose shaders are all there.
LEMMA AllLoaded ==
  ASSUME TypeOK, NEW t \in Threads, WorkOK(t), pc[t] = "load", ~Loading(t)
  PROVE  /\ loaded[t] \in Seq(Translations) /\ loaded[t] # None
         /\ Len(loaded[t]) = Len(Stages(work[t]))
         /\ work[t].kind = "draw" => Len(loaded[t]) = 2
<1>1. loaded[t] \in Seq(Translations)
  BY DEF TypeOK
<1> DEFINE n == Len(loaded[t])
           m == Len(Stages(work[t]))
<1>2. n \in Nat
  BY <1>1, LenProperties
<1>3. m = Len(work[t].codes) /\ m \in {1, 2} /\ (work[t].kind = "draw" => m = 2)
  BY WorkTyped
<1>4. n <= m /\ ~(n < m)
  BY <1>3 DEF WorkOK, Loading
<1> HIDE DEF n, m
<1>5. n = m
  BY <1>2, <1>3, <1>4
<1> QED
  BY <1>1, <1>3, <1>5, PipelinesAssumption DEF n, m

\* A pipeline is compiled.
LEMMA CompileTyped ==
  ASSUME TypeOK, NEW t \in Threads, WorkOK(t), Compile(t) \/ CompileFails(t) \/ CompileCompute(t)
  PROVE  TypeOK'
<1>1. /\ holder' = None /\ Done(t) /\ pc[t] = "load" /\ ~Loading(t)
      /\ UNCHANGED <<context, guestVars, countVars, files, cut>>
  BY DEF Compile, CompileFails, CompileCompute, Compiling, Unlock
<1>2. loaded[t] \in Seq(Translations)
  BY <1>1, AllLoaded
<1>3. work[t].kind = "draw" => work[t].key \in Keys /\ ShapeOf[work[t].key] \in Shapes
  BY WorkTyped, KeysHaveAddresses
<1>4. SUFFICES /\ pipelines' \in [Keys -> Seq(Translations) \cup {None}]
               /\ layouts' \in [Keys -> Shapes \cup {None}]
               /\ computes' \in [CsAddrs -> Seq(Translations) \cup {None}]
               /\ pending' \subseteq [key : Keys, words : Seq(Translations), layout : Shapes \cup {None}]
               /\ compiles' \in [Threads -> [Keys -> Nat]]
  BY <1>1, DoneTyped DEF TypeOK, guestVars, countVars
<1>5. CASE Compile(t)
  <2> DEFINE k == work[t].key
             p == PendingDraw(k, loaded[t], layouts'[k])
  <2>1. k \in Keys /\ ShapeOf[k] \in Shapes
    BY <1>3, <1>5 DEF Compile, Compiling
  <2>2. layouts' = [layouts EXCEPT ![k] = ShapeOf[k]]
    BY <1>5 DEF Compile
  <2>3. layouts' \in [Keys -> Shapes \cup {None}] /\ layouts'[k] = ShapeOf[k]
    BY <2>1, <2>2 DEF TypeOK
  <2>4. p \in [key : Keys, words : Seq(Translations), layout : Shapes \cup {None}]
    BY <1>2, <2>1, <2>3 DEF PendingDraw
  <2>5. pending' = pending \cup {p}
    BY <1>5 DEF Compile
  <2>6. pipelines' \in [Keys -> Seq(Translations) \cup {None}]
    BY <1>2, <1>5, <2>1 DEF Compile, TypeOK
  <2>7. compiles' \in [Threads -> [Keys -> Nat]]
    BY <1>5, <2>1 DEF Compile, TypeOK
  <2> HIDE DEF p
  <2> QED
    BY <1>5, <2>3, <2>4, <2>5, <2>6, <2>7 DEF Compile, TypeOK
<1>6. CASE CompileFails(t)
  <2>1. layouts' \in [Keys -> Shapes \cup {None}]
    BY <1>3, <1>6 DEF CompileFails, Compiling, TypeOK
  <2> QED
    BY <1>6, <2>1 DEF CompileFails, TypeOK
<1>7. CASE CompileCompute(t)
  <2>1. work[t].addr \in CsAddrs
    BY <1>7, WorkTyped DEF CompileCompute, Compiling
  <2>2. << >> \in Seq(Translations)
    BY EmptySeq
  <2>3. computes' \in [CsAddrs -> Seq(Translations) \cup {None}]
    <3>1. computes' = computes \/ \E made \in {loaded[t], << >>} :
            computes' = [computes EXCEPT ![work[t].addr] = made]
      BY <1>7 DEF CompileCompute
    <3> QED
      BY <1>2, <2>1, <2>2, <3>1 DEF TypeOK
  <2> QED
    BY <1>7, <2>3 DEF CompileCompute, TypeOK
<1> QED
  BY <1>5, <1>6, <1>7

\* The process ends.
LEMMA ExitTyped ==
  ASSUME TypeOK, Exit
  PROVE  TypeOK'
<1>1. << >> \in Seq(Translations)
  BY EmptySeq
<1>2. Started /\ UNCHANGED <<draws, rewrites>> /\ exits' \in 0 .. MaxExits
  BY PipelinesAssumption DEF Exit, TypeOK
<1>3. files' \in [Names -> {Absent} \cup [state : {"whole", "writing", "cut", "odd"},
                                           words : Translations]]
  <2> DEFINE open == {n \in Names : files[n].state = "writing"}
  <2>1. PICK left \in {"cut", "odd"} :
          files' = [n \in Names |-> IF n \in open THEN [files[n] EXCEPT !.state = left]
                                                  ELSE files[n]]
    BY DEF Exit
  <2>2. ASSUME NEW n \in Names, n \in open
        PROVE  [files[n] EXCEPT !.state = left]
                 \in [state : {"whole", "writing", "cut", "odd"}, words : Translations]
    <3>1. files[n] \in [state : {"whole", "writing", "cut", "odd"}, words : Translations]
      BY <2>2 DEF TypeOK, Absent
    <3> QED
      BY <3>1
  <2> HIDE DEF open
  <2> QED
    BY <2>1, <2>2 DEF TypeOK
<1>4. cut' \in BOOLEAN
  BY DEF Exit, TypeOK
<1>5. rewritten' \subseteq Addrs /\ pending' = {}
  BY <1>2 DEF Started
<1> QED
  BY <1>1, <1>2, <1>3, <1>4, <1>5 DEF Started, TypeOK

\* Every step keeps the type invariant.
LEMMA TypeStep ==
  ASSUME TypeOK, WritingInv, WorksInv, [Next]_vars
  PROVE  TypeOK'
<1>1. CASE UNCHANGED vars
  BY <1>1 DEF vars, deviceVars, threadVars, guestVars, countVars, TypeOK
<1>2. ASSUME NEW t \in Threads, Step(t) PROVE TypeOK'
  <2>1. WorkOK(t)
    BY DEF WorksInv
  <2> QED
    BY <1>2, <2>1, BeginTyped, LookTyped, HitTyped, LoadTyped, CompileTyped DEF Step
<1>3. CASE Frame
  BY <1>3 DEF Frame, TypeOK, threadVars, guestVars, countVars
<1>4. ASSUME NEW a \in Addrs, NEW c \in Codes, Rewrite(a, c) PROVE TypeOK'
  BY <1>4, PipelinesAssumption DEF Rewrite, TypeOK, deviceVars, threadVars, countVars
<1> QED
  BY <1>1, <1>2, <1>3, <1>4, ExitTyped, NextIsStep

(***************************************************************************)
(* The lock, and what the threads are at.                                  *)
(***************************************************************************)

\* Every step keeps who has the device.
LEMMA LockStep ==
  ASSUME TypeOK, LockInv, [Next]_vars
  PROVE  LockInv'
<1> USE DEF Holding
<1>1. None \notin Threads
  BY PipelinesAssumption
<1>2. ASSUME NEW t \in Threads, Step(t) PROVE LockInv'
  <2>1. \A u \in Threads : u # t => pc'[u] = pc[u]
    BY <1>2, OthersStay
  <2>2. CASE (\E k \in Keys : ReadCode(t, k)) \/ Look(t) \/ PushHit(t) \/ Drop(t)
    <3>1. holder' = holder /\ pc[t] \notin Holding /\ pc'[t] \notin Holding
      BY <2>2 DEF ReadCode, Look, PushHit, Drop, Done, deviceVars, TypeOK
    <3> QED
      BY <2>1, <3>1 DEF LockInv
  <2>3. CASE (\E a \in CsAddrs : BeginDispatch(t, a)) \/ LockForMiss(t)
    <3>1. holder = None /\ holder' = t /\ pc'[t] = "load"
      BY <2>3 DEF BeginDispatch, LockForMiss, TypeOK
    <3> QED
      BY <1>1, <2>1, <3>1 DEF LockInv
  <2>4. CASE Load(t) \/ Translate(t) \/ FinishWrite(t)
    <3>1. holder' = holder /\ pc[t] \in Holding /\ pc'[t] \in Holding
      BY <2>4 DEF Load, Translate, FinishWrite, Loading, deviceVars, TypeOK
    <3> QED
      BY <2>1, <3>1 DEF LockInv
  <2>5. CASE Compile(t) \/ CompileFails(t) \/ CompileCompute(t)
    <3>1. holder' = None /\ pc[t] = "load" /\ pc'[t] = "idle"
      BY <2>5 DEF Compile, CompileFails, CompileCompute, Compiling, Unlock, Done, TypeOK
    <3> QED
      BY <1>1, <2>1, <3>1 DEF LockInv
  <2> QED
    BY <1>2, <2>2, <2>3, <2>4, <2>5 DEF Step
<1>3. CASE Exit
  BY <1>1, <1>3 DEF Exit, Started, LockInv
<1>4. CASE Frame \/ (\E a \in Addrs, c \in Codes : Rewrite(a, c)) \/ UNCHANGED vars
  BY <1>4, OutsideSteps DEF LockInv, threadVars
<1> QED
  BY <1>2, <1>3, <1>4, NextIsStep

\* Every step keeps what calls are about.
LEMMA WorksStep ==
  ASSUME TypeOK, WorksInv, [Next]_vars
  PROVE  WorksInv'
<1> USE DEF Holding
<1>1. ASSUME NEW t \in Threads, Step(t) PROVE WorksInv'
  <2>1. SUFFICES WorkOK(t)'
    <3>1. \A u \in Threads : u # t => WorkOK(u)'
      BY <1>1, OthersStay DEF WorksInv, WorkOK
    <3> QED
      BY <3>1 DEF WorksInv
  <2>2. WorkOK(t)
    BY DEF WorksInv
  <2>3. ASSUME NEW k \in Keys, ReadCode(t, k) PROVE WorkOK(t)'
    <3> DEFINE w == [kind |-> "draw", key |-> k, codes |-> <<code[VsAddr[k]], code[FsAddr[k]]>>,
                     seen |-> None]
    <3>1. pc'[t] = "read" /\ work'[t] = w
      BY <2>3 DEF ReadCode, TypeOK
    <3>2. code[VsAddr[k]] \in Codes /\ code[FsAddr[k]] \in Codes
      BY KeysHaveAddresses DEF TypeOK
    <3>3. w \in DrawWork
      BY <3>2 DEF DrawWork
    <3> QED
      BY <3>1, <3>3 DEF WorkOK
  <2>4. ASSUME NEW a \in CsAddrs, BeginDispatch(t, a) PROVE WorkOK(t)'
    <3> DEFINE w == [kind |-> "dispatch", addr |-> a, codes |-> <<code[a]>>]
    <3>1. pc'[t] = "load" /\ work'[t] = w /\ loaded'[t] = << >>
      BY <2>4 DEF BeginDispatch, TypeOK
    <3>2. code[a] \in Codes
      BY DEF TypeOK, Addrs
    <3>3. w \in DispatchWork
      BY <3>2 DEF DispatchWork
    <3> QED
      BY <3>1, <3>3 DEF WorkOK
  <2>5. CASE Look(t)
    <3>1. pc'[t] = "looked"
      BY <2>5 DEF Look, TypeOK
    <3>2. work'[t] \in DrawWork /\ work'[t].kind = "draw" /\ work'[t].codes = work[t].codes
      <4>1. work[t] \in DrawWork /\ work[t].key \in Keys
        BY <2>2, <2>5, LookTyped DEF DrawWork
      <4>2. pipelines[work[t].key] \in Seq(Translations) \cup {None}
        BY <4>1 DEF TypeOK
      <4> DEFINE w == [kind |-> "draw", key |-> work[t].key, codes |-> work[t].codes,
                       seen |-> pipelines[work[t].key]]
      <4>3. work'[t] = w
        BY <2>2, <2>5, LookTyped
      <4>4. work[t].codes \in Seq(Codes)
        BY <4>1 DEF DrawWork
      <4>5. w \in DrawWork
        BY <4>1, <4>2, <4>4 DEF DrawWork
      <4> QED
        BY <4>3, <4>5
    <3>3. Len(work[t].codes) = 2
      BY <2>2, <2>5 DEF WorkOK, Look
    <3> QED
      BY <3>1, <3>2, <3>3 DEF WorkOK
  <2>6. CASE PushHit(t) \/ Drop(t) \/ Compile(t) \/ CompileFails(t) \/ CompileCompute(t)
    <3>1. Done(t)
      BY <2>6 DEF PushHit, Drop, Compile, CompileFails, CompileCompute, Unlock
    <3>2. pc'[t] = "idle" /\ work'[t] = NoWork
      BY <3>1 DEF Done, TypeOK
    <3> QED
      BY <3>2 DEF WorkOK, NoWork
  <2>7. CASE LockForMiss(t)
    <3>1. pc'[t] = "load" /\ work' = work /\ loaded'[t] = << >> /\ pc[t] = "looked"
          /\ work[t].seen = None
      BY <2>7 DEF LockForMiss, TypeOK
    <3> QED
      BY <2>2, <3>1 DEF WorkOK
  <2>8. CASE Load(t) \/ FinishWrite(t)
    <3>1. /\ pc[t] \in Holding /\ pc'[t] = "load" /\ work' = work
          /\ \E w : loaded'[t] = Append(loaded[t], w) /\ w \in Translations
          /\ Len(loaded[t]) < Len(Stages(work[t]))
      <4>1. CASE Load(t)
        <5>1. NameFor(t) \in Names
          BY <2>2, <4>1, NextShader DEF Load, Loading
        <5>2. ReadWords(files[NameFor(t)]) \in Translations
          BY <4>1, <5>1, ReadTyped DEF Load
        <5> QED
          BY <4>1, <5>2 DEF Load, Loading, TypeOK
      <4>2. CASE FinishWrite(t)
        <5>1. pc[t] = "write" /\ Len(loaded[t]) < Len(Stages(work[t]))
          BY <2>2, <4>2, MissingWhileWriting DEF FinishWrite
        <5>2. Translation(t) \in Translations
          BY <2>2, <5>1, NextShader
        <5> QED
          BY <4>2, <5>1, <5>2 DEF FinishWrite, TypeOK
      <4> QED
        BY <2>8, <4>1, <4>2
    <3>2. loaded[t] \in Seq(Translations) /\ Len(loaded[t]) \in Nat
      BY LenProperties DEF TypeOK
    <3>3. Len(loaded'[t]) = Len(loaded[t]) + 1
      BY <3>1, <3>2, AppendProperties
    <3>4. Len(loaded[t]) < Len(work[t].codes)
      BY <2>2, <3>1, NextShader
    <3>5. Len(work[t].codes) \in Nat
      BY <2>2, <3>1, WorkTyped
    <3>6. Len(loaded[t]) + 1 <= Len(work[t].codes)
      BY <3>2, <3>4, <3>5
    <3> QED
      BY <2>2, <3>1, <3>3, <3>6 DEF WorkOK
  <2>9. CASE Translate(t)
    <3>1. pc[t] = "load" /\ pc'[t] = "write" /\ UNCHANGED <<work, loaded>>
      BY <2>9 DEF Translate, Loading, TypeOK
    <3>2. Len(loaded[t]) < Len(work[t].codes)
      BY <2>2, <2>9, NextShader DEF Translate, Loading
    <3> QED
      BY <2>2, <3>1, <3>2 DEF WorkOK
  <2> QED
    BY <1>1, <2>3, <2>4, <2>5, <2>6, <2>7, <2>8, <2>9 DEF Step
<1>2. CASE Exit
  BY <1>2 DEF Exit, Started, WorksInv, WorkOK, NoWork
<1>3. CASE Frame \/ (\E a \in Addrs, c \in Codes : Rewrite(a, c)) \/ UNCHANGED vars
  BY <1>3, OutsideSteps DEF WorksInv, WorkOK, threadVars
<1> QED
  BY <1>1, <1>2, <1>3, NextIsStep

(***************************************************************************)
(* The files and the loads.                                                *)
(***************************************************************************)

\* The steps of a thread that do not touch the files.
LEMMA FilesStay ==
  ASSUME TypeOK, NEW t \in Threads, Step(t), ~Translate(t), ~FinishWrite(t)
  PROVE  files' = files /\ pc[t] # "write" /\ pc'[t] # "write"
<1>1. CASE (\E k \in Keys : ReadCode(t, k)) \/ \E a \in CsAddrs : BeginDispatch(t, a)
  BY <1>1 DEF ReadCode, BeginDispatch, TypeOK
<1>2. CASE Look(t) \/ LockForMiss(t) \/ Load(t)
  BY <1>2 DEF Look, LockForMiss, Load, Loading, TypeOK
<1>3. CASE PushHit(t) \/ Drop(t) \/ Compile(t) \/ CompileFails(t) \/ CompileCompute(t)
  BY <1>3 DEF PushHit, Drop, Compile, CompileFails, CompileCompute, Compiling, Unlock, Done, TypeOK
<1> QED
  BY <1>1, <1>2, <1>3 DEF Step

\* What a translation leaves in its file, when it begins and when it ends.
LEMMA WrittenFile ==
  ASSUME TypeOK, WritingInv, NEW t \in Threads, WorkOK(t), Translate(t) \/ FinishWrite(t)
  PROVE  /\ NameFor(t) \in Names
         /\ \A n \in Names : n # NameFor(t) => files'[n] = files[n]
         /\ Translate(t) => files'[NameFor(t)] = [state |-> "writing", words |-> Translation(t)]
         /\ FinishWrite(t) => /\ files[NameFor(t)].state = "writing"
                              /\ files'[NameFor(t)].state = "whole"
                              /\ files'[NameFor(t)].words = files[NameFor(t)].words
<1>1. CASE Translate(t)
  <2>1. NameFor(t) \in Names
    BY <1>1, NextShader DEF Translate, Loading, Holding
  <2>2. ~FinishWrite(t)
    BY <1>1 DEF Translate, Loading, FinishWrite
  <2> QED
    BY <1>1, <2>1, <2>2 DEF Translate, TypeOK
<1>2. CASE FinishWrite(t)
  <2>1. pc[t] = "write" /\ Len(loaded[t]) < Len(Stages(work[t]))
    BY <1>2, MissingWhileWriting DEF FinishWrite
  <2>2. NameFor(t) \in Names
    BY <2>1, NextShader DEF Holding
  <2>3. files[NameFor(t)].state = "writing"
    BY <2>1 DEF WritingInv
  <2>4. ~Translate(t)
    BY <2>1 DEF Translate, Loading
  <2>5. files[NameFor(t)] \in [state : {"whole", "writing", "cut", "odd"}, words : Translations]
    BY <2>2, <2>3 DEF TypeOK, Absent
  <2>6. files' = [files EXCEPT ![NameFor(t)] = [files[NameFor(t)] EXCEPT !.state = "whole"]]
    BY <1>2 DEF FinishWrite
  <2>7. files'[NameFor(t)] = [files[NameFor(t)] EXCEPT !.state = "whole"]
    BY <2>2, <2>6 DEF TypeOK
  <2>8. \A n \in Names : n # NameFor(t) => files'[n] = files[n]
    BY <2>2, <2>6 DEF TypeOK
  <2> QED
    BY <2>2, <2>3, <2>4, <2>5, <2>7, <2>8
<1> QED
  BY <1>1, <1>2

\* The end of a process leaves what is in the files, and cuts those that are written.
LEMMA FilesAtExit ==
  ASSUME TypeOK, Exit, NEW n \in Names
  PROVE  /\ files[n].state # "absent" => files'[n].words = files[n].words
         /\ files'[n].state = "absent" <=> files[n].state = "absent"
         /\ files'[n].state # "writing"
         /\ files[n].state # "writing" => files'[n] = files[n]
         /\ ~cut' => files'[n] = files[n] /\ ~cut
<1> DEFINE open == {m \in Names : files[m].state = "writing"}
<1>1. PICK left \in {"cut", "odd"} :
        files' = [m \in Names |-> IF m \in open THEN [files[m] EXCEPT !.state = left]
                                                ELSE files[m]]
  BY DEF Exit
<1>2. cut' = (cut \/ open # {})
  BY DEF Exit
<1>3. CASE files[n].state = "writing"
  <2>1. files[n] \in [state : {"whole", "writing", "cut", "odd"}, words : Translations]
    BY <1>3 DEF TypeOK, Absent
  <2>2. n \in open
    BY <1>3
  <2> HIDE DEF open
  <2>3. files'[n] = [files[n] EXCEPT !.state = left]
    BY <1>1, <2>2
  <2>4. files'[n].state = left /\ files'[n].words = files[n].words
    BY <2>1, <2>3
  <2>5. cut'
    BY <1>2, <2>2
  <2> QED
    BY <1>3, <2>4, <2>5
<1>4. CASE files[n].state # "writing"
  <2>1. files'[n] = files[n]
    BY <1>1, <1>4
  <2>2. ~cut' => ~cut
    BY <1>2 DEF TypeOK
  <2> QED
    BY <1>4, <2>1, <2>2
<1> QED
  BY <1>3, <1>4

\* Every step keeps files of what their names say.
LEMMA FilesStep ==
  ASSUME TypeOK, WorksInv, WritingInv, FilesInv, [Next]_vars
  PROVE  FilesInv'
<1>1. ASSUME NEW t \in Threads, Step(t) PROVE FilesInv'
  <2>1. WorkOK(t)
    BY DEF WorksInv
  <2>2. CASE Translate(t)
    <3>1. IsOf(Translation(t), NameFor(t).code, NameFor(t).stage, NameFor(t).shape)
      <4>1. pc[t] = "load" /\ Len(loaded[t]) < Len(Stages(work[t]))
        BY <2>2 DEF Translate, Loading
      <4> QED
        BY <2>1, <4>1, NextShader DEF Holding, IsOf
    <3>2. files'[NameFor(t)] = [state |-> "writing", words |-> Translation(t)]
          /\ \A n \in Names : n # NameFor(t) => files'[n] = files[n]
      BY <2>1, <2>2, WrittenFile
    <3>3. files'[NameFor(t)].words = Translation(t)
      BY <3>2
    <3>4. ASSUME NEW n \in Names, files'[n].state # "absent"
          PROVE  IsOf(files'[n].words, n.code, n.stage, n.shape)
      <4>1. CASE n = NameFor(t)
        BY <3>1, <3>3, <4>1
      <4>2. CASE n # NameFor(t)
        BY <3>2, <3>4, <4>2 DEF FilesInv
      <4> QED
        BY <4>1, <4>2
    <3> QED
      BY <3>4 DEF FilesInv
  <2>3. CASE FinishWrite(t)
    BY <2>1, <2>3, WrittenFile DEF FilesInv
  <2>4. CASE ~Translate(t) /\ ~FinishWrite(t)
    BY <1>1, <2>4, FilesStay DEF FilesInv
  <2> QED
    BY <2>2, <2>3, <2>4
<1>2. CASE Exit
  BY <1>2, FilesAtExit DEF FilesInv
<1>3. CASE Frame \/ (\E a \in Addrs, c \in Codes : Rewrite(a, c)) \/ UNCHANGED vars
  BY <1>3, OutsideSteps DEF FilesInv
<1> QED
  BY <1>1, <1>2, <1>3, NextIsStep

\* Every step keeps one file open at most, by who has the device.
LEMMA WritingStep ==
  ASSUME TypeOK, LockInv, WorksInv, WritingInv, [Next]_vars
  PROVE  WritingInv'
<1>1. ASSUME NEW t \in Threads, Step(t) PROVE WritingInv'
  <2>1. WorkOK(t)
    BY DEF WorksInv
  <2>2. ASSUME NEW u \in Threads, u # t PROVE pc'[u] = pc[u] /\ NameFor(u)' = NameFor(u)
    BY <1>1, <2>2, OthersStay DEF NameFor, Stage, Stages, ShapeOfWork
  <2>3. ASSUME NEW u \in Threads, u # t, pc[t] \in Holding PROVE pc[u] # "write"
    BY <2>3 DEF LockInv, Holding
  <2>4. CASE Translate(t)
    <3>1. pc[t] = "load" /\ pc'[t] = "write" /\ UNCHANGED <<work, loaded>>
      BY <2>4 DEF Translate, Loading, TypeOK
    <3>2. NameFor(t)' = NameFor(t)
      BY <3>1 DEF NameFor, Stage, Stages, ShapeOfWork
    <3>3. \A n \in Names : files[n].state # "writing"
      BY <2>3, <3>1 DEF WritingInv, Holding
    <3>4. NameFor(t) \in Names /\ files'[NameFor(t)].state = "writing"
          /\ \A n \in Names : n # NameFor(t) => files'[n] = files[n]
      <4>1. files'[NameFor(t)] = [state |-> "writing", words |-> Translation(t)]
        BY <2>1, <2>4, WrittenFile
      <4>2. files'[NameFor(t)].state = "writing"
        BY <4>1
      <4> QED
        BY <2>1, <2>4, <4>2, WrittenFile
    <3>5. \A u \in Threads : pc'[u] = "write" => u = t
      BY <2>2, <2>3, <3>1 DEF Holding
    <3> QED
      BY <3>1, <3>2, <3>3, <3>4, <3>5 DEF WritingInv
  <2>5. CASE FinishWrite(t)
    <3>1. pc[t] = "write" /\ pc'[t] = "load"
      BY <2>5 DEF FinishWrite, TypeOK
    <3>2. \A n \in Names : n # NameFor(t) => files[n].state # "writing"
      BY <2>3, <3>1 DEF WritingInv, Holding
    <3>3. \A n \in Names : files'[n].state # "writing"
      BY <2>1, <2>5, <3>2, WrittenFile
    <3>4. \A u \in Threads : pc'[u] # "write"
      BY <2>2, <2>3, <3>1 DEF Holding
    <3> QED
      BY <3>3, <3>4 DEF WritingInv
  <2>6. CASE ~Translate(t) /\ ~FinishWrite(t)
    <3>1. files' = files /\ pc[t] # "write" /\ pc'[t] # "write"
      BY <1>1, <2>6, FilesStay
    <3> QED
      BY <2>2, <3>1 DEF WritingInv
  <2> QED
    BY <2>4, <2>5, <2>6
<1>2. CASE Exit
  <2>1. \A u \in Threads : pc'[u] # "write"
    BY <1>2 DEF Exit, Started
  <2> QED
    BY <1>2, <2>1, FilesAtExit DEF WritingInv
<1>3. CASE Frame \/ (\E a \in Addrs, c \in Codes : Rewrite(a, c)) \/ UNCHANGED vars
  BY <1>3, OutsideSteps DEF WritingInv, threadVars, NameFor, Stage, Stages, ShapeOfWork
<1> QED
  BY <1>1, <1>2, <1>3, NextIsStep

\* What comes next when a file is read, or written to its end: the translation of the
\* next program, whole unless the file is not.
LEMMA NextWords ==
  ASSUME TypeOK, FilesInv, WritingInv, NEW t \in Threads, WorkOK(t), Load(t) \/ FinishWrite(t)
  PROVE  /\ pc[t] \in Holding /\ pc'[t] \in Holding /\ work' = work
         /\ Len(loaded[t]) < Len(Stages(work[t]))
         /\ NameFor(t) \in Names
         /\ \E w \in Translations :
              /\ loaded'[t] = Append(loaded[t], w)
              /\ IsOf(w, work[t].codes[Len(loaded[t]) + 1], Stage(t), ShapeOfWork(work[t]))
              /\ w.whole \/ (Load(t) /\ Readable(files[NameFor(t)]) /\ files[NameFor(t)].state # "whole")
<1> DEFINE Comes(w) ==
             /\ loaded'[t] = Append(loaded[t], w)
             /\ IsOf(w, work[t].codes[Len(loaded[t]) + 1], Stage(t), ShapeOfWork(work[t]))
             /\ w.whole \/ (Load(t) /\ Readable(files[NameFor(t)]) /\ files[NameFor(t)].state # "whole")
<1>1. CASE Load(t)
  <2>1. pc[t] = "load" /\ Len(loaded[t]) < Len(Stages(work[t])) /\ Readable(files[NameFor(t)])
    BY <1>1 DEF Load, Loading
  <2>2. /\ NameFor(t) \in Names
        /\ NameFor(t) = [code |-> work[t].codes[Len(loaded[t]) + 1], stage |-> Stage(t),
                         shape |-> ShapeOfWork(work[t])]
    BY <2>1, NextShader DEF Holding
  <2> DEFINE w == ReadWords(files[NameFor(t)])
             n == NameFor(t)
  <2>3. n.code = work[t].codes[Len(loaded[t]) + 1] /\ n.stage = Stage(t)
        /\ n.shape = ShapeOfWork(work[t])
    BY <2>2
  <2>4. w \in Translations /\ w.whole = (files[n].state = "whole")
        /\ IsOf(w, files[n].words.code, files[n].words.stage, files[n].words.shape)
    BY <2>1, <2>2, ReadTyped
  <2>5. IsOf(files[n].words, n.code, n.stage, n.shape)
    BY <2>1, <2>2 DEF FilesInv, Readable
  <2>6. loaded'[t] = Append(loaded[t], w) /\ work' = work /\ pc' = pc
    BY <1>1 DEF Load, TypeOK
  <2>7. IsOf(w, work[t].codes[Len(loaded[t]) + 1], Stage(t), ShapeOfWork(work[t]))
    BY <2>3, <2>4, <2>5 DEF IsOf
  <2>8. Comes(w)
    BY <1>1, <2>1, <2>4, <2>6, <2>7
  <2> HIDE DEF w, Comes
  <2>9. \E v \in Translations : Comes(v)
    BY <2>4, <2>8
  <2>10. pc[t] \in Holding /\ pc'[t] \in Holding
    BY <2>1, <2>6 DEF Holding
  <2> QED
    BY <2>1, <2>2, <2>6, <2>9, <2>10 DEF Comes
<1>2. CASE FinishWrite(t)
  <2>1. pc[t] = "write" /\ Len(loaded[t]) < Len(Stages(work[t]))
    BY <1>2, MissingWhileWriting DEF FinishWrite
  <2>2. NameFor(t) \in Names /\ Translation(t) \in Translations /\ Translation(t).whole
        /\ IsOf(Translation(t), work[t].codes[Len(loaded[t]) + 1], Stage(t), ShapeOfWork(work[t]))
    BY <2>1, NextShader DEF Holding
  <2>3. loaded'[t] = Append(loaded[t], Translation(t)) /\ work' = work /\ pc'[t] = "load"
    BY <1>2 DEF FinishWrite, TypeOK
  <2>4. Comes(Translation(t))
    BY <2>2, <2>3
  <2> HIDE DEF Comes
  <2>5. \E v \in Translations : Comes(v)
    BY <2>2, <2>4
  <2>6. pc[t] \in Holding /\ pc'[t] \in Holding
    BY <2>1, <2>3 DEF Holding
  <2> QED
    BY <2>1, <2>2, <2>3, <2>5, <2>6 DEF Comes
<1> QED
  BY <1>1, <1>2

\* Every step keeps loads of the programs read.
LEMMA LoadedStep ==
  ASSUME TypeOK, LockInv, WorksInv, FilesInv, WritingInv, LoadedInv, [Next]_vars
  PROVE  LoadedInv'
<1>1. ASSUME NEW t \in Threads, Step(t) PROVE LoadedInv'
  <2>1. SUFFICES LoadedOK(t)'
    <3>1. \A u \in Threads : u # t => LoadedOK(u)'
      BY <1>1, OthersStay DEF LoadedInv, LoadedOK, Stages, ShapeOfWork
    <3> QED
      BY <3>1 DEF LoadedInv
  <2>2. WorkOK(t) /\ LoadedOK(t)
    BY DEF WorksInv, LoadedInv
  <2>3. CASE (\E a \in CsAddrs : BeginDispatch(t, a)) \/ LockForMiss(t)
    <3>1. loaded'[t] = << >>
      BY <2>3 DEF BeginDispatch, LockForMiss, TypeOK
    <3>2. Len(loaded'[t]) = 0
      BY <3>1
    <3> QED
      BY <3>2 DEF LoadedOK
  <2>4. CASE Load(t) \/ FinishWrite(t)
    <3> DEFINE n == Len(loaded[t])
    <3>1. /\ pc[t] \in Holding /\ work' = work /\ n < Len(Stages(work[t]))
          /\ \E w \in Translations :
               /\ loaded'[t] = Append(loaded[t], w)
               /\ IsOf(w, work[t].codes[n + 1], Stage(t), ShapeOfWork(work[t]))
      BY <2>2, <2>4, NextWords
    <3>2. PICK w \in Translations :
            /\ loaded'[t] = Append(loaded[t], w)
            /\ IsOf(w, work[t].codes[n + 1], Stage(t), ShapeOfWork(work[t]))
      BY <3>1
    <3>3. loaded[t] \in Seq(Translations) /\ n \in Nat
      BY LenProperties DEF TypeOK
    <3>4. /\ Len(loaded'[t]) = n + 1 /\ loaded'[t][n + 1] = w
          /\ \A i \in 1 .. n : loaded'[t][i] = loaded[t][i]
      BY <3>2, <3>3, AppendProperties
    <3>5. Stage(t) = Stages(work[t])[n + 1]
      BY DEF Stage
    <3>6. \A i \in 1 .. n : IsOf(loaded'[t][i], work[t].codes[i], Stages(work[t])[i],
                                 ShapeOfWork(work[t]))
      BY <2>2, <3>1, <3>4 DEF LoadedOK
    <3> HIDE DEF n
    <3>7. \A i \in 1 .. Len(loaded'[t]) : i \in 1 .. n \/ i = n + 1
      BY <3>3, <3>4
    <3>8. \A i \in 1 .. Len(loaded'[t]) :
            IsOf(loaded'[t][i], work[t].codes[i], Stages(work[t])[i], ShapeOfWork(work[t]))
      BY <3>2, <3>4, <3>5, <3>6, <3>7
    <3> QED
      BY <3>1, <3>8 DEF LoadedOK, Stages, ShapeOfWork
  <2>5. CASE Translate(t)
    <3>1. pc[t] \in Holding /\ UNCHANGED <<work, loaded>>
      BY <2>5 DEF Translate, Loading, Holding
    <3> QED
      BY <2>2, <3>1 DEF LoadedOK, Stages, ShapeOfWork
  <2>6. CASE (\E k \in Keys : ReadCode(t, k)) \/ Look(t)
    BY <2>6 DEF ReadCode, Look, LoadedOK, Holding, TypeOK
  <2>7. CASE PushHit(t) \/ Drop(t) \/ Compile(t) \/ CompileFails(t) \/ CompileCompute(t)
    <3>1. pc'[t] = "idle"
      BY <2>7 DEF PushHit, Drop, Compile, CompileFails, CompileCompute, Unlock, Done, TypeOK
    <3> QED
      BY <3>1 DEF LoadedOK, Holding
  <2> QED
    BY <1>1, <2>3, <2>4, <2>5, <2>6, <2>7 DEF Step
<1>2. CASE Exit
  BY <1>2 DEF Exit, Started, LoadedInv, LoadedOK, Holding
<1>3. CASE Frame \/ (\E a \in Addrs, c \in Codes : Rewrite(a, c)) \/ UNCHANGED vars
  BY <1>3, OutsideSteps DEF LoadedInv, LoadedOK, threadVars, Stages, ShapeOfWork
<1> QED
  BY <1>1, <1>2, <1>3, NextIsStep

(***************************************************************************)
(* What is drawn.                                                          *)
(***************************************************************************)

\* Code that is current stays so until the guest changes it.
LEMMA CurrentStays ==
  ASSUME TypeOK, UNCHANGED <<code, rewritten>> \/ \E a \in Addrs, c \in Codes : Rewrite(a, c)
  PROVE  /\ \A k \in Keys : \A vs, fs : Current(k, vs, fs) => Current(k, vs, fs)'
         /\ \A k \in Keys : \A words : Fits(k, words) => Fits(k, words)'
<1>1. ASSUME NEW k \in Keys, NEW vs, NEW fs, Current(k, vs, fs) PROVE Current(k, vs, fs)'
  <2>1. CASE UNCHANGED <<code, rewritten>>
    BY <1>1, <2>1 DEF Current
  <2>2. CASE \E a \in Addrs, c \in Codes : Rewrite(a, c)
    <3>1. PICK a \in Addrs, c \in Codes : Rewrite(a, c)
      BY <2>2
    <3>2. rewritten' = rewritten \cup {a} /\ \A b \in Addrs : b # a => code'[b] = code[b]
      BY <3>1 DEF Rewrite, TypeOK
    <3> QED
      BY <1>1, <3>2, KeysHaveAddresses DEF Current
  <2> QED
    BY <2>1, <2>2
<1> QED
  BY <1>1 DEF Fits

\* The threads of the program leave the guest's code alone.
LEMMA GuestStays ==
  ASSUME NEW t \in Threads, Step(t)
  PROVE  UNCHANGED <<code, rewritten>>
<1>1. CASE (\E k \in Keys : ReadCode(t, k)) \/ \E a \in CsAddrs : BeginDispatch(t, a)
  BY <1>1 DEF ReadCode, BeginDispatch, guestVars
<1>2. CASE Look(t) \/ PushHit(t) \/ Drop(t) \/ LockForMiss(t) \/ Load(t) \/ Translate(t)
           \/ FinishWrite(t)
  BY <1>2 DEF Look, PushHit, Drop, LockForMiss, Load, Translate, FinishWrite, guestVars
<1>3. CASE Compile(t) \/ CompileFails(t) \/ CompileCompute(t)
  BY <1>3 DEF Compile, CompileFails, CompileCompute, guestVars
<1> QED
  BY <1>1, <1>2, <1>3 DEF Step

\* Only the compilation of a pipeline touches the caches of pipelines and layouts, and a
\* layout that is made is its key's.
LEMMA CachesStay ==
  ASSUME TypeOK, NEW t \in Threads, WorkOK(t), Step(t)
  PROVE  /\ \A k \in Keys : layouts[k] = ShapeOf[k] => layouts'[k] = ShapeOf[k]
         /\ ~Compile(t) => pipelines' = pipelines
         /\ ~Compile(t) /\ ~PushHit(t) => pending' = pending
<1>1. CASE (\E k \in Keys : ReadCode(t, k)) \/ \E a \in CsAddrs : BeginDispatch(t, a)
  BY <1>1 DEF ReadCode, BeginDispatch, deviceVars
<1>2. CASE Look(t) \/ PushHit(t) \/ Drop(t) \/ LockForMiss(t) \/ Load(t) \/ Translate(t)
           \/ FinishWrite(t)
  BY <1>2 DEF Look, PushHit, Drop, LockForMiss, Load, Translate, FinishWrite, deviceVars
<1>3. CASE Compile(t) \/ CompileFails(t)
  <2>1. work[t].key \in Keys
    BY <1>3, WorkTyped DEF Compile, CompileFails, Compiling
  <2>2. layouts' = layouts \/ layouts' = [layouts EXCEPT ![work[t].key] = ShapeOf[work[t].key]]
    BY <1>3 DEF Compile, CompileFails
  <2>3. \A k \in Keys : layouts[k] = ShapeOf[k] => layouts'[k] = ShapeOf[k]
    BY <2>1, <2>2 DEF TypeOK
  <2> QED
    BY <1>3, <2>3 DEF CompileFails
<1>4. CASE CompileCompute(t)
  BY <1>4 DEF CompileCompute
<1> QED
  BY <1>1, <1>2, <1>3, <1>4 DEF Step

\* What is compiled fits the key it is compiled for.
LEMMA CompiledFits ==
  ASSUME TypeOK, NEW t \in Threads, WorkOK(t), LoadedOK(t), DrawOK(t), Compile(t)
  PROVE  /\ work[t].key \in Keys /\ Fits(work[t].key, loaded[t])
         /\ layouts' = [layouts EXCEPT ![work[t].key] = ShapeOf[work[t].key]]
         /\ layouts'[work[t].key] = ShapeOf[work[t].key]
         /\ pipelines' = [pipelines EXCEPT ![work[t].key] = loaded[t]]
         /\ pending' = pending \cup {PendingDraw(work[t].key, loaded[t], ShapeOf[work[t].key])}
<1>1. pc[t] = "load" /\ ~Loading(t) /\ work[t].kind = "draw"
  BY DEF Compile, Compiling
<1>2. work[t].key \in Keys /\ Stages(work[t]) = <<"vs", "fs">>
      /\ ShapeOfWork(work[t]) = ShapeOf[work[t].key]
  BY <1>1, WorkTyped
<1>3. Len(loaded[t]) = 2
  BY <1>1, AllLoaded
<1>4. \A i \in 1 .. 2 : IsOf(loaded[t][i], work[t].codes[i], <<"vs", "fs">>[i], ShapeOf[work[t].key])
  BY <1>1, <1>2, <1>3 DEF LoadedOK, Holding
<1>5. IsOf(loaded[t][1], work[t].codes[1], "vs", ShapeOf[work[t].key])
      /\ IsOf(loaded[t][2], work[t].codes[2], "fs", ShapeOf[work[t].key])
  BY <1>4
<1>6. Current(work[t].key, work[t].codes[1], work[t].codes[2])
  BY <1>1 DEF DrawOK
<1>7. Fits(work[t].key, loaded[t])
  BY <1>3, <1>5, <1>6 DEF Fits, IsOf
<1>8. layouts' = [layouts EXCEPT ![work[t].key] = ShapeOf[work[t].key]]
      /\ pipelines' = [pipelines EXCEPT ![work[t].key] = loaded[t]]
  BY DEF Compile
<1>9. layouts'[work[t].key] = ShapeOf[work[t].key]
  BY <1>2, <1>8 DEF TypeOK
<1>10. pending' = pending \cup {PendingDraw(work[t].key, loaded[t], ShapeOf[work[t].key])}
  BY <1>9 DEF Compile
<1> QED
  BY <1>2, <1>7, <1>8, <1>9, <1>10

\* Every step keeps what is cached fitting its key.
LEMMA CachedStep ==
  ASSUME TypeOK, WorksInv, LoadedInv, CachedInv, DrawsInv, [Next]_vars
  PROVE  CachedInv'
<1>1. ASSUME NEW t \in Threads, Step(t) PROVE CachedInv'
  <2>1. WorkOK(t) /\ LoadedOK(t) /\ DrawOK(t)
    BY DEF WorksInv, LoadedInv, DrawsInv
  <2>2. UNCHANGED <<code, rewritten>>
    BY <1>1, GuestStays
  <2>3. CASE Compile(t)
    <3>1. \A k \in Keys : k # work[t].key => pipelines'[k] = pipelines[k]
      BY <2>1, <2>3, CompiledFits DEF TypeOK
    <3>2. pipelines'[work[t].key] = loaded[t]
      BY <2>1, <2>3, CompiledFits DEF TypeOK
    <3>3. Fits(work[t].key, loaded[t]) /\ layouts'[work[t].key] = ShapeOf[work[t].key]
      BY <2>1, <2>3, CompiledFits
    <3>4. \A k \in Keys : layouts[k] = ShapeOf[k] => layouts'[k] = ShapeOf[k]
      BY <1>1, <2>1, CachesStay
    <3>5. ASSUME NEW k \in Keys, pipelines'[k] # None
          PROVE  Fits(k, pipelines[k])' /\ layouts'[k] = ShapeOf[k]
      <4>1. CASE k = work[t].key
        BY <2>2, <3>2, <3>3, <4>1 DEF Fits, Current
      <4>2. CASE k # work[t].key
        <5>1. Fits(k, pipelines[k]) /\ layouts[k] = ShapeOf[k]
          BY <3>1, <3>5, <4>2 DEF CachedInv
        <5> QED
          BY <2>2, <3>1, <3>4, <4>2, <5>1 DEF Fits, Current
      <4> QED
        BY <4>1, <4>2
    <3> QED
      BY <3>5 DEF CachedInv
  <2>4. CASE ~Compile(t)
    <3>1. pipelines' = pipelines /\ \A k \in Keys : layouts[k] = ShapeOf[k] => layouts'[k] = ShapeOf[k]
      BY <1>1, <2>1, <2>4, CachesStay
    <3> QED
      BY <2>2, <3>1 DEF CachedInv, Fits, Current
  <2> QED
    BY <2>3, <2>4
<1>2. CASE Exit
  BY <1>2 DEF Exit, Started, CachedInv
<1>3. CASE Frame \/ UNCHANGED vars
  <2>1. UNCHANGED <<pipelines, layouts, code, rewritten>>
    BY <1>3 DEF Frame, vars, deviceVars, guestVars
  <2> QED
    BY <2>1 DEF CachedInv, Fits, Current
<1>4. CASE \E a \in Addrs, c \in Codes : Rewrite(a, c)
  <2>1. UNCHANGED <<pipelines, layouts>>
    BY <1>4, OutsideSteps
  <2>2. ASSUME NEW k \in Keys, pipelines[k] # None PROVE Fits(k, pipelines[k])'
    <3> DEFINE w == pipelines[k]
    <3>1. Fits(k, w)
      BY <2>2 DEF CachedInv
    <3>2. Current(k, w[1].code, w[2].code)
      BY <3>1 DEF Fits
    <3>3. \A vs, fs : Current(k, vs, fs) => Current(k, vs, fs)'
      BY <1>4, CurrentStays
    <3> QED
      BY <2>1, <3>1, <3>2, <3>3 DEF Fits, Current
  <2> QED
    BY <2>1, <2>2 DEF CachedInv
<1> QED
  BY <1>1, <1>2, <1>3, <1>4, NextIsStep

\* Every step keeps what threads draw fitting its key.
LEMMA DrawsStep ==
  ASSUME TypeOK, WorksInv, CachedInv, DrawsInv, [Next]_vars
  PROVE  DrawsInv'
<1>1. ASSUME NEW t \in Threads, Step(t) PROVE DrawsInv'
  <2>1. UNCHANGED <<code, rewritten>> /\ WorkOK(t) /\ DrawOK(t)
    BY <1>1, GuestStays DEF WorksInv, DrawsInv
  <2>2. \A k \in Keys : layouts[k] = ShapeOf[k] => layouts'[k] = ShapeOf[k]
    BY <1>1, <2>1, CachesStay
  <2>3. ASSUME NEW u \in Threads, work'[u] = work[u] PROVE DrawOK(u)'
    <3>1. DrawOK(u) /\ WorkOK(u)
      BY DEF DrawsInv, WorksInv
    <3>2. work[u].kind = "draw" => work[u].key \in Keys
      BY <3>1, WorkTyped
    <3> QED
      BY <2>1, <2>2, <2>3, <3>1, <3>2 DEF DrawOK, Fits, Current
  <2>4. SUFFICES DrawOK(t)'
    BY <1>1, <2>3, OthersStay DEF DrawsInv
  <2>5. ASSUME NEW k \in Keys, ReadCode(t, k) PROVE DrawOK(t)'
    <3>1. work'[t] = [kind |-> "draw", key |-> k, codes |-> <<code[VsAddr[k]], code[FsAddr[k]]>>,
                      seen |-> None]
      BY <2>5 DEF ReadCode, TypeOK
    <3>2. work'[t].key = k /\ work'[t].seen = None /\ work'[t].codes[1] = code[VsAddr[k]]
          /\ work'[t].codes[2] = code[FsAddr[k]]
      BY <3>1
    <3> QED
      BY <2>1, <3>2 DEF DrawOK, Current
  <2>6. ASSUME NEW a \in CsAddrs, BeginDispatch(t, a) PROVE DrawOK(t)'
    BY <2>6 DEF BeginDispatch, DrawOK, TypeOK
  <2>7. CASE Look(t)
    <3>1. work'[t] = [kind |-> "draw", key |-> work[t].key, codes |-> work[t].codes,
                      seen |-> pipelines[work[t].key]]
      BY <2>1, <2>7, LookTyped
    <3>2. work'[t].key = work[t].key /\ work'[t].seen = pipelines[work[t].key]
          /\ work'[t].codes = work[t].codes
      BY <3>1
    <3>3. work[t].kind = "draw" /\ work[t].key \in Keys
      BY <2>1, <2>7, WorkTyped DEF WorkOK, Look
    <3>4. pipelines[work[t].key] # None =>
            Fits(work[t].key, pipelines[work[t].key]) /\ layouts[work[t].key] = ShapeOf[work[t].key]
      BY <3>3 DEF CachedInv
    <3>5. Current(work[t].key, work[t].codes[1], work[t].codes[2])
      BY <2>1, <3>3 DEF DrawOK
    <3>6. Current(work[t].key, work[t].codes[1], work[t].codes[2])'
      BY <2>1, <3>2, <3>5 DEF Current
    <3>7. ASSUME work'[t].seen # None
          PROVE  Fits(work[t].key, work[t].seen)' /\ layouts'[work'[t].key] = ShapeOf[work'[t].key]
      BY <2>1, <2>2, <3>2, <3>3, <3>4, <3>7 DEF Fits, Current
    <3> QED
      BY <3>2, <3>6, <3>7 DEF DrawOK
  <2>8. CASE PushHit(t) \/ Drop(t) \/ Compile(t) \/ CompileFails(t) \/ CompileCompute(t)
    <3>1. work'[t] = NoWork
      BY <2>8 DEF PushHit, Drop, Compile, CompileFails, CompileCompute, Unlock, Done, TypeOK
    <3> QED
      BY <3>1 DEF DrawOK, NoWork
  <2>9. CASE LockForMiss(t) \/ Load(t) \/ Translate(t) \/ FinishWrite(t)
    BY <2>3, <2>9 DEF LockForMiss, Load, Translate, FinishWrite
  <2> QED
    BY <1>1, <2>5, <2>6, <2>7, <2>8, <2>9 DEF Step
<1>2. CASE Exit
  BY <1>2 DEF Exit, Started, DrawsInv, DrawOK, NoWork
<1>3. CASE Frame \/ UNCHANGED vars
  <2>1. UNCHANGED <<work, layouts, code, rewritten>>
    BY <1>3 DEF Frame, vars, deviceVars, threadVars, guestVars
  <2> QED
    BY <2>1 DEF DrawsInv, DrawOK, Fits, Current
<1>4. CASE \E a \in Addrs, c \in Codes : Rewrite(a, c)
  <2>1. UNCHANGED <<work, layouts>>
    BY <1>4, OutsideSteps DEF threadVars
  <2>2. ASSUME NEW t \in Threads, work[t].kind = "draw" PROVE DrawOK(t)'
    <3>1. DrawOK(t) /\ WorkOK(t) /\ work[t].key \in Keys
      BY <2>2, WorkTyped DEF DrawsInv, WorksInv
    <3>2. \A vs, fs : Current(work[t].key, vs, fs) => Current(work[t].key, vs, fs)'
      <4> DEFINE k == work[t].key
      <4>1. k \in Keys /\ work' = work
        BY <2>1, <3>1
      <4>2. \A vs, fs : (VsAddr[k] \notin rewritten => vs = code[VsAddr[k]])
                        /\ (FsAddr[k] \notin rewritten => fs = code[FsAddr[k]])
                        => (VsAddr[k] \notin rewritten' => vs = code'[VsAddr[k]])
                           /\ (FsAddr[k] \notin rewritten' => fs = code'[FsAddr[k]])
        BY <1>4, <4>1, CurrentStays DEF Current
      <4> QED
        BY <4>1, <4>2 DEF Current
    <3>3. Current(work[t].key, work[t].codes[1], work[t].codes[2])'
      <4>1. Current(work[t].key, work[t].codes[1], work[t].codes[2])
        BY <2>2, <3>1 DEF DrawOK
      <4> QED
        BY <2>1, <3>2, <4>1 DEF Current
    <3>4. ASSUME work[t].seen # None
          PROVE  Fits(work[t].key, work[t].seen)' /\ layouts'[work[t].key] = ShapeOf[work[t].key]
      <4>1. Fits(work[t].key, work[t].seen) /\ layouts[work[t].key] = ShapeOf[work[t].key]
        BY <2>2, <3>1, <3>4 DEF DrawOK
      <4>2. Current(work[t].key, work[t].seen[1].code, work[t].seen[2].code)
        BY <4>1 DEF Fits
      <4> QED
        BY <2>1, <3>2, <4>1, <4>2 DEF Fits, Current
    <3> QED
      BY <2>1, <3>3, <3>4 DEF DrawOK
  <2> QED
    BY <2>1, <2>2 DEF DrawsInv, DrawOK
<1> QED
  BY <1>1, <1>2, <1>3, <1>4, NextIsStep

\* Every step keeps queued draws fitting theirs.
LEMMA PendingStep ==
  ASSUME TypeOK, WorksInv, LoadedInv, DrawsInv, PendingInv, [Next]_vars
  PROVE  PendingInv'
<1>1. ASSUME NEW t \in Threads, Step(t) PROVE PendingInv'
  <2>1. WorkOK(t) /\ LoadedOK(t) /\ DrawOK(t) /\ UNCHANGED <<code, rewritten>>
    BY <1>1, GuestStays DEF WorksInv, LoadedInv, DrawsInv
  <2>2. ASSUME NEW k \in Keys, NEW words, Fits(k, words),
               pending' = pending \cup {PendingDraw(k, words, ShapeOf[k])}
        PROVE  PendingInv'
    <3> DEFINE p == PendingDraw(k, words, ShapeOf[k])
    <3>1. p.key = k /\ p.words = words /\ p.layout = ShapeOf[k]
      BY DEF PendingDraw
    <3>2. pending' = pending \cup {p}
      BY <2>2
    <3> HIDE DEF p
    <3>3. Fits(p.key, p.words)
      BY <2>2, <3>1
    <3>4. \A q \in pending' : Fits(q.key, q.words) /\ q.layout = ShapeOf[q.key]
      BY <3>1, <3>2, <3>3 DEF PendingInv
    <3> QED
      BY <2>1, <3>4 DEF PendingInv, Fits, Current
  <2>3. CASE PushHit(t)
    <3>1. work[t].seen # None /\ pc[t] = "looked"
          /\ pending' = pending \cup {PendingDraw(work[t].key, work[t].seen, layouts[work[t].key])}
      BY <2>3 DEF PushHit
    <3>2. work[t].kind = "draw" /\ work[t].key \in Keys
      BY <2>1, <3>1, WorkTyped DEF WorkOK
    <3>3. Fits(work[t].key, work[t].seen) /\ layouts[work[t].key] = ShapeOf[work[t].key]
      BY <2>1, <3>1, <3>2 DEF DrawOK
    <3> QED
      BY <2>2, <3>1, <3>2, <3>3
  <2>4. CASE Compile(t)
    BY <2>1, <2>2, <2>4, CompiledFits
  <2>5. CASE ~Compile(t) /\ ~PushHit(t)
    BY <1>1, <2>1, <2>5, CachesStay DEF PendingInv, Fits, Current
  <2> QED
    BY <2>3, <2>4, <2>5
<1>2. CASE Exit
  BY <1>2 DEF Exit, Started, PendingInv
<1>3. CASE Frame \/ UNCHANGED vars
  <2>1. UNCHANGED <<code, rewritten>>
    BY <1>3 DEF Frame, vars, guestVars
  <2>2. pending' = {} \/ pending' = pending
    BY <1>3, OutsideSteps
  <2> QED
    BY <2>1, <2>2 DEF PendingInv, Fits, Current
<1>4. CASE \E a \in Addrs, c \in Codes : Rewrite(a, c)
  <2>1. pending' = {} \/ pending' = pending
    BY <1>4, OutsideSteps
  <2>2. ASSUME NEW p \in pending PROVE Fits(p.key, p.words)'
    <3>1. p.key \in Keys /\ Fits(p.key, p.words)
      BY DEF PendingInv, TypeOK
    <3> QED
      BY <1>4, <3>1, CurrentStays
  <2> QED
    BY <2>1, <2>2 DEF PendingInv
<1> QED
  BY <1>1, <1>2, <1>3, <1>4, NextIsStep

(***************************************************************************)
(* What the caches are worth.                                              *)
(***************************************************************************)

\* A thread that loads a file reads all of it: nobody else is writing.
LEMMA LoadsWhole ==
  ASSUME TypeOK, LockInv, WorksInv, FilesInv, WritingInv, WholeFiles,
         NEW t \in Threads, WholeWork(t), Load(t) \/ FinishWrite(t)
  PROVE  AllWhole(loaded'[t])
<1>1. WorkOK(t)
  BY DEF WorksInv
<1> DEFINE n == Len(loaded[t])
<1>2. /\ pc[t] \in Holding /\ NameFor(t) \in Names
      /\ \E w \in Translations :
           /\ loaded'[t] = Append(loaded[t], w)
           /\ w.whole \/ (Load(t) /\ Readable(files[NameFor(t)]) /\ files[NameFor(t)].state # "whole")
  BY <1>1, NextWords
<1>3. ~(Load(t) /\ Readable(files[NameFor(t)]) /\ files[NameFor(t)].state # "whole")
  <2>1. SUFFICES ASSUME Load(t), Readable(files[NameFor(t)]), files[NameFor(t)].state # "whole"
                 PROVE  FALSE
    OBVIOUS
  <2>2. files[NameFor(t)].state = "writing"
    BY <1>2, <2>1 DEF Readable, WholeFiles
  <2>3. PICK u \in Threads : pc[u] = "write"
    BY <1>2, <2>2 DEF WritingInv
  <2>4. pc[t] = "load"
    BY <2>1 DEF Load, Loading
  <2> QED
    BY <2>3, <2>4 DEF LockInv, Holding
<1>4. PICK w \in Translations : loaded'[t] = Append(loaded[t], w) /\ w.whole
  BY <1>2, <1>3
<1>5. loaded[t] \in Seq(Translations) /\ n \in Nat
  BY LenProperties DEF TypeOK
<1>6. /\ Len(loaded'[t]) = n + 1 /\ loaded'[t][n + 1] = w
      /\ \A i \in 1 .. n : loaded'[t][i] = loaded[t][i]
  BY <1>4, <1>5, AppendProperties
<1>7. \A i \in 1 .. n : loaded[t][i].whole
  BY <1>2 DEF WholeWork, AllWhole
<1> HIDE DEF n
<1>8. \A i \in 1 .. Len(loaded'[t]) : i \in 1 .. n \/ i = n + 1
  BY <1>5, <1>6
<1>9. \A i \in 1 .. Len(loaded'[t]) : loaded'[t][i].whole
  BY <1>4, <1>6, <1>7, <1>8
<1> QED
  BY <1>9 DEF AllWhole

\* A step keeps its thread's translations whole.
LEMMA WholeWorkStep ==
  ASSUME TypeOK, LockInv, WorksInv, FilesInv, WritingInv, WholeFiles, WholeCaches,
         NEW t \in Threads, WholeWork(t), Step(t)
  PROVE  WholeWork(t)'
<1>1. WorkOK(t)
  BY DEF WorksInv
<1>2. CASE \E k \in Keys : ReadCode(t, k)
  BY <1>2 DEF ReadCode, WholeWork, Holding, TypeOK
<1>3. CASE \E a \in CsAddrs : BeginDispatch(t, a)
  <2>1. loaded'[t] = << >> /\ work'[t].kind = "dispatch"
    BY <1>3 DEF BeginDispatch, TypeOK
  <2>2. Len(loaded'[t]) = 0
    BY <2>1
  <2> QED
    BY <2>1, <2>2 DEF WholeWork, AllWhole
<1>4. CASE Look(t)
  <2>1. work'[t] = [kind |-> "draw", key |-> work[t].key, codes |-> work[t].codes,
                    seen |-> pipelines[work[t].key]] /\ pc'[t] = "looked"
    BY <1>1, <1>4, LookTyped DEF Look, TypeOK
  <2>2. work'[t].seen = pipelines[work[t].key]
    BY <2>1
  <2>3. work[t].key \in Keys
    BY <1>1, <1>4, WorkTyped DEF WorkOK, Look
  <2> QED
    BY <2>1, <2>2, <2>3 DEF WholeCaches, WholeWork, AllWhole, Holding
<1>5. CASE PushHit(t) \/ Drop(t) \/ Compile(t) \/ CompileFails(t) \/ CompileCompute(t)
  <2>1. pc'[t] = "idle" /\ work'[t] = NoWork
    BY <1>5 DEF PushHit, Drop, Compile, CompileFails, CompileCompute, Unlock, Done, TypeOK
  <2> QED
    BY <2>1 DEF WholeWork, NoWork, Holding
<1>6. CASE LockForMiss(t)
  <2>1. loaded'[t] = << >> /\ work' = work
    BY <1>6 DEF LockForMiss, TypeOK
  <2>2. Len(loaded'[t]) = 0
    BY <2>1
  <2> QED
    BY <2>1, <2>2 DEF WholeWork, AllWhole
<1>7. CASE Load(t) \/ FinishWrite(t)
  <2>1. AllWhole(loaded'[t]) /\ work' = work
    BY <1>1, <1>7, LoadsWhole, NextWords
  <2> QED
    BY <2>1 DEF WholeWork, AllWhole
<1>8. CASE Translate(t)
  <2>1. pc[t] \in Holding /\ UNCHANGED <<work, loaded>>
    BY <1>8 DEF Translate, Loading, Holding
  <2> QED
    BY <2>1 DEF WholeWork, AllWhole
<1> QED
  BY <1>2, <1>3, <1>4, <1>5, <1>6, <1>7, <1>8 DEF Step

\* A step keeps cached ones whole.
LEMMA WholeCachesStep ==
  ASSUME TypeOK, WorksInv, WholeCaches, NEW t \in Threads, WholeWork(t), Step(t)
  PROVE  WholeCaches'
<1>1. WorkOK(t)
  BY DEF WorksInv
<1>2. CASE PushHit(t)
  <2>1. pc[t] = "looked" /\ work[t].seen # None /\ UNCHANGED <<pipelines, computes>>
        /\ pending' = pending \cup {PendingDraw(work[t].key, work[t].seen, layouts[work[t].key])}
    BY <1>2 DEF PushHit
  <2>2. AllWhole(work[t].seen)
    BY <1>1, <2>1 DEF WholeWork, WorkOK
  <2> DEFINE p == PendingDraw(work[t].key, work[t].seen, layouts[work[t].key])
  <2>3. p.words = work[t].seen
    BY DEF PendingDraw
  <2>4. pending' = pending \cup {p}
    BY <2>1
  <2> HIDE DEF p
  <2>5. \A q \in pending' : AllWhole(q.words)
    BY <2>2, <2>3, <2>4 DEF WholeCaches
  <2> QED
    BY <2>1, <2>5 DEF WholeCaches, AllWhole
<1>3. CASE Compile(t)
  <2>1. pc[t] = "load" /\ work[t].key \in Keys
    BY <1>1, <1>3, WorkTyped DEF Compile, Compiling
  <2>2. AllWhole(loaded[t])
    BY <2>1 DEF WholeWork, Holding
  <2>3. pipelines' = [pipelines EXCEPT ![work[t].key] = loaded[t]] /\ computes' = computes
        /\ pending' = pending \cup {PendingDraw(work[t].key, loaded[t], layouts'[work[t].key])}
    BY <1>3 DEF Compile
  <2>4. \A k \in Keys : pipelines'[k] # None => AllWhole(pipelines'[k])
    <3>1. \A k \in Keys : pipelines'[k] = loaded[t] \/ pipelines'[k] = pipelines[k]
      BY <2>3 DEF TypeOK
    <3> QED
      BY <2>2, <3>1 DEF WholeCaches, AllWhole
  <2> DEFINE p == PendingDraw(work[t].key, loaded[t], layouts'[work[t].key])
  <2>5. p.words = loaded[t]
    BY DEF PendingDraw
  <2>6. pending' = pending \cup {p}
    BY <2>3
  <2> HIDE DEF p
  <2>7. \A q \in pending' : AllWhole(q.words)
    BY <2>2, <2>5, <2>6 DEF WholeCaches
  <2> QED
    BY <2>3, <2>4, <2>7 DEF WholeCaches, AllWhole
<1>4. CASE CompileCompute(t)
  <2>1. pc[t] = "load" /\ UNCHANGED <<pipelines, pending>>
    BY <1>4 DEF CompileCompute, Compiling
  <2>2. AllWhole(loaded[t])
    BY <2>1 DEF WholeWork, Holding
  <2>3. AllWhole(<< >>)
    BY DEF AllWhole
  <2>4. computes' = computes \/ \E made \in {loaded[t], << >>} :
          computes' = [computes EXCEPT ![work[t].addr] = made]
    BY <1>4 DEF CompileCompute
  <2>5. \A a \in CsAddrs : computes'[a] \in {computes[a], loaded[t], << >>}
    BY <2>4 DEF TypeOK
  <2>6. \A a \in CsAddrs : computes'[a] # None => AllWhole(computes'[a])
    BY <2>2, <2>3, <2>5 DEF WholeCaches
  <2> QED
    BY <2>1, <2>6 DEF WholeCaches, AllWhole
<1>5. CASE ~PushHit(t) /\ ~Compile(t) /\ ~CompileCompute(t)
  <2>1. UNCHANGED <<pipelines, pending>>
    BY <1>1, <1>5, CachesStay
  <2>2. computes' = computes
    <3>1. CASE (\E k \in Keys : ReadCode(t, k)) \/ \E a \in CsAddrs : BeginDispatch(t, a)
      BY <3>1 DEF ReadCode, BeginDispatch, deviceVars
    <3>2. CASE Look(t) \/ Drop(t) \/ LockForMiss(t) \/ Load(t) \/ Translate(t)
               \/ FinishWrite(t) \/ CompileFails(t)
      BY <3>2 DEF Look, Drop, LockForMiss, Load, Translate, FinishWrite, CompileFails, deviceVars
    <3> QED
      BY <1>5, <3>1, <3>2 DEF Step
  <2> QED
    BY <2>1, <2>2 DEF WholeCaches, AllWhole
<1> QED
  BY <1>2, <1>3, <1>4, <1>5

\* Every step keeps all of them whole.
LEMMA WholeStep ==
  ASSUME TypeOK, LockInv, WorksInv, FilesInv, WritingInv, WholeInv, [Next]_vars
  PROVE  WholeInv'
<1>1. ASSUME NEW t \in Threads, Step(t), ~cut' PROVE WholeInv'
  <2>1. cut' = cut
    <3>1. CASE (\E k \in Keys : ReadCode(t, k)) \/ \E a \in CsAddrs : BeginDispatch(t, a)
      BY <3>1 DEF ReadCode, BeginDispatch
    <3>2. CASE Look(t) \/ PushHit(t) \/ Drop(t) \/ LockForMiss(t) \/ Load(t) \/ Translate(t)
               \/ FinishWrite(t) \/ Compile(t) \/ CompileFails(t) \/ CompileCompute(t)
      BY <3>2 DEF Look, PushHit, Drop, LockForMiss, Load, Translate, FinishWrite, Compile,
                  CompileFails, CompileCompute
    <3> QED
      BY <1>1, <3>1, <3>2 DEF Step
  <2>2. WholeFiles /\ WholeCaches /\ WholeWork(t) /\ WorkOK(t)
    BY <1>1, <2>1 DEF WholeInv, WorksInv
  <2>3. WholeFiles'
    <3>1. CASE Translate(t)
      <4>1. files'[NameFor(t)] = [state |-> "writing", words |-> Translation(t)]
            /\ \A n \in Names : n # NameFor(t) => files'[n] = files[n]
        BY <2>2, <3>1, WrittenFile
      <4>2. files'[NameFor(t)].state = "writing"
        BY <4>1
      <4> QED
        BY <2>2, <4>1, <4>2 DEF WholeFiles
    <3>2. CASE FinishWrite(t)
      BY <2>2, <3>2, WrittenFile DEF WholeFiles
    <3>3. CASE ~Translate(t) /\ ~FinishWrite(t)
      BY <1>1, <2>2, <3>3, FilesStay DEF WholeFiles
    <3> QED
      BY <3>1, <3>2, <3>3
  <2>4. WholeWork(t)' /\ WholeCaches'
    BY <1>1, <2>2, WholeWorkStep, WholeCachesStep
  <2>5. \A u \in Threads : u # t => WholeWork(u)'
    BY <1>1, <2>1, OthersStay DEF WholeInv, WholeWork, AllWhole
  <2> QED
    BY <2>3, <2>4, <2>5 DEF WholeInv
<1>2. CASE Exit
  <2>1. ~cut' => WholeFiles'
    BY <1>2, FilesAtExit DEF WholeInv, WholeFiles
  <2>2. \A t \in Threads : WholeWork(t)'
    BY <1>2 DEF Exit, Started, WholeWork, Holding, NoWork
  <2>3. WholeCaches'
    BY <1>2 DEF Exit, Started, WholeCaches
  <2> QED
    BY <2>1, <2>2, <2>3 DEF WholeInv
<1>3. CASE Frame \/ (\E a \in Addrs, c \in Codes : Rewrite(a, c)) \/ UNCHANGED vars
  BY <1>3, OutsideSteps DEF WholeInv, WholeFiles, WholeWork, WholeCaches, AllWhole, threadVars
<1> QED
  BY <1>1, <1>2, <1>3, NextIsStep DEF WholeInv

\* Every step keeps a missed pipeline uncompiled.
LEMMA CompileStep ==
  ASSUME TypeOK, WorksInv, CompileInv, [Next]_vars
  PROVE  CompileInv'
<1>1. ASSUME NEW t \in Threads, Step(t) PROVE CompileInv'
  <2>1. WorkOK(t)
    BY DEF WorksInv
  <2>2. \A u \in Threads : u # t => pc'[u] = pc[u] /\ work'[u] = work[u]
    BY <1>1, OthersStay
  <2>3. CASE Compile(t)
    <3> DEFINE k == work[t].key
    <3>1. pc[t] = "load" /\ ~Loading(t) /\ work[t].kind = "draw" /\ pc'[t] = "idle"
      BY <2>3 DEF Compile, Compiling, Unlock, Done, TypeOK
    <3>2. k \in Keys /\ work[t].seen = None /\ loaded[t] # None
      BY <2>1, <3>1, WorkTyped, AllLoaded DEF WorkOK, Holding
    <3>3. compiles[t][k] = 0
      BY <3>1, <3>2 DEF CompileInv, Holding
    <3>4. compiles' = [compiles EXCEPT ![t][k] = @ + 1] /\ pipelines' = [pipelines EXCEPT ![k] = loaded[t]]
      BY <2>3 DEF Compile
    <3> HIDE DEF k
    <3>5. pipelines'[k] # None /\ \A j \in Keys : j # k => pipelines'[j] = pipelines[j]
      BY <3>2, <3>4 DEF TypeOK
    <3>6. compiles'[t][k] = compiles[t][k] + 1
      BY <3>2, <3>4 DEF TypeOK
    <3>7. \A u \in Threads, j \in Keys : u # t \/ j # k => compiles'[u][j] = compiles[u][j]
      BY <3>2, <3>4 DEF TypeOK
    <3>8. ASSUME NEW u \in Threads, NEW j \in Keys
          PROVE  compiles'[u][j] <= 1 /\ (compiles'[u][j] > 0 => pipelines'[j] # None)
      <4>1. CASE u = t /\ j = k
        BY <3>3, <3>5, <3>6, <4>1
      <4>2. CASE u # t \/ j # k
        <5>1. compiles'[u][j] = compiles[u][j]
          BY <3>7, <4>2
        <5>2. compiles[u][j] <= 1 /\ (compiles[u][j] > 0 => pipelines[j] # None)
          BY DEF CompileInv
        <5> QED
          BY <3>5, <5>1, <5>2
      <4> QED
        BY <4>1, <4>2
    <3>9. ASSUME NEW u \in Threads, pc'[u] \in {"looked"} \cup Holding, work'[u].kind = "draw",
                 work'[u].seen = None
          PROVE  compiles'[u][work'[u].key] = 0
      <4>1. u # t
        BY <3>1, <3>9 DEF Holding
      <4>2. pc'[u] = pc[u] /\ work'[u] = work[u] /\ WorkOK(u)
        BY <2>2, <4>1 DEF WorksInv
      <4>3. work[u].key \in Keys
        BY <3>9, <4>2, WorkTyped
      <4> QED
        BY <3>7, <3>9, <4>1, <4>2, <4>3 DEF CompileInv
    <3> QED
      BY <3>8, <3>9 DEF CompileInv
  <2>4. CASE ~Compile(t)
    <3>1. pipelines' = pipelines
      BY <1>1, <2>1, <2>4, CachesStay
    <3>2. compiles' = compiles
      <4>1. CASE (\E k \in Keys : ReadCode(t, k)) \/ \E a \in CsAddrs : BeginDispatch(t, a)
        BY <4>1 DEF ReadCode, BeginDispatch
      <4>2. CASE Look(t) \/ PushHit(t) \/ Drop(t) \/ LockForMiss(t) \/ Load(t) \/ Translate(t)
                 \/ FinishWrite(t) \/ CompileFails(t) \/ CompileCompute(t)
        BY <4>2 DEF Look, PushHit, Drop, LockForMiss, Load, Translate, FinishWrite, CompileFails,
                    CompileCompute
      <4> QED
        BY <1>1, <2>4, <4>1, <4>2 DEF Step
    <3>3. pc'[t] \in {"looked"} \cup Holding /\ work'[t].kind = "draw" /\ work'[t].seen = None
            => compiles[t][work'[t].key] = 0
      <4>1. CASE (\E k \in Keys : ReadCode(t, k)) \/ (\E a \in CsAddrs : BeginDispatch(t, a))
        BY <4>1 DEF ReadCode, BeginDispatch, Holding, TypeOK
      <4>2. CASE Look(t)
        <5>1. work'[t] = [kind |-> "draw", key |-> work[t].key, codes |-> work[t].codes,
                          seen |-> pipelines[work[t].key]]
          BY <2>1, <4>2, LookTyped
        <5>2. work'[t].key = work[t].key /\ work'[t].seen = pipelines[work[t].key]
          BY <5>1
        <5>3. work[t].key \in Keys
          BY <2>1, <4>2, WorkTyped DEF WorkOK, Look
        <5>4. compiles[t][work[t].key] \in Nat
          BY <5>3 DEF TypeOK
        <5>5. compiles[t][work[t].key] > 0 => pipelines[work[t].key] # None
          BY <5>3 DEF CompileInv
        <5> QED
          BY <5>2, <5>4, <5>5
      <4>3. CASE PushHit(t) \/ Drop(t) \/ CompileFails(t) \/ CompileCompute(t)
        <5>1. pc'[t] = "idle"
          BY <4>3 DEF PushHit, Drop, CompileFails, CompileCompute, Unlock, Done, TypeOK
        <5> QED
          BY <5>1 DEF Holding
      <4>4. CASE LockForMiss(t) \/ Load(t) \/ Translate(t) \/ FinishWrite(t)
        <5>1. pc[t] \in {"looked"} \cup Holding /\ work' = work
          BY <4>4 DEF LockForMiss, Load, Translate, FinishWrite, Loading, Holding
        <5> QED
          BY <5>1 DEF CompileInv
      <4> QED
        BY <1>1, <2>4, <4>1, <4>2, <4>3, <4>4 DEF Step
    <3> QED
      BY <2>2, <3>1, <3>2, <3>3 DEF CompileInv
  <2> QED
    BY <2>3, <2>4
<1>2. CASE Exit
  <2>1. /\ \A t \in Threads, k \in Keys : compiles'[t][k] = 0
        /\ \A t \in Threads : pc'[t] = "idle"
    BY <1>2 DEF Exit, Started
  <2> QED
    BY <2>1 DEF CompileInv, Holding
<1>3. CASE Frame \/ (\E a \in Addrs, c \in Codes : Rewrite(a, c)) \/ UNCHANGED vars
  BY <1>3, OutsideSteps DEF CompileInv, threadVars
<1> QED
  BY <1>1, <1>2, <1>3, NextIsStep

(***************************************************************************)
(* Theorems.                                                               *)
(***************************************************************************)

Inv ==
  /\ TypeOK /\ LockInv /\ WorksInv
  /\ FilesInv /\ WritingInv /\ LoadedInv
  /\ CachedInv /\ DrawsInv /\ PendingInv
  /\ WholeInv /\ CompileInv

\* The invariant holds at first.
LEMMA InvInit == Init => Inv
<1> SUFFICES ASSUME Init PROVE Inv
  OBVIOUS
<1> USE DEF Init
<1>1. TypeOK
  <2>1. << >> \in Seq(Translations)
    BY EmptySeq
  <2>2. MaxDraws \in Nat /\ MaxRewrites \in Nat /\ MaxExits \in Nat
    BY PipelinesAssumption
  <2>3. pc \in [Threads -> {"idle", "read", "looked", "load", "write"}]
        /\ work \in [Threads -> {NoWork} \cup DrawWork \cup DispatchWork]
        /\ loaded \in [Threads -> Seq(Translations)]
    BY <2>1
  <2>4. /\ pipelines \in [Keys -> Seq(Translations) \cup {None}]
        /\ layouts \in [Keys -> Shapes \cup {None}]
        /\ computes \in [CsAddrs -> Seq(Translations) \cup {None}]
    OBVIOUS
  <2>5. compiles \in [Threads -> [Keys -> Nat]]
    OBVIOUS
  <2>6. files \in [Names -> {Absent} \cup [state : {"whole", "writing", "cut", "odd"},
                                           words : Translations]]
    OBVIOUS
  <2>7. draws \in 0 .. MaxDraws /\ rewrites \in 0 .. MaxRewrites /\ exits \in 0 .. MaxExits
    BY <2>2
  <2>8. rewritten = {} /\ pending = {} /\ code \in [Addrs -> Codes]
        /\ context \in BOOLEAN /\ cut \in BOOLEAN /\ holder \in Threads \cup {None}
    OBVIOUS
  <2> QED
    BY <2>3, <2>4, <2>5, <2>6, <2>7, <2>8 DEF TypeOK
<1>2. \A t \in Threads : pc[t] = "idle" /\ work[t].kind = "none" /\ compiles[t] = [k \in Keys |-> 0]
  BY DEF NoWork
<1>3. \A n \in Names : files[n].state = "absent"
  BY DEF Absent
<1>4. None \notin Threads
  BY PipelinesAssumption
<1>5. LockInv /\ WorksInv /\ LoadedInv /\ DrawsInv
  BY <1>2, <1>4 DEF LockInv, WorksInv, WorkOK, LoadedInv, LoadedOK, DrawsInv, DrawOK, Holding
<1>6. FilesInv /\ WritingInv
  BY <1>2, <1>3 DEF FilesInv, WritingInv
<1>7. CachedInv /\ PendingInv
  BY DEF CachedInv, PendingInv
<1>8. WholeInv
  BY <1>2, <1>3 DEF WholeInv, WholeFiles, WholeWork, WholeCaches, Holding
<1>9. CompileInv
  BY <1>2 DEF CompileInv, Holding
<1> QED
  BY <1>1, <1>5, <1>6, <1>7, <1>8, <1>9 DEF Inv

\* Every step keeps it.
LEMMA InvNext == Inv /\ [Next]_vars => Inv'
BY TypeStep, LockStep, WorksStep, FilesStep, WritingStep, LoadedStep, CachedStep, DrawsStep,
   PendingStep, WholeStep, CompileStep DEF Inv

\* It holds always.
LEMMA InvHolds == Spec => []Inv
BY InvInit, InvNext, PTL DEF Spec

\* The device's run is a run of Pipelines, of which it adds nothing to the variables.
LEMMA DrawsOfTheDevice == GraphicsSpec => Spec
<1>1. GraphicsInit => Init
  BY DEF GraphicsInit
<1>2. [GraphicsNext]_graphicsVars => [Next]_vars
  BY DEF GraphicsNext, Drawing, OnDevice, graphicsVars
<1> QED
  BY <1>1, <1>2, PTL DEF GraphicsSpec, Spec

\* Queued draws match the guest.
LEMMA InvMatches == Inv => DrawsMatchTheGuest
<1> SUFFICES ASSUME Inv, NEW p \in pending
             PROVE  /\ VsAddr[p.key] \notin rewritten => p.words[1].code = code[VsAddr[p.key]]
                    /\ FsAddr[p.key] \notin rewritten => p.words[2].code = code[FsAddr[p.key]]
                    /\ \A i \in 1 .. 2 : p.words[i].shape = ShapeOf[p.key]
                                         /\ p.words[i].stage = <<"vs", "fs">>[i]
                    /\ p.layout = ShapeOf[p.key]
  BY DEF DrawsMatchTheGuest, UnchangedCodeIsDrawn, PendingDrawsHaveLayouts
<1>1. Fits(p.key, p.words) /\ p.layout = ShapeOf[p.key]
  BY DEF Inv, PendingInv
<1>2. p.words[1].shape = ShapeOf[p.key] /\ p.words[1].stage = "vs"
      /\ p.words[2].shape = ShapeOf[p.key] /\ p.words[2].stage = "fs"
  BY <1>1 DEF Fits, IsOf
<1>3. \A i \in 1 .. 2 : p.words[i].shape = ShapeOf[p.key] /\ p.words[i].stage = <<"vs", "fs">>[i]
  BY <1>2
<1> QED
  BY <1>1, <1>3 DEF Fits, Current

\* The caches are sound.
LEMMA InvSound == Inv => CachesAreSound
<1> SUFFICES ASSUME Inv PROVE CachesAreSound
  OBVIOUS
<1>1. OneCompilePerThread
  BY DEF Inv, CompileInv, OneCompilePerThread
<1>2. ASSUME NEW words \in Seq(Translations), AllWhole(words), NEW w \in Range(words)
      PROVE  w.whole
  BY <1>2 DEF Range, AllWhole
<1>3. ASSUME ~cut, NEW w \in InUse PROVE w.whole
  <2>1. WholeCaches /\ TypeOK
    BY <1>3 DEF Inv, WholeInv
  <2>2. CASE \E p \in pending : w \in Range(p.words)
    BY <1>2, <2>1, <2>2 DEF WholeCaches, TypeOK
  <2>3. CASE \E k \in Keys : pipelines[k] # None /\ w \in Range(pipelines[k])
    BY <1>2, <2>1, <2>3 DEF WholeCaches, TypeOK
  <2>4. CASE \E a \in CsAddrs : computes[a] # None /\ w \in Range(computes[a])
    BY <1>2, <2>1, <2>4 DEF WholeCaches, TypeOK
  <2> QED
    BY <1>3, <2>2, <2>3, <2>4 DEF InUse
<1> QED
  BY <1>1, <1>3 DEF CachesAreSound, OnlyExitsTruncate

\* Every variable of the drawing path keeps its type, whatever the device does.
THEOREM TypeCorrect == GraphicsSpec => []TypeOK
<1>1. Inv => TypeOK
  BY DEF Inv
<1> QED
  BY <1>1, InvHolds, DrawsOfTheDevice, PTL

\* However decoders, the frame loop, the guest's stores and ends of the process
\* interleave, a queued draw has the programs that stand at its shaders' addresses unless
\* the guest has rewritten them, translated for its resources, and its pipeline's layout:
\* dispatch_draw_for_state's look-up before the lock and the files of older processes
\* never show it another's.
THEOREM DrawsAlwaysMatch == GraphicsSpec => []DrawsMatchTheGuest
BY InvMatches, InvHolds, DrawsOfTheDevice, PTL

\* Until a process ends within a write, no translation in use is cut short, because
\* fs::write runs under the device lock; and no thread compiles a pipeline twice, because
\* it enters the cache before the lock is given up.
THEOREM CachesStaySound == GraphicsSpec => []CachesAreSound
BY InvSound, InvHolds, DrawsOfTheDevice, PTL

(***************************************************************************)
(* The device.  What the context was given stays fit for the host while it *)
(* is opened; what is made one by one is numbered without gaps.            *)
(***************************************************************************)

WithImages  == {"parts", "layout", "sync", "cache", "open"}
WithSurface == {"swapchain", "images"} \cup WithImages
WithDevice  == {"device", "capabilities"} \cup WithSurface

OfKind(kind) == {o \in alive : o[1] = kind}

Counted(kind, n) == OfKind(kind) = Numbered(kind, n)

FamilyInv ==
  stage \in WithDevice =>
    /\ chosen.gpu \in 1 .. Len(Here.gpus)
    /\ LET f == Gpu.families[chosen.family] IN f.graphics /\ f.present

SurfaceInv ==
  stage \in WithSurface =>
    /\ IF Here.current = "any"
         THEN \A d \in 1 .. 2 : chosen.extent[d] \in Here.least[d] .. Here.most[d]
         ELSE chosen.extent = Here.current
    /\ chosen.count \in Nat /\ chosen.count >= Here.minImages
    /\ Here.maxImages > 0 => chosen.count <= Here.maxImages
    /\ chosen.format \in ToSet(Here.formats)

ImagesInv ==
  stage \in WithImages =>
    chosen.images = chosen.count + Here.extra /\ chosen.memory \in Gpu.depth

Unopened == {"loader", "instance", "retry", "surface", "gpu"} \cup (WithDevice \ WithImages)

Base == {"instance", "surface", "device", "swapchain"} \X {1}

\* Until the last part is made one is missing; then all are there, and every image has
\* its framebuffer.
PartsInv ==
  /\ stage \in Unopened => alive \subseteq Base
  /\ stage = "parts" =>
       /\ \A i \in 1 .. 8 : \E n \in 0 .. Parts[i][2] : Counted(Parts[i][1], n)
       /\ Unmade # {}
  /\ stage \in WithImages \ {"parts"} => \A i \in 1 .. 8 : Counted(Parts[i][1], Parts[i][2])

\* A frame's semaphores and fence are made one after the other.
SyncInv ==
  /\ stage \in {"parts", "layout"} => \A i \in 1 .. 3 : OfKind(SyncParts[i]) = {}
  /\ stage = "sync" =>
       \E n \in 0 .. Frames - 1 :
         /\ Counted("in flight", n)
         /\ \A i \in 1 .. 2 : Counted(SyncParts[i], n) \/ Counted(SyncParts[i], n + 1)
  /\ stage \in {"cache", "open"} => \A i \in 1 .. 3 : Counted(SyncParts[i], Frames)

PartKinds ==
  {"view", "depth image", "depth memory", "depth view", "render pass", "framebuffer",
   "command pool", "command buffers"}

SyncKinds == {"image available", "render finished", "in flight"}

ContextInv ==
  /\ stage # "elsewhere" => host \in DOMAIN Offers
  /\ FamilyInv /\ SurfaceInv /\ ImagesInv /\ PartsInv /\ SyncInv

\* The least of some numbers.
LEMMA LeastNumber ==
  ASSUME NEW T \in SUBSET Nat, T # {}
  PROVE  \E i \in T : \A j \in T : i <= j
<1>1. PICK i \in T : \A j \in T : ~(<<j, i>> \in OpToRel(<, Nat))
  BY NatLessThanWellFounded, WFMin
<1>2. \A j \in T : ~(j < i)
  BY <1>1 DEF OpToRel
<1> QED
  BY <1>2

\* If there is a place there is a first one.
LEMMA FirstPlaceIsOne ==
  ASSUME NEW n \in Nat, NEW S \in SUBSET ((1 .. n) \X (1 .. 3)), S # {}
  PROVE  FirstPlace(S) \in S
<1> DEFINE A == {p[1] : p \in S}
<1>1. A \in SUBSET Nat /\ A # {}
  OBVIOUS
<1>2. PICK a \in A : \A b \in A : a <= b
  <2> HIDE DEF A
  <2> QED
    BY <1>1, LeastNumber
<1> DEFINE B == {p[2] : p \in {q \in S : q[1] = a}}
<1>3. B \in SUBSET Nat /\ B # {}
  BY <1>2
<1>4. PICK b \in B : \A c \in B : b <= c
  <2> HIDE DEF B
  <2> QED
    BY <1>3, LeastNumber
<1>5. PICK p \in S : p[1] = a /\ p[2] = b
  BY <1>4
<1>6. \A q \in S \ {p} : Before(p, q)
  <2> TAKE q \in S \ {p}
  <2>1. p = <<p[1], p[2]>> /\ q = <<q[1], q[2]>>
    OBVIOUS
  <2>2. p[1] \in Nat /\ p[2] \in Nat /\ q[1] \in Nat /\ q[2] \in Nat
    OBVIOUS
  <2>3. p[1] <= q[1]
    BY <1>2, <1>5
  <2>4. q[1] = p[1] => p[2] <= q[2]
    BY <1>4, <1>5
  <2>5. q[1] = p[1] => q[2] # p[2]
    BY <2>1
  <2> QED
    BY <2>2, <2>3, <2>4, <2>5 DEF Before
<1> QED
  BY <1>6 DEF FirstPlace

\* A memory type that exists is found.
LEMMA MemoryIsFound ==
  ASSUME NEW gpu, NEW allowed \in SUBSET Nat, NEW wanted,
         \E i \in allowed : wanted \subseteq gpu.memory[i]
  PROVE  LET i == MemoryTypeFor(gpu, allowed, wanted)
         IN  i \in allowed /\ wanted \subseteq gpu.memory[i]
<1> DEFINE good == {i \in allowed : wanted \subseteq gpu.memory[i]}
<1>1. good \in SUBSET Nat /\ good # {}
  OBVIOUS
<1>2. \E i \in good : \A j \in good : i <= j
  <2> HIDE DEF good
  <2> QED
    BY <1>1, LeastNumber
<1> QED
  BY <1>2 DEF MemoryTypeFor

\* Objects that are numbered without gaps are as many as their last number.
LEMMA NumberedCount ==
  ASSUME NEW kind, NEW n \in Nat
  PROVE  Cardinality(Numbered(kind, n)) = n
<1> DEFINE f == [i \in 1 .. n |-> <<kind, i>>]
<1>1. f \in Bijection(1 .. n, Numbered(kind, n))
  <2>1. f \in [1 .. n -> Numbered(kind, n)]
    BY DEF Numbered
  <2>2. \A i, j \in 1 .. n : f[i] = f[j] => i = j
    OBVIOUS
  <2>3. \A o \in Numbered(kind, n) : o[2] \in 1 .. n /\ f[o[2]] = o
    BY DEF Numbered
  <2> QED
    BY <2>1, <2>2, <2>3 DEF Bijection, Injection, Surjection, IsInjective
<1>2. ExistsBijection(1 .. n, Numbered(kind, n))
  BY <1>1 DEF ExistsBijection
<1>3. IsFiniteSet(1 .. n) /\ Cardinality(1 .. n) = n
  BY FS_Interval
<1> QED
  BY <1>2, <1>3, FS_Bijection

\* A count of a kind's objects, as the code makes the next one after them.
LEMMA CountedMade ==
  ASSUME NEW kind, NEW n \in Nat, Counted(kind, n)
  PROVE  Made(kind) = n
BY NumberedCount DEF Counted, OfKind, Made

\* One more object of a kind, with the next number; the other kinds stay.
LEMMA OneMore ==
  ASSUME NEW kind, NEW n \in Nat, Counted(kind, n), alive' = alive \cup {<<kind, n + 1>>}
  PROVE  /\ Counted(kind, n + 1)'
         /\ \A k : k # kind => OfKind(k)' = OfKind(k)
<1>1. OfKind(kind)' = OfKind(kind) \cup {<<kind, n + 1>>}
  BY DEF OfKind
<1>2. Numbered(kind, n + 1) = Numbered(kind, n) \cup {<<kind, n + 1>>}
  BY DEF Numbered
<1> QED
  BY <1>1, <1>2 DEF Counted, OfKind, Numbered

\* The parts that are made one by one, for as many images.
PartsFor(images) ==
  << <<"view", images>>, <<"depth image", 1>>, <<"depth memory", 1>>, <<"depth view", 1>>,
     <<"render pass", 1>>, <<"framebuffer", images>>, <<"command pool", 1>>,
     <<"command buffers", 1>> >>

\* The parts one by one, for provers that cannot count.
LEMMA PartsAre ==
  ASSUME NEW n
  PROVE  /\ DOMAIN PartsFor(n) = 1 .. 8 /\ Len(PartsFor(n)) = 8
         /\ PartsFor(n)[1][1] = "view" /\ PartsFor(n)[1][2] = n
         /\ PartsFor(n)[2][1] = "depth image" /\ PartsFor(n)[2][2] = 1
         /\ PartsFor(n)[3][1] = "depth memory" /\ PartsFor(n)[3][2] = 1
         /\ PartsFor(n)[4][1] = "depth view" /\ PartsFor(n)[4][2] = 1
         /\ PartsFor(n)[5][1] = "render pass" /\ PartsFor(n)[5][2] = 1
         /\ PartsFor(n)[6][1] = "framebuffer" /\ PartsFor(n)[6][2] = n
         /\ PartsFor(n)[7][1] = "command pool" /\ PartsFor(n)[7][2] = 1
         /\ PartsFor(n)[8][1] = "command buffers" /\ PartsFor(n)[8][2] = 1
<1>1. PartsFor(n)[1][1] = "view" /\ PartsFor(n)[1][2] = n
  BY DEF PartsFor
<1>2. PartsFor(n)[2][1] = "depth image" /\ PartsFor(n)[2][2] = 1
  BY DEF PartsFor
<1>3. PartsFor(n)[3][1] = "depth memory" /\ PartsFor(n)[3][2] = 1
  BY DEF PartsFor
<1>4. PartsFor(n)[4][1] = "depth view" /\ PartsFor(n)[4][2] = 1
  BY DEF PartsFor
<1>5. PartsFor(n)[5][1] = "render pass" /\ PartsFor(n)[5][2] = 1
  BY DEF PartsFor
<1>6. PartsFor(n)[6][1] = "framebuffer" /\ PartsFor(n)[6][2] = n
  BY DEF PartsFor
<1>7. PartsFor(n)[7][1] = "command pool" /\ PartsFor(n)[7][2] = 1
  BY DEF PartsFor
<1>8. PartsFor(n)[8][1] = "command buffers" /\ PartsFor(n)[8][2] = 1
  BY DEF PartsFor
<1>9. DOMAIN PartsFor(n) = 1 .. 8 /\ Len(PartsFor(n)) = 8
  BY DEF PartsFor
<1> QED
  BY <1>1, <1>2, <1>3, <1>4, <1>5, <1>6, <1>7, <1>8, <1>9

\* Their kinds and counts.
LEMMA PartsAreOthers ==
  ASSUME NEW n, NEW i \in 1 .. 8
  PROVE  PartsFor(n)[i][1] \in PartKinds /\ PartsFor(n)[i][2] \in {1, n}
<1>0. /\ PartsFor(n)[1][1] = "view" /\ PartsFor(n)[1][2] = n
      /\ PartsFor(n)[2][1] = "depth image" /\ PartsFor(n)[2][2] = 1
      /\ PartsFor(n)[3][1] = "depth memory" /\ PartsFor(n)[3][2] = 1
      /\ PartsFor(n)[4][1] = "depth view" /\ PartsFor(n)[4][2] = 1
      /\ PartsFor(n)[5][1] = "render pass" /\ PartsFor(n)[5][2] = 1
      /\ PartsFor(n)[6][1] = "framebuffer" /\ PartsFor(n)[6][2] = n
      /\ PartsFor(n)[7][1] = "command pool" /\ PartsFor(n)[7][2] = 1
      /\ PartsFor(n)[8][1] = "command buffers" /\ PartsFor(n)[8][2] = 1
  BY PartsAre
<1>1. i = 1 \/ i = 2 \/ i = 3 \/ i = 4 \/ i = 5 \/ i = 6 \/ i = 7 \/ i = 8
  OBVIOUS
<1>2. CASE i = 1
  BY <1>0, <1>2 DEF PartKinds
<1>3. CASE i = 2
  BY <1>0, <1>3 DEF PartKinds
<1>4. CASE i = 3
  BY <1>0, <1>4 DEF PartKinds
<1>5. CASE i = 4
  BY <1>0, <1>5 DEF PartKinds
<1>6. CASE i = 5
  BY <1>0, <1>6 DEF PartKinds
<1>7. CASE i = 6
  BY <1>0, <1>7 DEF PartKinds
<1>8. CASE i = 7
  BY <1>0, <1>8 DEF PartKinds
<1>9. CASE i = 8
  BY <1>0, <1>9 DEF PartKinds
<1> QED
  BY <1>1, <1>2, <1>3, <1>4, <1>5, <1>6, <1>7, <1>8, <1>9

\* Kinds of the first objects, of the parts and of the frames' objects.
LEMMA KindsDiffer ==
  \A k \in PartKinds : k \notin {"instance", "surface", "device", "swapchain"} /\ k \notin SyncKinds
BY DEF PartKinds, SyncKinds

\* Each is of another kind.
LEMMA PartsDiffer ==
  ASSUME NEW n, NEW i \in 1 .. 8, NEW j \in 1 .. 8, PartsFor(n)[i][1] = PartsFor(n)[j][1]
  PROVE  i = j
<1>0. /\ PartsFor(n)[1][1] = "view" /\ PartsFor(n)[2][1] = "depth image"
      /\ PartsFor(n)[3][1] = "depth memory" /\ PartsFor(n)[4][1] = "depth view"
      /\ PartsFor(n)[5][1] = "render pass" /\ PartsFor(n)[6][1] = "framebuffer"
      /\ PartsFor(n)[7][1] = "command pool" /\ PartsFor(n)[8][1] = "command buffers"
  BY PartsAre
<1>1. i = 1 \/ i = 2 \/ i = 3 \/ i = 4 \/ i = 5 \/ i = 6 \/ i = 7 \/ i = 8
  OBVIOUS
<1>2. j = 1 \/ j = 2 \/ j = 3 \/ j = 4 \/ j = 5 \/ j = 6 \/ j = 7 \/ j = 8
  OBVIOUS
<1>3. CASE i = 1
  BY <1>0, <1>2, <1>3
<1>4. CASE i = 2
  BY <1>0, <1>2, <1>4
<1>5. CASE i = 3
  BY <1>0, <1>2, <1>5
<1>6. CASE i = 4
  BY <1>0, <1>2, <1>6
<1>7. CASE i = 5
  BY <1>0, <1>2, <1>7
<1>8. CASE i = 6
  BY <1>0, <1>2, <1>8
<1>9. CASE i = 7
  BY <1>0, <1>2, <1>9
<1>10. CASE i = 8
  BY <1>0, <1>2, <1>10
<1> QED
  BY <1>1, <1>3, <1>4, <1>5, <1>6, <1>7, <1>8, <1>9, <1>10

\* The list by its number of images.
LEMMA PartsOfTheContext == Parts = PartsFor(chosen.images)
BY DEF Parts, PartsFor

\* The objects of a frame, in the order in which they are made.
LEMMA SyncPartsAre ==
  /\ \A i \in 1 .. 3 : i \in {1, 2, 3}
  /\ SyncParts[1] = "image available" /\ SyncParts[2] = "render finished"
  /\ SyncParts[3] = "in flight"
BY DEF SyncParts

\* A step that leaves what was chosen alone and no stage behind.
LEMMA ChosenStays ==
  ASSUME ContextInv, UNCHANGED <<host, chosen>>,
         stage' \in WithDevice => stage \in WithDevice,
         stage' \in WithSurface => stage \in WithSurface,
         stage' \in WithImages => stage \in WithImages
  PROVE  FamilyInv' /\ SurfaceInv' /\ ImagesInv'
<1>1. Here' = Here /\ Gpu' = Gpu
  BY DEF Here, Gpu
<1>2. FamilyInv'
  BY <1>1 DEF ContextInv, FamilyInv
<1>3. SurfaceInv'
  BY <1>1 DEF ContextInv, SurfaceInv
<1>4. ImagesInv'
  BY <1>1 DEF ContextInv, ImagesInv
<1> QED
  BY <1>2, <1>3, <1>4

\* The opening up to the swapchain makes the first four objects.
LEMMA EarlySteps ==
  ASSUME ContextInv,
         LoadVulkan \/ CreateInstance \/ CreateSurface \/ CreateDevice \/ CreateSwapchain
  PROVE  ContextInv'
<1>1. /\ stage \in Unopened /\ stage' \in Unopened \cup {"error"} /\ stage \notin WithImages
      /\ alive' \subseteq alive \cup ({"instance", "surface", "device", "swapchain"} \X {1})
      /\ UNCHANGED <<host, chosen>>
      /\ stage' \in WithDevice => stage \in WithDevice
      /\ stage' \in WithSurface => stage \in WithSurface
  <2>1. CASE LoadVulkan
    BY <2>1 DEF LoadVulkan, Unopened, WithDevice, WithSurface, WithImages
  <2>2. CASE CreateInstance
    BY <2>2 DEF CreateInstance, Call, Unopened, WithDevice, WithSurface, WithImages
  <2>3. CASE CreateSurface
    BY <2>3 DEF CreateSurface, Call, Unopened, WithDevice, WithSurface, WithImages
  <2>4. CASE CreateDevice
    BY <2>4 DEF CreateDevice, Call, Unopened, WithDevice, WithSurface, WithImages
  <2>5. CASE CreateSwapchain
    BY <2>5 DEF CreateSwapchain, Call, Unopened, WithDevice, WithSurface, WithImages
  <2> QED
    BY <2>1, <2>2, <2>3, <2>4, <2>5
<1>2. stage' \notin WithImages
  BY <1>1 DEF Unopened, WithDevice, WithSurface, WithImages
<1>3. FamilyInv' /\ SurfaceInv' /\ ImagesInv'
  BY <1>1, <1>2, ChosenStays
<1>4. SyncInv'
  BY <1>2 DEF SyncInv, WithImages
<1>5. PartsInv'
  <2>1. alive' \subseteq Base
    BY <1>1 DEF ContextInv, PartsInv, Base
  <2> QED
    BY <1>2, <2>1 DEF PartsInv, WithImages
<1> QED
  BY <1>1, <1>3, <1>4, <1>5 DEF ContextInv, Unopened, WithDevice, WithSurface

\* The first family that draws and presents is taken.
LEMMA ChooseDeviceFits ==
  ASSUME ContextInv, ChooseDevice
  PROVE  ContextInv'
<1>1. /\ stage = "gpu" /\ UNCHANGED <<host, alive>>
      /\ host \in DOMAIN Offers /\ Here' = Here
  BY DEF ChooseDevice, ContextInv, Here
<1>2. PICK unanswered :
        LET fit == FitPlaces(Here, unanswered) IN
        IF fit = {} THEN stage' = "error" /\ UNCHANGED chosen
        ELSE /\ stage' = "device"
             /\ chosen' = [gpu |-> FirstPlace(fit)[1], family |-> FirstPlace(fit)[2]]
  BY DEF ChooseDevice
<1> DEFINE fit == FitPlaces(Here, unanswered)
<1>3. FamilyInv'
  <2>1. CASE fit = {}
    BY <1>2, <2>1 DEF FamilyInv, WithDevice, WithSurface, WithImages
  <2>2. CASE fit # {}
    <3>1. Len(Here.gpus) \in Nat
      <4>1. Here.gpus \in Seq(ToSet(Here.gpus))
        BY <1>1, DeviceAssumption DEF Here
      <4> QED
        BY <4>1, LenProperties
    <3>2. fit \in SUBSET ((1 .. Len(Here.gpus)) \X (1 .. 3))
      BY DEF FitPlaces, Places
    <3> DEFINE p == FirstPlace(fit)
    <3>3. p \in fit
      <4> DEFINE n == Len(Here.gpus)
      <4>1. n \in Nat /\ fit \in SUBSET ((1 .. n) \X (1 .. 3)) /\ fit # {}
        BY <2>2, <3>1, <3>2
      <4> HIDE DEF fit, n
      <4> QED
        BY <4>1, FirstPlaceIsOne
    <3>4. LET f == Here.gpus[p[1]].families[p[2]] IN f.graphics /\ f.present
      <4>1. \A q \in fit : LET f == Here.gpus[q[1]].families[q[2]] IN f.graphics /\ f.present
        BY Zenon DEF FitPlaces
      <4> HIDE DEF fit, p
      <4> QED
        BY <3>3, <4>1, Zenon
    <3>5. p[1] \in 1 .. Len(Here.gpus)
      BY <3>2, <3>3
    <3>6. chosen' = [gpu |-> p[1], family |-> p[2]]
      BY <1>2, <2>2
    <3> HIDE DEF p
    <3> QED
      BY <1>1, <3>4, <3>5, <3>6 DEF FamilyInv, Gpu
  <2> QED
    BY <2>1, <2>2
<1>4. stage' \in {"error", "device"}
  BY <1>2
<1>5. SurfaceInv' /\ ImagesInv' /\ SyncInv'
  BY <1>4 DEF SurfaceInv, ImagesInv, SyncInv, WithSurface, WithImages
<1>6. PartsInv'
  BY <1>1, <1>4 DEF ContextInv, PartsInv, Unopened, WithDevice, WithSurface, WithImages
<1> QED
  BY <1>1, <1>3, <1>4, <1>5, <1>6 DEF ContextInv

\* What the surface allows is taken.
LEMMA ReadSurfaceFits ==
  ASSUME ContextInv, ReadSurface
  PROVE  ContextInv'
<1>1. /\ stage = "capabilities" /\ stage' \in {"swapchain", "panic", "error"}
      /\ UNCHANGED <<host, alive>> /\ host \in DOMAIN Offers /\ Here' = Here
      /\ stage' = "swapchain" =>
           /\ Here.formats # << >>
           /\ chosen' = [gpu |-> chosen.gpu, family |-> chosen.family, format |-> FormatFor(Here),
                         extent |-> ExtentFor(Here), count |-> ImageCount(Here)]
  BY DEF ReadSurface, ContextInv, Here
<1>2. ImagesInv' /\ PartsInv' /\ SyncInv'
  BY <1>1 DEF ContextInv, ImagesInv, PartsInv, SyncInv, Unopened, WithDevice, WithSurface, WithImages
<1>3. CASE stage' # "swapchain"
  <2>1. stage' \notin WithDevice /\ stage' \notin WithSurface
    BY <1>1, <1>3 DEF WithDevice, WithSurface, WithImages
  <2> QED
    BY <1>1, <1>2, <2>1 DEF ContextInv, FamilyInv, SurfaceInv
<1>4. CASE stage' = "swapchain"
  <2>1. Gpu' = Gpu /\ chosen'.family = chosen.family /\ chosen'.gpu = chosen.gpu
    BY <1>1, <1>4 DEF Gpu
  <2>2. FamilyInv'
    BY <1>1, <2>1 DEF ContextInv, FamilyInv, WithDevice
  <2>3. IF Here.current = "any"
          THEN \A d \in 1 .. 2 : ExtentFor(Here)[d] \in Here.least[d] .. Here.most[d]
          ELSE ExtentFor(Here) = Here.current
    <3>1. \A d \in 1 .. 2 : /\ Here.least[d] \in Int /\ Here.most[d] \in Int
                            /\ Here.least[d] <= Here.most[d] /\ Window[d] \in Int
      BY <1>1, DeviceAssumption DEF Here
    <3>2. ASSUME NEW lo \in Int, NEW hi \in Int, NEW x \in Int, lo <= hi
          PROVE  Clamp(x, lo, hi) \in lo .. hi
      BY <3>2 DEF Clamp
    <3> QED
      BY <3>1, <3>2 DEF ExtentFor
  <2>4. LET n == ImageCount(Here) IN
        n \in Nat /\ n >= Here.minImages /\ (Here.maxImages > 0 => n <= Here.maxImages)
    <3>1. /\ Here.minImages \in Nat /\ Here.maxImages \in Nat
          /\ Here.maxImages = 0 \/ Here.minImages <= Here.maxImages
      BY <1>1, DeviceAssumption DEF Here
    <3> QED
      BY <3>1 DEF ImageCount
  <2>5. FormatFor(Here) \in ToSet(Here.formats)
    <3> DEFINE formats == Here.formats
    <3>1. formats \in Seq(ToSet(formats))
      BY <1>1, DeviceAssumption DEF Here
    <3>2. 1 \in DOMAIN formats
      <4> HIDE DEF formats
      <4>1. formats # << >>
        BY <1>1, <1>4 DEF formats
      <4> QED
        BY <3>1, <4>1, EmptySeq, LenProperties
    <3> QED
      BY <3>2 DEF FormatFor, ToSet
  <2>6. SurfaceInv'
    BY <1>1, <1>4, <2>3, <2>4, <2>5 DEF SurfaceInv
  <2> QED
    BY <1>1, <1>2, <2>2, <2>6 DEF ContextInv
<1> QED
  BY <1>3, <1>4

\* The depth image is given memory of a type it may have; nothing is made yet.
LEMMA GetImagesFits ==
  ASSUME ContextInv, GetImages
  PROVE  ContextInv'
<1>1. /\ stage = "images" /\ stage' \in {"parts", "error"}
      /\ UNCHANGED <<host, alive>> /\ host \in DOMAIN Offers /\ Here' = Here
      /\ stage' = "parts" =>
           chosen' = [gpu |-> chosen.gpu, family |-> chosen.family, format |-> chosen.format,
                      extent |-> chosen.extent, count |-> chosen.count,
                      images |-> chosen.count + Here.extra,
                      memory |-> MemoryTypeFor(Gpu, Gpu.depth, {"local"})]
  BY DEF GetImages, ContextInv, Here
<1>2. CASE stage' = "error"
  BY <1>1, <1>2 DEF ContextInv, FamilyInv, SurfaceInv, ImagesInv, PartsInv, SyncInv, Unopened,
                    WithDevice, WithSurface, WithImages
<1>3. CASE stage' = "parts"
  <2>1. chosen.count \in Nat
    BY <1>1 DEF ContextInv, SurfaceInv, WithSurface, WithImages
  <2>2. /\ chosen'.gpu = chosen.gpu /\ chosen'.family = chosen.family
        /\ chosen'.format = chosen.format /\ chosen'.extent = chosen.extent
        /\ chosen'.count = chosen.count /\ chosen'.images = chosen.count + Here.extra
        /\ chosen'.memory = MemoryTypeFor(Gpu, Gpu.depth, {"local"})
    BY <1>1, <1>3
  <2>3. Gpu' = Gpu
    BY <1>1, <2>2 DEF Gpu
  <2>4. FamilyInv'
    BY <1>1, <2>2, <2>3 DEF ContextInv, FamilyInv, WithDevice, WithSurface
  <2>5. SurfaceInv'
    BY <1>1, <1>3, <2>2 DEF ContextInv, SurfaceInv, WithSurface, WithImages
  <2>6. chosen'.memory \in Gpu.depth
    <3>1. chosen.gpu \in 1 .. Len(Here.gpus)
      BY <1>1 DEF ContextInv, FamilyInv, WithDevice, WithSurface
    <3>2. Gpu \in ToSet(Here.gpus)
      <4>1. Here.gpus \in Seq(ToSet(Here.gpus))
        BY <1>1, DeviceAssumption DEF Here
      <4>2. DOMAIN Here.gpus = 1 .. Len(Here.gpus)
        BY <4>1, LenProperties
      <4> QED
        BY <3>1, <4>2 DEF Gpu, ToSet
    <3>3. Gpu.depth \in SUBSET Nat /\ \E i \in Gpu.depth : {"local"} \subseteq Gpu.memory[i]
      BY <1>1, <3>2, DeviceAssumption DEF Here
    <3> DEFINE gpu == Gpu
               allowed == Gpu.depth
               wanted == {"local"}
    <3>4. /\ allowed \in SUBSET Nat /\ \E i \in allowed : wanted \subseteq gpu.memory[i]
          /\ chosen'.memory = MemoryTypeFor(gpu, allowed, wanted)
      BY <2>2, <3>3
    <3> HIDE DEF gpu, allowed, wanted
    <3>5. chosen'.memory \in allowed
      BY <3>4, MemoryIsFound
    <3> QED
      BY <3>5 DEF allowed
  <2>7. ImagesInv'
    BY <1>1, <2>2, <2>3, <2>6 DEF ImagesInv
  <2>8. alive' \subseteq Base
    BY <1>1 DEF ContextInv, PartsInv, Unopened, WithDevice, WithSurface, WithImages
  <2>13. \A o \in alive' : o[1] \in {"instance", "surface", "device", "swapchain"}
    BY <2>8 DEF Base
  <2>9. SyncInv'
    <3>1. \A i \in 1 .. 3 : SyncParts[i] \notin {"instance", "surface", "device", "swapchain"}
      BY SyncPartsAre
    <3> QED
      BY <1>3, <2>13, <3>1 DEF SyncInv, OfKind
  <2>10. \A i \in 1 .. 8 : /\ {o \in alive' : o[1] = Parts'[i][1]} = Numbered(Parts'[i][1], 0)
                          /\ Parts'[i][2] \in Nat
    <3>1. chosen'.images \in Nat
      <4>1. Here.extra \in Nat
        BY <1>1, DeviceAssumption DEF Here
      <4> QED
        BY <2>1, <2>2, <4>1
    <3>2. ASSUME NEW i \in 1 .. 8
          PROVE  /\ Parts'[i][1] \notin {"instance", "surface", "device", "swapchain"}
                 /\ Parts'[i][2] \in Nat
      <4>1. Parts' = PartsFor(chosen'.images)
        BY DEF Parts, PartsFor
      <4> DEFINE n == chosen'.images
      <4>2. /\ PartsFor(n)[i][1] \notin {"instance", "surface", "device", "swapchain"}
            /\ PartsFor(n)[i][2] \in {1, n}
        BY <3>2, PartsAreOthers, KindsDiffer
      <4>3. n \in Nat
        BY <3>1
      <4> QED
        BY <4>1, <4>2, <4>3
    <3>3. \A kind : Numbered(kind, 0) = {}
      BY DEF Numbered
    <3> QED
      BY <2>13, <3>2, <3>3
  <2>11. Unmade' # {}
    <3>1. Parts' = PartsFor(chosen'.images) /\ PartsFor(chosen'.images)[2][2] = 1
      BY DEF Parts, PartsFor
    <3>7. /\ PartsFor(chosen'.images)[2][1] \notin {"instance", "surface", "device", "swapchain"}
          /\ Len(PartsFor(chosen'.images)) = 8
      BY PartsAre, PartsAreOthers, KindsDiffer
    <3>6. Parts'[2][1] \notin {"instance", "surface", "device", "swapchain"} /\ Parts'[2][2] = 1
          /\ Len(Parts') = 8
      BY <3>1, <3>7
    <3>2. {o \in alive' : o[1] = Parts'[2][1]} = {}
      BY <2>13, <3>6
    <3>3. Cardinality({o \in alive' : o[1] = Parts'[2][1]}) = 0
      BY <3>2, FS_EmptySet
    <3>4. Made(Parts[2][1])' < Parts'[2][2]
      BY <3>3, <3>6 DEF Made
    <3>5. 2 \in Unmade'
      BY <3>4, <3>6 DEF Unmade
    <3> QED
      BY <3>5
  <2>12. PartsInv'
    <3>1. \A i \in 1 .. 8 : \E n \in 0 .. Parts'[i][2] :
             {o \in alive' : o[1] = Parts'[i][1]} = Numbered(Parts'[i][1], n)
      BY <2>10
    <3> QED
      BY <1>3, <2>11, <3>1
      DEF PartsInv, Counted, OfKind, Unopened, WithDevice, WithSurface, WithImages
  <2> QED
    BY <1>1, <2>4, <2>5, <2>7, <2>9, <2>12 DEF ContextInv
<1> QED
  BY <1>1, <1>2, <1>3

\* The next missing part is made; after the last one nothing is missing.
LEMMA CreatePartFits ==
  ASSUME ContextInv, CreatePart
  PROVE  ContextInv'
<1>1. /\ stage = "parts" /\ UNCHANGED <<host, chosen>> /\ stage' \in {"parts", "layout", "error"}
      /\ host \in DOMAIN Offers
  BY DEF CreatePart, Call, ContextInv
<1>2. FamilyInv' /\ SurfaceInv' /\ ImagesInv'
  BY <1>1, ChosenStays DEF WithDevice, WithSurface, WithImages
<1>3. CASE stage' = "error"
  BY <1>1, <1>2, <1>3 DEF ContextInv, PartsInv, SyncInv, Unopened, WithDevice, WithSurface, WithImages
<1>4. CASE stage' # "error"
  <2>1. chosen.images \in Nat
    <3>1. Here.extra \in Nat
      BY <1>1, DeviceAssumption DEF Here
    <3> QED
      BY <1>1, <3>1 DEF ContextInv, ImagesInv, SurfaceInv, WithSurface, WithImages
  <2>2. PICK n : n = chosen.images /\ n \in Nat
    BY <2>1
  <2> DEFINE P == PartsFor(n)
  <2>3. Parts = P /\ Parts' = P
    BY <1>1, <2>2 DEF Parts, PartsFor
  <2>4. Len(P) = 8 /\ P[6][1] = "framebuffer" /\ P[6][2] = n
    BY PartsAre
  <2>5. \A i \in 1 .. 8 : P[i][2] \in Nat
    <3> TAKE i \in 1 .. 8
    <3>1. P[i][2] \in {1, n}
      BY PartsAreOthers
    <3> HIDE DEF P
    <3> QED
      BY <2>2, <3>1
  <2>6. \A i, j \in 1 .. 8 : P[i][1] = P[j][1] => i = j
    BY PartsDiffer
  <2>7. \A i \in 1 .. 8 : P[i][1] \notin {"image available", "render finished", "in flight"}
    BY PartsAreOthers, KindsDiffer DEF SyncKinds
  <2> HIDE DEF P
  <2>8. PICK i \in Unmade : \A j \in Unmade : i <= j
    <3>1. Unmade \in SUBSET Nat
      BY <2>3, <2>4 DEF Unmade
    <3>2. Unmade # {}
      BY <1>1 DEF ContextInv, PartsInv
    <3> QED
      BY <3>1, <3>2, LeastNumber
  <2>9. i \in 1 .. 8 /\ Made(P[i][1]) < P[i][2]
    BY <2>3, <2>4, <2>8 DEF Unmade
  <2>10. (CHOOSE k \in Unmade : \A j \in Unmade : k <= j) = i
    <3>1. Unmade \in SUBSET Nat
      BY <2>3, <2>4 DEF Unmade
    <3>2. \A k \in Unmade : (\A j \in Unmade : k <= j) => k = i
      BY <2>8, <3>1
    <3> QED
      BY <2>8, <3>2
  <2>11. /\ alive' = alive \cup {<<P[i][1], Made(P[i][1]) + 1>>}
         /\ stage' = IF Unmade = {i} /\ Made(P[i][1]) + 1 = P[i][2] THEN "layout" ELSE "parts"
    BY <1>4, <2>3, <2>10 DEF CreatePart, Call
  <2>12. PICK kind : kind = P[i][1]
    OBVIOUS
  <2>13. PICK m \in 0 .. P[i][2] : Counted(kind, m)
    BY <1>1, <2>3, <2>9, <2>12 DEF ContextInv, PartsInv
  <2>14. m \in Nat /\ Made(kind) = m /\ m + 1 \in 0 .. P[i][2]
    <3>1. m \in Nat
      BY <2>5, <2>9, <2>13
    <3>2. Made(kind) = m
      BY <2>13, <3>1, CountedMade
    <3> QED
      BY <2>5, <2>9, <2>12, <3>1, <3>2
  <2>15. Counted(kind, m + 1)' /\ \A k : k # kind => OfKind(k)' = OfKind(k)
    BY <2>11, <2>12, <2>13, <2>14, OneMore
  <2>16. \A j \in 1 .. 8 : j # i => OfKind(P[j][1])' = OfKind(P[j][1])
    BY <2>6, <2>9, <2>12, <2>15
  <2>17. \A j \in 1 .. 8 : \E k \in 0 .. P[j][2] : Counted(P[j][1], k)'
    <3> TAKE j \in 1 .. 8
    <3>1. CASE j = i
      BY <2>12, <2>14, <2>15, <3>1
    <3>2. CASE j # i
      <4>1. PICK k \in 0 .. P[j][2] : Counted(P[j][1], k)
        BY <1>1, <2>3 DEF ContextInv, PartsInv
      <4> QED
        BY <2>16, <3>2, <4>1 DEF Counted
    <3> QED
      BY <3>1, <3>2
  <2>18. \A j \in 1 .. 3 : OfKind(SyncParts[j])' = {}
    <3> TAKE j \in 1 .. 3
    <3>1. SyncParts[j] # kind
      BY <2>7, <2>9, <2>12, SyncPartsAre
    <3>2. OfKind(SyncParts[j]) = {}
      BY <1>1 DEF ContextInv, SyncInv
    <3> QED
      BY <2>15, <3>1, <3>2
  <2>19. SyncInv'
    BY <1>1, <1>4, <2>18 DEF SyncInv
  <2>20. CASE stage' = "parts"
    <3>1. Unmade' # {}
      <4>1. CASE Unmade = {i}
        <5>1. m + 1 # P[i][2]
          BY <2>11, <2>12, <2>14, <2>20, <4>1
        <5>2. Made(kind)' = m + 1
          <6>1. {o \in alive' : o[1] = kind} = Numbered(kind, m + 1)
            BY <2>15 DEF Counted, OfKind
          <6>2. Cardinality(Numbered(kind, m + 1)) = m + 1
            BY <2>14, NumberedCount
          <6> QED
            BY <6>1, <6>2 DEF Made
        <5>3. Made(kind)' < P[i][2]
          BY <2>5, <2>9, <2>14, <5>1, <5>2
        <5> QED
          BY <2>3, <2>4, <2>9, <2>12, <5>3 DEF Unmade, Made
      <4>2. CASE Unmade # {i}
        <5>1. PICK j \in Unmade : j # i
          BY <2>8, <4>2
        <5>2. j \in 1 .. 8 /\ Made(P[j][1]) < P[j][2]
          BY <2>3, <2>4, <5>1 DEF Unmade
        <5>3. {o \in alive' : o[1] = P[j][1]} = OfKind(P[j][1])
          BY <2>16, <5>1, <5>2 DEF OfKind
        <5> QED
          BY <2>3, <2>4, <5>2, <5>3 DEF Unmade, Made, OfKind
      <4> QED
        BY <4>1, <4>2
    <3>2. PartsInv'
      BY <2>3, <2>17, <2>20, <3>1 DEF PartsInv, Unopened, WithDevice, WithSurface, WithImages, Counted, OfKind
    <3> QED
      BY <1>1, <1>2, <2>19, <3>2 DEF ContextInv
  <2>21. CASE stage' = "layout"
    <3>1. Unmade = {i} /\ m + 1 = P[i][2]
      BY <2>11, <2>12, <2>14, <2>21
    <3>2. ASSUME NEW j \in 1 .. 8 PROVE Counted(P[j][1], P[j][2])'
      <4>1. CASE j = i
        BY <2>12, <2>15, <3>1, <4>1
      <4>2. CASE j # i
        <5>1. PICK k \in 0 .. P[j][2] : Counted(P[j][1], k)
          BY <1>1, <2>3 DEF ContextInv, PartsInv
        <5>2. k \in Nat /\ Made(P[j][1]) = k
          BY <2>5, <5>1, CountedMade
        <5>3. j \notin Unmade
          BY <3>1, <4>2
        <5>4. ~(k < P[j][2])
          BY <2>3, <2>4, <5>2, <5>3 DEF Unmade
        <5>5. k = P[j][2]
          BY <2>5, <5>1, <5>2, <5>4
        <5> QED
          BY <2>16, <4>2, <5>1, <5>5 DEF Counted
      <4> QED
        BY <4>1, <4>2
    <3>3. \A j \in 1 .. 8 : Counted(Parts[j][1], Parts[j][2])'
      BY <2>3, <3>2 DEF Counted, OfKind
    <3>4. PartsInv'
      BY <2>21, <3>3 DEF PartsInv, Unopened, WithDevice, WithSurface, WithImages
    <3> QED
      BY <1>1, <1>2, <2>19, <3>4 DEF ContextInv
  <2> QED
    BY <1>1, <1>4, <2>20, <2>21
<1> QED
  BY <1>3, <1>4

\* What is made after the parts keeps them.
LEMMA PartsStay ==
  ASSUME ContextInv, UNCHANGED <<host, chosen>>, stage \in WithImages \ {"parts"},
         stage' \in (WithImages \ {"parts"}) \cup {"panic"},
         \A k \in PartKinds : OfKind(k)' = OfKind(k)
  PROVE  FamilyInv' /\ SurfaceInv' /\ ImagesInv' /\ PartsInv' /\ host' \in DOMAIN Offers
<1>1. FamilyInv' /\ SurfaceInv' /\ ImagesInv'
  BY ChosenStays DEF WithDevice, WithSurface, WithImages
<1>2. PartsInv'
  <2>1. Parts' = Parts /\ \A i \in 1 .. 8 : Parts[i][1] \in PartKinds
    BY PartsOfTheContext, PartsAreOthers DEF Parts
  <2>2. \A i \in 1 .. 8 : Counted(Parts[i][1], Parts[i][2])
    BY DEF ContextInv, PartsInv
  <2>3. \A i \in 1 .. 8 : Counted(Parts[i][1], Parts[i][2])'
    BY <2>1, <2>2 DEF Counted
  <2> QED
    BY <2>3 DEF PartsInv, Unopened, WithDevice, WithSurface, WithImages
<1> QED
  BY <1>1, <1>2 DEF ContextInv, WithImages

\* What making the next object of a frame does, when n frames have theirs.
MakesSync(n, i) ==
  /\ Counted("in flight", n)
  /\ \A k \in 1 .. 2 : (Counted(SyncParts[k], n) /\ Made(SyncParts[k]) = n)
                       \/ (Counted(SyncParts[k], n + 1) /\ Made(SyncParts[k]) = n + 1)
  /\ Made(SyncParts[i]) < n + 1 /\ \A j \in 1 .. i - 1 : Made(SyncParts[j]) = n + 1
  /\ \/ stage' = "panic" /\ alive' = alive
     \/ /\ alive' = alive \cup {<<SyncParts[i], n + 1>>}
        /\ stage' = IF i = 3 /\ n + 1 = Frames THEN "cache" ELSE "sync"

\* There is a next object until every frame has all of its own.
LEMMA NextSync ==
  ASSUME ContextInv, CreateSync
  PROVE  \E n \in 0 .. Frames - 1 : \E i \in 1 .. 3 : MakesSync(n, i)
<1>1. stage = "sync"
  BY DEF CreateSync
<1>2. PICK n \in 0 .. Frames - 1 :
        /\ Counted("in flight", n)
        /\ \A i \in 1 .. 2 : Counted(SyncParts[i], n) \/ Counted(SyncParts[i], n + 1)
  BY <1>1 DEF ContextInv, SyncInv
<1>3. n \in Nat /\ n + 1 \in Nat /\ Frames \in Nat /\ n < Frames
  <2>1. Frames \in Nat
    BY DeviceAssumption
  <2>2. n \in 0 .. Frames - 1
    BY <1>2
  <2> QED
    BY <2>1, <2>2
<1>4. /\ Made(SyncParts[3]) = n
      /\ \A i \in 1 .. 2 : (Counted(SyncParts[i], n) /\ Made(SyncParts[i]) = n)
                           \/ (Counted(SyncParts[i], n + 1) /\ Made(SyncParts[i]) = n + 1)
  BY <1>2, <1>3, CountedMade, SyncPartsAre
<1> DEFINE Right(i) == Made(SyncParts[i]) < n + 1
                       /\ \A j \in 1 .. i - 1 : Made(SyncParts[j]) = n + 1
<1>5. \E i \in 1 .. 3 : Right(i)
  <2>1. CASE Made(SyncParts[1]) = n
    BY <1>3, <2>1
  <2>2. CASE Made(SyncParts[1]) = n + 1 /\ Made(SyncParts[2]) = n
    <3>1. \A j \in 1 .. 2 - 1 : j = 1
      OBVIOUS
    <3> QED
      BY <1>3, <2>2, <3>1
  <2>3. CASE Made(SyncParts[1]) = n + 1 /\ Made(SyncParts[2]) = n + 1
    <3>1. \A j \in 1 .. 3 - 1 : j = 1 \/ j = 2
      OBVIOUS
    <3> QED
      BY <1>3, <1>4, <2>3, <3>1
  <2> QED
    BY <1>4, <2>1, <2>2, <2>3
<1>6. PICK i \in 1 .. 3 : Right(i) /\ i = CHOOSE k \in 1 .. 3 : Right(k)
  <2> HIDE DEF Right
  <2> QED
    BY <1>5
<1>7. \/ stage' = "panic" /\ alive' = alive
      \/ /\ alive' = alive \cup {<<SyncParts[i], n + 1>>}
         /\ stage' = IF i = 3 /\ n + 1 = Frames THEN "cache" ELSE "sync"
  <2>1. Made("in flight") = n
    BY <1>4, SyncPartsAre
  <2> QED
    BY <1>6, <2>1 DEF CreateSync, Call
<1> QED
  BY <1>2, <1>4, <1>6, <1>7 DEF MakesSync

\* Semaphores and fences are made frame by frame, then the cache of pipelines.
LEMMA SyncSteps ==
  ASSUME ContextInv, Transition \/ CreateSync \/ CreateCache
  PROVE  ContextInv'
<1>1. CASE Transition
  <2>1. /\ stage = "layout" /\ stage' \in {"sync", "panic"} /\ alive' = alive
        /\ UNCHANGED <<host, chosen>>
    BY <1>1 DEF Transition, Call
  <2>2. \A k \in PartKinds : OfKind(k)' = OfKind(k)
    BY <2>1 DEF OfKind
  <2>3. \A i \in 1 .. 3 : Counted(SyncParts[i], 0) /\ Counted(SyncParts[i], 0)'
    <3>1. \A i \in 1 .. 3 : OfKind(SyncParts[i]) = {} /\ OfKind(SyncParts[i])' = {}
      BY <2>1 DEF ContextInv, SyncInv, OfKind
    <3> QED
      BY <3>1 DEF Counted, Numbered
  <2>4. SyncInv'
    <3>1. 0 \in 0 .. Frames - 1
      BY DeviceAssumption
    <3>2. Counted("in flight", 0)'
      <4>1. Counted("in flight", 0)
        <5>1. SyncParts[3] = "in flight"
          BY SyncPartsAre
        <5>2. 3 \in 1 .. 3
          OBVIOUS
        <5>3. Counted(SyncParts[3], 0)
          BY <2>3, <5>2
        <5> QED
          BY <5>1, <5>3
      <4> QED
        BY <2>1, <4>1 DEF Counted, OfKind
    <3>3. \A i \in 1 .. 2 : Counted(SyncParts[i], 0)'
      BY <2>3
    <3> QED
      BY <2>1, <3>1, <3>2, <3>3 DEF SyncInv
  <2>5. FamilyInv' /\ SurfaceInv' /\ ImagesInv' /\ PartsInv' /\ host' \in DOMAIN Offers
    BY <2>1, <2>2, PartsStay DEF WithImages
  <2> QED
    BY <2>4, <2>5 DEF ContextInv
<1>2. CASE CreateSync
  <2>1. /\ stage = "sync" /\ stage' \in {"sync", "cache", "panic"} /\ UNCHANGED <<host, chosen>>
    BY <1>2 DEF CreateSync, Call
  <2>2. PICK n \in 0 .. Frames - 1 : \E i \in 1 .. 3 : MakesSync(n, i)
    BY <1>2, NextSync
  <2>3. n \in Nat /\ n + 1 \in Nat /\ Frames \in Nat /\ n < Frames
    BY <2>2, DeviceAssumption
  <2>4. PICK i \in 1 .. 3 : MakesSync(n, i)
    BY <2>2
  <2>5. /\ Counted("in flight", n)
        /\ \A k \in 1 .. 2 : (Counted(SyncParts[k], n) /\ Made(SyncParts[k]) = n)
                             \/ (Counted(SyncParts[k], n + 1) /\ Made(SyncParts[k]) = n + 1)
        /\ Made(SyncParts[i]) < n + 1 /\ \A j \in 1 .. i - 1 : Made(SyncParts[j]) = n + 1
    BY <2>4 DEF MakesSync
  <2>6. \/ stage' = "panic"
        \/ /\ alive' = alive \cup {<<SyncParts[i], n + 1>>}
           /\ stage' = IF i = 3 /\ n + 1 = Frames THEN "cache" ELSE "sync"
    BY <2>4 DEF MakesSync
  <2>7. CASE stage' = "panic"
    <3>1. stage' \notin WithDevice /\ stage' \notin Unopened
      BY <2>7 DEF Unopened, WithDevice, WithSurface, WithImages
    <3> QED
      BY <2>1, <2>7, <3>1
      DEF ContextInv, FamilyInv, SurfaceInv, ImagesInv, PartsInv, SyncInv, WithDevice, WithSurface, WithImages
  <2>8. CASE stage' # "panic"
    <3>1. PICK kind : kind = SyncParts[i]
      OBVIOUS
    <3>2. Counted(kind, n)
      <4>1. CASE i = 3
        BY <2>5, <3>1, <4>1, SyncPartsAre
      <4>2. CASE i # 3
        <5>1. i \in 1 .. 2
          BY <4>2
        <5>2. Made(SyncParts[i]) # n + 1
          <6>1. Made(SyncParts[i]) < n + 1
            BY <2>5
          <6> QED
            BY <2>3, <6>1
        <5> QED
          BY <2>5, <3>1, <5>1, <5>2
      <4> QED
        BY <4>1, <4>2
    <3>3. Counted(kind, n + 1)' /\ \A k : k # kind => OfKind(k)' = OfKind(k)
      BY <2>3, <2>6, <2>8, <3>1, <3>2, OneMore
    <3>4. \A k \in PartKinds : OfKind(k)' = OfKind(k)
      <4>1. kind \in SyncKinds
        <5>1. i = 1 \/ i = 2 \/ i = 3
          OBVIOUS
        <5> QED
          BY <3>1, <5>1, SyncPartsAre DEF SyncKinds
      <4> QED
        BY <3>3, <4>1, KindsDiffer
    <3>5. FamilyInv' /\ SurfaceInv' /\ ImagesInv' /\ PartsInv' /\ host' \in DOMAIN Offers
      BY <2>1, <3>3, <3>4, PartsStay DEF WithImages
    <3>6. SyncInv'
      <4>1. CASE stage' = "cache"
        <5>1. i = 3 /\ n + 1 = Frames
          BY <2>6, <2>8, <4>1
        <5>2. ASSUME NEW j \in 1 .. 3 PROVE Counted(SyncParts[j], Frames)'
          <6>1. CASE j = i
            BY <3>1, <3>3, <5>1, <6>1
          <6>2. CASE j # i
            <7>1. j \in 1 .. 2 /\ j \in 1 .. i - 1
              BY <5>1, <5>2, <6>2
            <7>2. Counted(SyncParts[j], n + 1)
              BY <2>3, <2>5, <2>4, <7>1
            <7>3. SyncParts[j] # kind
              <8>1. j = 1 \/ j = 2
                BY <7>1
              <8> QED
                BY <3>1, <5>1, <8>1, SyncPartsAre
            <7> QED
              BY <3>3, <5>1, <7>2, <7>3 DEF Counted
          <6> QED
            BY <6>1, <6>2
        <5> QED
          BY <4>1, <5>2 DEF SyncInv
      <4>2. CASE stage' = "sync" /\ i = 3
        <5>1. n + 1 \in 0 .. Frames - 1
          <6>1. n + 1 # Frames
            BY <2>6, <4>2
          <6> QED
            BY <2>3, <6>1
        <5>2. Counted("in flight", n + 1)'
          BY <3>1, <3>3, <4>2, SyncPartsAre
        <5>3. ASSUME NEW j \in 1 .. 2 PROVE Counted(SyncParts[j], n + 1)'
          <6>1. j \in 1 .. i - 1
            BY <4>2, <5>3
          <6>2. Counted(SyncParts[j], n + 1)
            BY <2>3, <2>5, <2>4, <5>3, <6>1
          <6>3. SyncParts[j] # kind
            <7>1. j = 1 \/ j = 2
              BY <5>3
            <7> QED
              BY <3>1, <4>2, <7>1, SyncPartsAre
          <6> QED
            BY <3>3, <6>2, <6>3 DEF Counted
        <5> QED
          BY <4>2, <5>1, <5>2, <5>3 DEF SyncInv
      <4>3. CASE stage' = "sync" /\ i # 3
        <5>1. Counted("in flight", n)'
          <6>1. kind # "in flight"
            BY <3>1, <4>3, SyncPartsAre
          <6> QED
            BY <2>5, <3>3, <6>1 DEF Counted
        <5>2. ASSUME NEW j \in 1 .. 2
              PROVE  Counted(SyncParts[j], n)' \/ Counted(SyncParts[j], n + 1)'
          <6>1. CASE SyncParts[j] = kind
            BY <3>3, <6>1
          <6>2. CASE SyncParts[j] # kind
            BY <2>5, <3>3, <5>2, <6>2 DEF Counted
          <6> QED
            BY <6>1, <6>2
        <5> QED
          BY <2>2, <4>3, <5>1, <5>2 DEF SyncInv
      <4> QED
        BY <2>1, <2>8, <4>1, <4>2, <4>3
    <3> QED
      BY <3>5, <3>6 DEF ContextInv
  <2> QED
    BY <2>7, <2>8
<1>3. CASE CreateCache
  <2>1. /\ stage = "cache" /\ stage' = "open" /\ UNCHANGED <<host, chosen>>
        /\ alive' \subseteq alive \cup {<<"pipeline cache", 1>>} /\ alive \subseteq alive'
    BY <1>3 DEF CreateCache, Call
  <2>2. \A k \in PartKinds \cup SyncKinds : OfKind(k)' = OfKind(k)
    <3>1. ASSUME NEW o \in alive', o \notin alive PROVE o[1] = "pipeline cache"
      <4>1. o = <<"pipeline cache", 1>>
        BY <2>1, <3>1
      <4> QED
        BY <4>1
    <3>2. "pipeline cache" \notin PartKinds \cup SyncKinds
      BY DEF PartKinds, SyncKinds
    <3> QED
      BY <2>1, <3>1, <3>2 DEF OfKind
  <2>3. FamilyInv' /\ SurfaceInv' /\ ImagesInv' /\ PartsInv' /\ host' \in DOMAIN Offers
    BY <2>1, <2>2, PartsStay DEF WithImages
  <2>4. \A i \in 1 .. 3 : SyncParts[i] \in SyncKinds
    <3>1. \A i \in 1 .. 3 : i = 1 \/ i = 2 \/ i = 3
      OBVIOUS
    <3> QED
      BY <3>1, SyncPartsAre DEF SyncKinds
  <2>5. SyncInv'
    <3>1. \A i \in 1 .. 3 : Counted(SyncParts[i], Frames)
      BY <2>1 DEF ContextInv, SyncInv
    <3>2. \A i \in 1 .. 3 : Counted(SyncParts[i], Frames)'
      BY <2>2, <2>4, <3>1 DEF Counted
    <3> QED
      BY <2>1, <3>2 DEF SyncInv
  <2> QED
    BY <2>3, <2>5 DEF ContextInv
<1> QED
  BY <1>1, <1>2, <1>3

\* What draws and jobs make and destroy is no part of the context.
LEMMA WorkMakesNoParts ==
  /\ \A o \in Deferred : o[1] \notin PartKinds \cup SyncKinds
  /\ \A used \in SUBSET Uploads : \A o \in UNION {UploadOf(u) : u \in used} :
       o[1] \notin PartKinds \cup SyncKinds
  /\ \A o \in JobParts : o[1] \notin PartKinds \cup SyncKinds
  /\ \A task, state : \A o \in PipelineParts(task, state) : o[1] \notin PartKinds \cup SyncKinds
<1>1. ASSUME NEW use \in Uploads, NEW o \in UploadOf(use) PROVE o[1] \notin PartKinds \cup SyncKinds
  <2>1. CASE use = "texture"
    BY <1>1, <2>1 DEF UploadOf, PartKinds, SyncKinds
  <2>2. CASE use # "texture"
    <3>1. use \notin PartKinds \cup SyncKinds
      BY <1>1 DEF Uploads, PartKinds, SyncKinds
    <3> QED
      BY <1>1, <2>2, <3>1 DEF UploadOf
  <2> QED
    BY <2>1, <2>2
<1>2. \A o \in JobParts : o[1] \notin PartKinds \cup SyncKinds
  BY DEF JobParts, PartKinds, SyncKinds
<1>3. \A task, state : \A o \in PipelineParts(task, state) : o[1] \notin PartKinds \cup SyncKinds
  BY DEF PipelineParts, PartKinds, SyncKinds
<1> QED
  BY <1>1, <1>2, <1>3 DEF Deferred

\* An open context, or the processor without one, works without changing what was
\* chosen; work ends at most in a panic.
LEMMA WorkingFits ==
  ASSUME ContextInv, Working
  PROVE  ContextInv'
<1> DEFINE Others == \A o \in (alive' \ alive) \cup (alive \ alive') : o[1] \notin PartKinds \cup SyncKinds
<1>1. CASE stage = "error" /\ UNCHANGED <<host, stage, chosen, alive>>
  BY <1>1 DEF ContextInv, FamilyInv, SurfaceInv, ImagesInv, PartsInv, SyncInv, Unopened,
              WithDevice, WithSurface, WithImages
<1>2. CASE /\ stage = "open" /\ stage' \in {"open", "panic"} /\ UNCHANGED <<host, chosen>>
           /\ Others
  <2>1. \A k \in PartKinds \cup SyncKinds : OfKind(k)' = OfKind(k)
    BY <1>2 DEF OfKind
  <2>2. FamilyInv' /\ SurfaceInv' /\ ImagesInv' /\ PartsInv' /\ host' \in DOMAIN Offers
    BY <1>2, <2>1, PartsStay DEF WithImages
  <2>3. \A i \in 1 .. 3 : SyncParts[i] \in SyncKinds
    <3>1. \A i \in 1 .. 3 : i = 1 \/ i = 2 \/ i = 3
      OBVIOUS
    <3> QED
      BY <3>1, SyncPartsAre DEF SyncKinds
  <2>4. SyncInv'
    <3>1. \A i \in 1 .. 3 : Counted(SyncParts[i], Frames)
      BY <1>2 DEF ContextInv, SyncInv
    <3>2. \A i \in 1 .. 3 : Counted(SyncParts[i], Frames)'
      BY <2>1, <2>3, <3>1 DEF Counted
    <3> QED
      BY <1>2, <3>2 DEF SyncInv
  <2> QED
    BY <2>2, <2>4 DEF ContextInv
<1>3. ASSUME NEW used \in SUBSET Uploads, Upload(used)
      PROVE  /\ stage = "open" /\ stage' \in {"open", "panic"} /\ UNCHANGED <<host, chosen>>
             /\ Others
  BY <1>3, WorkMakesNoParts DEF Upload
<1>4. ASSUME Retire
      PROVE  /\ stage = "open" /\ stage' \in {"open", "panic"} /\ UNCHANGED <<host, chosen>>
             /\ Others
  BY <1>4, WorkMakesNoParts DEF Retire
<1>5. ASSUME NEW task, NEW input, NEW n, BeginJob(task, input, n)
      PROVE  /\ stage = "open" /\ stage' \in {"open", "panic"} /\ UNCHANGED <<host, chosen>>
             /\ Others
  BY <1>5, WorkMakesNoParts DEF BeginJob, JobParts
<1>6. ASSUME FillBuffers \/ FindPipeline \/ SubmitJob
      PROVE  /\ stage = "open" /\ stage' \in {"open", "panic"} /\ UNCHANGED <<host, chosen>>
             /\ Others
  <2>1. CASE FillBuffers
    BY <2>1 DEF FillBuffers, JobStep
  <2>2. CASE FindPipeline
    BY <2>2, WorkMakesNoParts DEF FindPipeline, JobStep
  <2>3. CASE SubmitJob
    BY <2>3, WorkMakesNoParts DEF SubmitJob, JobStep, JobParts
  <2> QED
    BY <1>6, <2>1, <2>2, <2>3
<1>7. ASSUME EndJob
      PROVE  /\ stage = "open" /\ stage' \in {"open", "panic"} /\ UNCHANGED <<host, chosen>>
             /\ Others
  BY <1>7, WorkMakesNoParts DEF EndJob, Destroyed
<1>8. ASSUME NEW task, NEW input, NEW n, OnProcessor(task, input, n)
      PROVE  stage = "error" /\ UNCHANGED <<host, stage, chosen, alive>>
  BY <1>8 DEF OnProcessor
<1> QED
  BY <1>1, <1>2, <1>3, <1>4, <1>5, <1>6, <1>7, <1>8 DEF Working

\* What may be there between two jobs beside the first objects, the parts and the frames'
\* objects: the cache, what draws have uploaded and the pipelines that jobs have left.
Left ==
  {<<"pipeline cache", 1>>} \cup Deferred
    \cup ({"task pipeline", "task layout", "task set layout", "task module"} \X {1, 2})

\* The first objects are there from the step that makes them.
BaseInv ==
  /\ stage \in {"surface", "gpu"} \cup WithDevice => <<"instance", 1>> \in alive
  /\ stage \in {"gpu"} \cup WithDevice => <<"surface", 1>> \in alive
  /\ stage \in {"capabilities"} \cup WithSurface => <<"device", 1>> \in alive
  /\ stage \in {"images"} \cup WithImages => <<"swapchain", 1>> \in alive

\* Nothing else is made.
KnownInv ==
  \A o \in alive : o \in Base \cup Left \cup JobParts \/ o[1] \in PartKinds \cup SyncKinds

\* A job's objects live while it is under way.
JobInv ==
  \/ job = NoJob /\ alive \cap JobParts = {}
  \/ "at" \in DOMAIN job /\ job.at # "none" /\ guest.task \in Tasks

HeldInv == BaseInv /\ KnownInv /\ JobInv

\* A step of the opening that makes some objects, none of a job.
LEMMA OpeningHolds ==
  ASSUME HeldInv, UNCHANGED <<job, guest>>,
         \A o \in alive' \ alive : /\ o \notin JobParts
                                   /\ o \in Base \cup Left \/ o[1] \in PartKinds \cup SyncKinds
  PROVE  KnownInv' /\ JobInv'
<1>1. KnownInv'
  BY DEF HeldInv, KnownInv
<1>2. JobInv'
  <2>1. alive \cap JobParts = {} => alive' \cap JobParts = {}
    <3> SUFFICES ASSUME alive \cap JobParts = {}, NEW o \in alive', o \in JobParts PROVE FALSE
      OBVIOUS
    <3> QED
      OBVIOUS
  <2> QED
    BY <2>1 DEF HeldInv, JobInv, NoJob, JobParts
<1> QED
  BY <1>1, <1>2

\* The next part is of one of the parts' kinds.
LEMMA NextPart ==
  ASSUME ContextInv, CreatePart
  PROVE  alive' = alive \/ \E o : o[1] \in PartKinds /\ alive' = alive \cup {o}
<1>1. stage = "parts"
  BY DEF CreatePart
<1>2. PICK n : n = chosen.images
  OBVIOUS
<1>3. Parts = PartsFor(n) /\ Len(Parts) = 8
  BY <1>2, PartsOfTheContext, PartsAre
<1>4. Unmade \in SUBSET Nat /\ Unmade # {} /\ Unmade \subseteq 1 .. 8
  BY <1>1, <1>3 DEF ContextInv, PartsInv, Unmade
<1>5. \E k \in Unmade : \A j \in Unmade : k <= j
  BY <1>4, LeastNumber
<1>6. PICK i \in Unmade : i = CHOOSE k \in Unmade : \A j \in Unmade : k <= j
  BY <1>5
<1>7. Parts[i][1] \in PartKinds
  BY <1>3, <1>4, <1>6, PartsAreOthers
<1>8. alive' = alive \/ alive' = alive \cup {<<Parts[i][1], Made(Parts[i][1]) + 1>>}
  BY <1>6 DEF CreatePart, Call
<1> QED
  BY <1>7, <1>8

\* The next object of a frame is of one of the frames' kinds.
LEMMA NextSyncKind ==
  ASSUME ContextInv, CreateSync
  PROVE  alive' = alive \/ \E o : o[1] \in SyncKinds /\ alive' = alive \cup {o}
<1>1. PICK n \in 0 .. Frames - 1 : \E i \in 1 .. 3 : MakesSync(n, i)
  BY NextSync
<1>2. PICK i \in 1 .. 3 : MakesSync(n, i)
  BY <1>1
<1>3. SyncParts[i] \in SyncKinds
  BY SyncPartsAre DEF SyncKinds
<1>4. alive' = alive \/ alive' = alive \cup {<<SyncParts[i], n + 1>>}
  BY <1>2 DEF MakesSync
<1> QED
  BY <1>3, <1>4

\* Nothing of the context is of a job's kind.
LEMMA JobKinds ==
  \A o \in JobParts : o \notin Base \cup Left /\ o[1] \notin PartKinds \cup SyncKinds
<1> SUFFICES ASSUME NEW o \in JobParts
             PROVE  o \notin Base \cup Left /\ o[1] \notin PartKinds \cup SyncKinds
  OBVIOUS
<1>1. o[1] \in {"input buffer", "input memory", "output buffer", "output memory",
               "descriptor pool", "temporary pool", "fence"}
  BY DEF JobParts
<1>2. o \notin Base
  BY <1>1 DEF Base
<1>3. o \notin Deferred
  <2>1. ASSUME NEW use \in Uploads PROVE o \notin UploadOf(use)
    <3>1. CASE use = "texture"
      <4>1. \A p \in UploadOf(use) :
              p[1] \in {"texture image", "texture memory", "texture view", "sampler"}
        BY <3>1 DEF UploadOf
      <4> QED
        BY <1>1, <4>1
    <3>2. CASE use # "texture"
      <4>1. \A p \in UploadOf(use) : p[1] = use
        BY <3>2 DEF UploadOf
      <4>2. use \in {"vertex", "index", "constant"}
        BY <2>1, <3>2 DEF Uploads
      <4> QED
        BY <1>1, <4>1, <4>2
    <3> QED
      BY <3>1, <3>2
  <2> QED
    BY <2>1 DEF Deferred
<1>4. o \notin Left
  <2>1. o # <<"pipeline cache", 1>>
    <3>1. <<"pipeline cache", 1>>[1] = "pipeline cache"
      OBVIOUS
    <3> QED
      BY <1>1, <3>1
  <2>2. o \notin {"task pipeline", "task layout", "task set layout", "task module"} \X {1, 2}
    BY <1>1
  <2> QED
    BY <1>3, <2>1, <2>2 DEF Left
<1>5. o[1] \notin PartKinds \cup SyncKinds
  BY <1>1 DEF PartKinds, SyncKinds
<1> QED
  BY <1>2, <1>4, <1>5

\* The opening makes the first objects in order, then the parts, and no others.
LEMMA HeldOpening ==
  ASSUME ContextInv, HeldInv, Opening
  PROVE  HeldInv'
<1>1. CASE LoadVulkan \/ CreateInstance \/ CreateSurface \/ CreateDevice \/ CreateSwapchain
  <2>1. alive' \ alive \subseteq Base
    <3>1. CASE LoadVulkan
      BY <3>1 DEF LoadVulkan
    <3>2. CASE CreateInstance
      BY <3>2 DEF CreateInstance, Call, Base
    <3>3. CASE CreateSurface
      BY <3>3 DEF CreateSurface, Call, Base
    <3>4. CASE CreateDevice
      BY <3>4 DEF CreateDevice, Call, Base
    <3>5. CASE CreateSwapchain
      BY <3>5 DEF CreateSwapchain, Call, Base
    <3> QED
      BY <1>1, <3>1, <3>2, <3>3, <3>4, <3>5
  <2>2. KnownInv' /\ JobInv'
    <3>1. UNCHANGED <<job, guest>>
      BY <1>1 DEF LoadVulkan, CreateInstance, CreateSurface, CreateDevice, CreateSwapchain, Call
    <3> QED
      BY <2>1, <3>1, OpeningHolds, JobKinds
  <2>3. BaseInv'
    <3>1. CASE LoadVulkan
      BY <3>1 DEF LoadVulkan, BaseInv, WithDevice, WithSurface, WithImages
    <3>2. CASE CreateInstance
      BY <3>2 DEF CreateInstance, Call, HeldInv, BaseInv, WithDevice, WithSurface, WithImages
    <3>3. CASE CreateSurface
      BY <3>3 DEF CreateSurface, Call, HeldInv, BaseInv, WithDevice, WithSurface, WithImages
    <3>4. CASE CreateDevice
      BY <3>4 DEF CreateDevice, Call, HeldInv, BaseInv, WithDevice, WithSurface, WithImages
    <3>5. CASE CreateSwapchain
      BY <3>5 DEF CreateSwapchain, Call, HeldInv, BaseInv, WithDevice, WithSurface, WithImages
    <3> QED
      BY <1>1, <3>1, <3>2, <3>3, <3>4, <3>5
  <2> QED
    BY <2>2, <2>3 DEF HeldInv
<1>2. CASE ChooseDevice \/ ReadSurface \/ GetImages \/ Transition
  <2>1. alive' = alive /\ UNCHANGED <<job, guest>>
    BY <1>2 DEF ChooseDevice, ReadSurface, GetImages, Transition, Call
  <2>2. KnownInv' /\ JobInv'
    BY <2>1 DEF HeldInv, KnownInv, JobInv
  <2>3. BaseInv'
    BY <1>2, <2>1 DEF ChooseDevice, ReadSurface, GetImages, Transition, Call, HeldInv, BaseInv,
                      WithDevice, WithSurface, WithImages
  <2> QED
    BY <2>2, <2>3 DEF HeldInv
<1>3. CASE CreatePart \/ CreateSync \/ CreateCache
  <2>1. alive \subseteq alive' /\
        \A o \in alive' \ alive : o = <<"pipeline cache", 1>> \/ o[1] \in PartKinds \cup SyncKinds
    <3>1. CASE CreatePart
      BY <3>1, NextPart
    <3>2. CASE CreateSync
      BY <3>2, NextSyncKind
    <3>3. CASE CreateCache
      BY <3>3 DEF CreateCache, Call
    <3> QED
      BY <1>3, <3>1, <3>2, <3>3
  <2>2. UNCHANGED <<job, guest>>
    BY <1>3 DEF CreatePart, CreateSync, CreateCache, Call
  <2>3. KnownInv' /\ JobInv'
    <3>1. <<"pipeline cache", 1>> \in Left
      BY DEF Left
    <3>2. \A o \in alive' \ alive : /\ o \notin JobParts
                                    /\ o \in Base \cup Left \/ o[1] \in PartKinds \cup SyncKinds
      BY <2>1, <3>1, JobKinds
    <3> QED
      BY <2>1, <2>2, <3>2, OpeningHolds
  <2>4. stage \in WithImages /\ Base \subseteq alive
    <3>1. stage \in {"parts", "sync", "cache"}
      BY <1>3 DEF CreatePart, CreateSync, CreateCache, Call
    <3> QED
      BY <3>1 DEF HeldInv, BaseInv, Base, WithDevice, WithSurface, WithImages
  <2>5. BaseInv'
    BY <2>1, <2>4 DEF BaseInv, Base
  <2> QED
    BY <2>3, <2>5 DEF HeldInv
<1> QED
  BY <1>1, <1>2, <1>3 DEF Opening

\* An upload makes some of what is destroyed when its frame is over.
LEMMA UploadsAreDeferred ==
  ASSUME NEW used \in SUBSET Uploads
  PROVE  UNION {UploadOf(u) : u \in used} \subseteq Deferred
BY DEF Deferred

\* Draws and jobs keep what the context has made; a job's objects go with it.
LEMMA HeldWorking ==
  ASSUME ContextInv, HeldInv, Working
  PROVE  HeldInv'
<1>1. CASE UNCHANGED <<stage, alive, job>> /\ stage = "error" /\ guest'.task \in Tasks
  BY <1>1 DEF HeldInv, BaseInv, KnownInv, JobInv, NoJob, WithDevice, WithSurface, WithImages
<1>2. CASE /\ stage = "open" /\ stage' \in {"open", "panic"}
           /\ alive \ alive' \subseteq Deferred \cup JobParts
           /\ alive' \ alive \subseteq Left \cup JobParts
           /\ JobInv'
  <2>1. Base \cap (Deferred \cup JobParts) = {}
    <3>1. \A o \in Base : o[1] \in {"instance", "surface", "device", "swapchain"}
      BY DEF Base
    <3>2. ASSUME NEW o \in Deferred PROVE o[1] \notin {"instance", "surface", "device", "swapchain"}
      <4>1. PICK use \in Uploads : o \in UploadOf(use)
        BY <3>2 DEF Deferred
      <4>2. CASE use = "texture"
        BY <4>1, <4>2 DEF UploadOf
      <4>3. CASE use # "texture"
        <5>1. use \in {"vertex", "index", "constant"}
          BY <4>3 DEF Uploads
        <5>2. o[1] = use
          BY <4>1, <4>3 DEF UploadOf
        <5> QED
          BY <5>1, <5>2
      <4> QED
        BY <4>2, <4>3
    <3> QED
      BY <3>1, <3>2, JobKinds
  <2>2. BaseInv'
    <3>1. Base \subseteq alive
      BY <1>2 DEF HeldInv, BaseInv, Base, WithDevice, WithSurface, WithImages
    <3>2. Base \subseteq alive'
      BY <1>2, <2>1, <3>1
    <3> QED
      BY <3>2 DEF BaseInv, Base
  <2>3. KnownInv'
    BY <1>2 DEF HeldInv, KnownInv
  <2> QED
    BY <1>2, <2>2, <2>3 DEF HeldInv
<1> DEFINE Kept == /\ stage = "open" /\ stage' \in {"open", "panic"}
                   /\ alive \ alive' \subseteq Deferred \cup JobParts
                   /\ alive' \ alive \subseteq Left \cup JobParts
                   /\ JobInv'
<1>3. ASSUME NEW used \in SUBSET Uploads, Upload(used)
      PROVE  Kept
  <2>1. /\ stage = "open" /\ stage' \in {"open", "panic"} /\ job = NoJob /\ job' = job
        /\ alive \subseteq alive' /\ alive' \ alive \subseteq Deferred
    BY <1>3, UploadsAreDeferred DEF Upload
  <2>2. alive \cap JobParts = {}
    BY <2>1 DEF HeldInv, JobInv, NoJob
  <2>3. Deferred \subseteq Left
    BY DEF Left
  <2>4. alive' \cap JobParts = {}
    BY <2>1, <2>2, <2>3, JobKinds
  <2> QED
    BY <2>1, <2>3, <2>4 DEF JobInv, NoJob
<1>4. ASSUME Retire PROVE Kept
  BY <1>4 DEF Retire, HeldInv, JobInv, NoJob
<1>5. ASSUME NEW task \in Tasks, NEW input, NEW n, BeginJob(task, input, n)
      PROVE  Kept
  BY <1>5 DEF BeginJob, Asked, JobInv, JobParts
<1>6. ASSUME NEW at, NEW objs, NEW next, JobStep(at, objs, next), at # "none",
             "at" \in DOMAIN next, next.at # "none", objs \subseteq Left \cup JobParts
      PROVE  Kept
  BY <1>6 DEF JobStep, HeldInv, JobInv, NoJob
<1>7. ASSUME FillBuffers PROVE Kept
  <2>1. PICK next : /\ next = [job EXCEPT !.at = "pipeline",
                                          !.in = Filled(guest.input, Len(guest.input), Len(guest.input)),
                                          !.out = Filled(guest.input, guest.size, guest.size)]
                    /\ JobStep("fill", {}, next)
    BY <1>7 DEF FillBuffers
  <2>4. PICK objs : objs \subseteq Left \cup JobParts /\ JobStep("fill", objs, next)
    <3>1. {} \subseteq Left \cup JobParts
      OBVIOUS
    <3> QED
      BY <2>1, <3>1
  <2>2. "at" \in DOMAIN job
    BY <2>1 DEF JobStep, HeldInv, JobInv, NoJob
  <2>3. "at" \in DOMAIN next /\ next.at = "pipeline"
    BY <2>1, <2>2
  <2> QED
    BY <1>6, <2>3, <2>4
<1>8. ASSUME FindPipeline PROVE Kept
  <2>1. PICK state, next : /\ next = [job EXCEPT !.at = "submit"]
                           /\ JobStep("pipeline", PipelineParts(guest.task, state), next)
    BY <1>8 DEF FindPipeline
  <2>2. "at" \in DOMAIN job /\ guest.task \in Tasks
    BY <2>1 DEF JobStep, HeldInv, JobInv, NoJob
  <2>3. "at" \in DOMAIN next /\ next.at = "submit"
    BY <2>1, <2>2
  <2>4. PipelineParts(guest.task, state) \subseteq Left
    <3>1. TaskNumber[guest.task] \in {1, 2}
      BY <2>2 DEF TaskNumber, Tasks
    <3> QED
      BY <3>1 DEF PipelineParts, Left
  <2> QED
    BY <1>6, <2>1, <2>3, <2>4
<1>9. ASSUME SubmitJob PROVE Kept
  <2>1. PICK next : /\ next = [job EXCEPT !.at = "read",
                                          !.out = IF tasks[guest.task] = "compiled"
                                                    THEN Dispatched(guest.task, job.in, job.out, guest.size)
                                                    ELSE job.out]
                    /\ JobStep("submit", {"descriptor pool", "temporary pool", "fence"} \X {1}, next)
    BY <1>9 DEF SubmitJob
  <2>2. "at" \in DOMAIN job
    <3>1. job.at = "submit"
      BY <1>9 DEF SubmitJob
    <3> QED
      BY <3>1 DEF HeldInv, JobInv, NoJob
  <2>3. "at" \in DOMAIN next /\ next.at = "read"
    BY <2>1, <2>2
  <2>4. {"descriptor pool", "temporary pool", "fence"} \X {1} \subseteq JobParts
    BY DEF JobParts
  <2> QED
    BY <1>6, <2>1, <2>3, <2>4
<1>10. ASSUME EndJob PROVE Kept
  BY <1>10 DEF EndJob, Destroyed, HeldInv, JobInv, NoJob
<1>11. ASSUME NEW task \in Tasks, NEW input, NEW n, OnProcessor(task, input, n)
       PROVE  UNCHANGED <<stage, alive, job>> /\ stage = "error" /\ guest'.task \in Tasks
  BY <1>11 DEF OnProcessor
<1> QED
  BY <1>1, <1>2, <1>3, <1>4, <1>5, <1>6, <1>7, <1>8, <1>9, <1>10, <1>11 DEF Working, Calls

\* A context starts with nothing made.
LEMMA ContextInvInit == GraphicsInit => ContextInv
<1> SUFFICES ASSUME GraphicsInit PROVE ContextInv
  OBVIOUS
<1>1. stage \in {"loader", "elsewhere"} /\ alive = {}
      /\ (stage = "loader" => host \in DOMAIN Offers)
  BY DEF GraphicsInit, DeviceInit
<1> QED
  BY <1>1 DEF ContextInv, FamilyInv, SurfaceInv, ImagesInv, PartsInv, SyncInv, Unopened,
              WithDevice, WithSurface, WithImages

\* No step of the opening, of the work or of the drawing path breaks the invariant.
LEMMA ContextInvNext == ContextInv /\ [GraphicsNext]_graphicsVars => ContextInv'
<1> SUFFICES ASSUME ContextInv, [GraphicsNext]_graphicsVars PROVE ContextInv'
  OBVIOUS
<1>1. CASE UNCHANGED contextVars
  <2>1. UNCHANGED <<host, stage, chosen, alive>>
    BY <1>1 DEF contextVars
  <2>2. FamilyInv' /\ SurfaceInv' /\ ImagesInv'
    BY <2>1, ChosenStays
  <2>3. Parts' = Parts /\ Unmade' = Unmade
    BY <2>1 DEF Parts, Unmade, Made
  <2>4. PartsInv'
    BY <2>1, <2>3 DEF ContextInv, PartsInv, Counted, OfKind
  <2>5. SyncInv'
    BY <2>1 DEF ContextInv, SyncInv, Counted, OfKind
  <2> QED
    BY <2>1, <2>2, <2>4, <2>5 DEF ContextInv
<1>2. CASE Opening
  BY <1>2, EarlySteps, ChooseDeviceFits, ReadSurfaceFits, GetImagesFits, CreatePartFits, SyncSteps
  DEF Opening
<1>3. CASE Working
  BY <1>3, WorkingFits
<1> QED
  BY <1>1, <1>2, <1>3 DEF GraphicsNext, Drawing, OnDevice, DeviceNext, graphicsVars

\* A context starts with nothing made and no job.
LEMMA HeldInit == GraphicsInit => HeldInv
BY DEF GraphicsInit, DeviceInit, HeldInv, BaseInv, KnownInv, JobInv, NoJob, WithDevice, WithSurface, WithImages

\* The steps of the device keep what is held, and the others leave it alone.
LEMMA HeldNext == ContextInv /\ HeldInv /\ [GraphicsNext]_graphicsVars => HeldInv'
<1> SUFFICES ASSUME ContextInv, HeldInv, [GraphicsNext]_graphicsVars PROVE HeldInv'
  OBVIOUS
<1>1. CASE UNCHANGED contextVars
  BY <1>1 DEF contextVars, HeldInv, BaseInv, KnownInv, JobInv
<1> QED
  BY <1>1, HeldOpening, HeldWorking DEF GraphicsNext, Drawing, OnDevice, DeviceNext, graphicsVars

\* What was chosen fits, and the uploads' memory, which is looked up anew, is found.
LEMMA ContextInvFits == ContextInv => ContextFitsHost
<1> SUFFICES ASSUME ContextInv, stage = "open" PROVE ContextFitsHost
  BY DEF ContextFitsHost
<1>1. /\ host \in DOMAIN Offers
      /\ chosen.gpu \in 1 .. Len(Here.gpus)
      /\ LET f == Gpu.families[chosen.family] IN f.graphics /\ f.present
  BY DEF ContextInv, FamilyInv, WithDevice, WithSurface, WithImages
<1>2. /\ IF Here.current = "any"
           THEN \A d \in 1 .. 2 : chosen.extent[d] \in Here.least[d] .. Here.most[d]
           ELSE chosen.extent = Here.current
      /\ chosen.count \in Nat /\ chosen.count >= Here.minImages
      /\ Here.maxImages > 0 => chosen.count <= Here.maxImages
      /\ chosen.format \in ToSet(Here.formats)
  BY DEF ContextInv, SurfaceInv, WithSurface, WithImages
<1>3. chosen.images = chosen.count + Here.extra /\ chosen.memory \in Gpu.depth
  BY DEF ContextInv, ImagesInv, WithImages
<1>4. Made("framebuffer") = chosen.count + Here.extra
  <2>1. Here.extra \in Nat
    BY <1>1, DeviceAssumption DEF Here
  <2>2. chosen.images \in Nat
    BY <1>2, <1>3, <2>1
  <2>3. Counted("framebuffer", chosen.images)
    <3>1. \A i \in 1 .. 8 : Counted(Parts[i][1], Parts[i][2])
      BY DEF ContextInv, PartsInv, WithImages
    <3>2. Parts[6][1] = "framebuffer" /\ Parts[6][2] = chosen.images /\ 6 \in 1 .. 8
      <4>1. PartsFor(chosen.images)[6][1] = "framebuffer" /\ PartsFor(chosen.images)[6][2] = chosen.images
        BY PartsAre
      <4> QED
        BY <4>1, PartsOfTheContext
    <3> QED
      BY <3>1, <3>2
  <2> QED
    BY <1>3, <2>2, <2>3, CountedMade
<1>5. UploadMemory \in Gpu.buffers /\ Visible \subseteq Gpu.memory[UploadMemory]
  <2>1. Gpu \in ToSet(Here.gpus)
    <3>1. Here.gpus \in Seq(ToSet(Here.gpus))
      BY <1>1, DeviceAssumption DEF Here
    <3>2. DOMAIN Here.gpus = 1 .. Len(Here.gpus)
      BY <3>1, LenProperties
    <3> QED
      BY <1>1, <3>2 DEF Gpu, ToSet
  <2> DEFINE gpu == Gpu
             allowed == Gpu.buffers
             wanted == Visible
  <2>2. allowed \in SUBSET Nat /\ \E i \in allowed : wanted \subseteq gpu.memory[i]
    BY <1>1, <2>1, DeviceAssumption DEF Here, Visible
  <2>3. UploadMemory = MemoryTypeFor(gpu, allowed, wanted)
    BY DEF UploadMemory
  <2> HIDE DEF gpu, allowed, wanted
  <2>4. UploadMemory \in allowed /\ wanted \subseteq gpu.memory[UploadMemory]
    BY <2>2, <2>3, MemoryIsFound
  <2> QED
    BY <2>4 DEF gpu, allowed, wanted
<1> QED
  BY <1>1, <1>2, <1>3, <1>4, <1>5 DEF ContextFitsHost

\* Whatever the host offers that Vulkan allows, and whichever calls of the driver
\* fail, a context that VulkanContext::new returns fits the host, and the draws and
\* compute jobs made with it keep it so (src/src/graphics.rs).
THEOREM ContextAlwaysFits == GraphicsSpec => []ContextFitsHost
BY ContextInvInit, ContextInvNext, ContextInvFits, PTL DEF GraphicsSpec

(***************************************************************************)
(* What Drop destroys.                                                     *)
(***************************************************************************)

\* A set of numbers with zero and every successor is all of them.
LEMMA NumbersFromZero ==
  ASSUME NEW T \in SUBSET Nat, 0 \in T, \A n \in T : n + 1 \in T
  PROVE  T = Nat
<1> DEFINE U == Nat \ T
<1>1. SUFFICES ASSUME U # {} PROVE FALSE
  OBVIOUS
<1>2. PICK i \in U : \A j \in U : ~(<<j, i>> \in OpToRel(<, Nat))
  <2> HIDE DEF U
  <2>1. U \in SUBSET Nat
    BY DEF U
  <2> QED
    BY <1>1, <2>1, NatLessThanWellFounded, WFMin
<1>3. i # 0 /\ i - 1 \in Nat /\ i - 1 < i
  OBVIOUS
<1>4. i - 1 \in T
  BY <1>2, <1>3 DEF OpToRel
<1> QED
  BY <1>3, <1>4

\* A sequence of all of some objects, each once.
Lists(s, A) ==
  /\ s \in Seq(A)
  /\ \A o \in A : \E i \in 1 .. Len(s) : s[i] = o
  /\ \A i, j \in 1 .. Len(s) : s[i] = s[j] => i = j

\* One more object.
LEMMA ListsAppend ==
  ASSUME NEW s, NEW A, Lists(s, A), NEW o, o \notin A
  PROVE  Lists(Append(s, o), A \cup {o})
<1> DEFINE t == Append(s, o)
<1>1. s \in Seq(A \cup {o}) /\ Len(s) \in Nat /\ \A i \in 1 .. Len(s) : s[i] \in A
  <2>1. s \in Seq(A)
    BY DEF Lists
  <2>2. Len(s) \in Nat /\ \A i \in 1 .. Len(s) : s[i] \in A
    BY <2>1, LenProperties, ElementOfSeq
  <2>3. s \in Seq(A \cup {o})
    BY <2>1
  <2> QED
    BY <2>2, <2>3
<1>2. /\ t \in Seq(A \cup {o}) /\ Len(t) = Len(s) + 1
      /\ \A i \in 1 .. Len(s) : t[i] = s[i]
      /\ t[Len(s) + 1] = o
  BY <1>1, AppendProperties
<1> HIDE DEF t
<1>3. ASSUME NEW p \in A \cup {o} PROVE \E i \in 1 .. Len(t) : t[i] = p
  <2>1. CASE p = o
    BY <1>1, <1>2, <2>1
  <2>2. CASE p \in A
    <3>1. PICK i \in 1 .. Len(s) : s[i] = p
      BY <2>2 DEF Lists
    <3>2. i \in 1 .. Len(t)
      BY <1>1, <1>2, <3>1
    <3> QED
      BY <1>2, <3>1, <3>2
  <2> QED
    BY <2>1, <2>2
<1>4. ASSUME NEW i \in 1 .. Len(t), NEW j \in 1 .. Len(t), t[i] = t[j] PROVE i = j
  <2>1. i \in 1 .. Len(s) \/ i = Len(s) + 1
    BY <1>1, <1>2
  <2>2. j \in 1 .. Len(s) \/ j = Len(s) + 1
    BY <1>1, <1>2
  <2>3. CASE i \in 1 .. Len(s) /\ j \in 1 .. Len(s)
    BY <1>2, <1>4, <2>3 DEF Lists
  <2>4. CASE i = Len(s) + 1 /\ j \in 1 .. Len(s)
    BY <1>1, <1>2, <1>4, <2>4
  <2>5. CASE j = Len(s) + 1 /\ i \in 1 .. Len(s)
    BY <1>1, <1>2, <1>4, <2>5
  <2> QED
    BY <2>1, <2>2, <2>3, <2>4, <2>5
<1>5. Lists(t, A \cup {o})
  BY <1>2, <1>3, <1>4 DEF Lists
<1> QED
  BY <1>5 DEF t

\* The objects of some kinds with a number.
LEMMA EachOfLists ==
  ASSUME NEW kinds, NEW K, Lists(kinds, K), NEW n
  PROVE  Lists(EachOf(kinds, n), K \X {n})
<1> DEFINE s == EachOf(kinds, n)
<1>1. kinds \in Seq(K) /\ Len(kinds) \in Nat /\ \A i \in 1 .. Len(kinds) : kinds[i] \in K
  <2>1. kinds \in Seq(K)
    BY DEF Lists
  <2> QED
    BY <2>1, LenProperties, ElementOfSeq
<1>2. \A i \in 1 .. Len(kinds) : s[i] = <<kinds[i], n>>
  BY DEF EachOf
<1>3. s \in [1 .. Len(kinds) -> K \X {n}]
  BY <1>1 DEF EachOf
<1>4. s \in Seq(K \X {n}) /\ Len(s) = Len(kinds)
  <2>1. s = [i \in 1 .. Len(kinds) |-> s[i]]
    BY <1>3
  <2> HIDE DEF s
  <2> QED
    BY <1>1, <1>3, <2>1
<1> HIDE DEF s
<1>5. ASSUME NEW o \in K \X {n} PROVE \E i \in 1 .. Len(s) : s[i] = o
  <2>1. PICK i \in 1 .. Len(kinds) : kinds[i] = o[1]
    BY DEF Lists
  <2>2. o = <<o[1], n>>
    OBVIOUS
  <2> QED
    BY <1>2, <1>4, <2>1, <2>2
<1>6. ASSUME NEW i \in 1 .. Len(s), NEW j \in 1 .. Len(s), s[i] = s[j] PROVE i = j
  <2>1. <<kinds[i], n>> = <<kinds[j], n>>
    BY <1>2, <1>4, <1>6
  <2>2. kinds[i] = kinds[j]
    BY <2>1
  <2> QED
    BY <1>4, <2>2 DEF Lists
<1>7. Lists(s, K \X {n})
  BY <1>4, <1>5, <1>6 DEF Lists
<1> QED
  BY <1>7 DEF s

\* The numbered objects of a kind.
LEMMA NumbersLists ==
  ASSUME NEW kind, NEW n \in Nat
  PROVE  Lists(Numbers(kind, n), Numbered(kind, n))
<1> DEFINE s == Numbers(kind, n)
<1>1. \A i \in 1 .. n : s[i] = <<kind, i>>
  BY DEF Numbers
<1>2. s \in [1 .. n -> Numbered(kind, n)]
  BY DEF Numbers, Numbered
<1>3. s \in Seq(Numbered(kind, n)) /\ Len(s) = n
  <2>1. s = [i \in 1 .. n |-> s[i]]
    BY <1>2
  <2> HIDE DEF s
  <2> QED
    BY <1>2, <2>1
<1> HIDE DEF s
<1>4. ASSUME NEW o \in Numbered(kind, n) PROVE \E i \in 1 .. Len(s) : s[i] = o
  <2>1. o[2] \in 1 .. n /\ o = <<kind, o[2]>>
    BY DEF Numbered
  <2> QED
    BY <1>1, <1>3, <2>1
<1>5. ASSUME NEW i \in 1 .. Len(s), NEW j \in 1 .. Len(s), s[i] = s[j] PROVE i = j
  BY <1>1, <1>3, <1>5
<1>6. Lists(s, Numbered(kind, n))
  BY <1>3, <1>4, <1>5 DEF Lists
<1> QED
  BY <1>6 DEF s

\* Two sequences of different objects, one after the other.
LEMMA ListsJoin ==
  ASSUME NEW s, NEW A, Lists(s, A), NEW t, NEW B, Lists(t, B), A \cap B = {}
  PROVE  Lists(s \o t, A \cup B)
<1> DEFINE u == s \o t
           m == Len(s)
           n == Len(t)
<1>1. m \in Nat /\ n \in Nat /\ s \in Seq(A \cup B) /\ t \in Seq(A \cup B)
  <2>1. s \in Seq(A) /\ t \in Seq(B)
    BY DEF Lists
  <2> QED
    BY <2>1, LenProperties
<1>2. (\A i \in 1 .. m : s[i] \in A) /\ \A i \in 1 .. n : t[i] \in B
  <2>1. s \in Seq(A) /\ t \in Seq(B)
    BY DEF Lists
  <2> QED
    BY <2>1, ElementOfSeq
<1>3. /\ u \in Seq(A \cup B) /\ Len(u) = m + n
      /\ \A i \in 1 .. m + n : u[i] = IF i <= m THEN s[i] ELSE t[i - m]
  BY <1>1, ConcatProperties
<1>4. (\A i \in 1 .. m : u[i] = s[i]) /\ \A i \in 1 .. n : u[m + i] = t[i]
  <2>1. \A i \in 1 .. m : u[i] = s[i]
    <3> TAKE i \in 1 .. m
    <3>1. i \in 1 .. m + n /\ i <= m
      BY <1>1
    <3> HIDE DEF u, m, n
    <3> QED
      BY <1>3, <3>1
  <2>2. \A i \in 1 .. n : u[m + i] = t[i]
    <3> TAKE i \in 1 .. n
    <3>1. m + i \in 1 .. m + n /\ ~(m + i <= m) /\ (m + i) - m = i
      BY <1>1
    <3> HIDE DEF u, m, n
    <3> QED
      BY <1>3, <3>1
  <2> QED
    BY <2>1, <2>2
<1>5. \A i \in 1 .. m : \A j \in 1 .. m : s[i] = s[j] => i = j
  BY DEF Lists
<1>6. \A i \in 1 .. n : \A j \in 1 .. n : t[i] = t[j] => i = j
  BY DEF Lists
<1>7. (\A o \in A : \E i \in 1 .. m : s[i] = o) /\ \A o \in B : \E i \in 1 .. n : t[i] = o
  BY DEF Lists
<1> HIDE DEF u, m, n
<1>8. ASSUME NEW o \in A \cup B PROVE \E i \in 1 .. Len(u) : u[i] = o
  <2>1. CASE o \in A
    <3>1. PICK i \in 1 .. m : s[i] = o
      BY <1>7, <2>1
    <3>2. i \in 1 .. m + n
      BY <1>1, <3>1
    <3> QED
      BY <1>3, <1>4, <3>1, <3>2
  <2>2. CASE o \in B
    <3>1. PICK i \in 1 .. n : t[i] = o
      BY <1>7, <2>2
    <3>2. m + i \in 1 .. m + n
      BY <1>1, <3>1
    <3> QED
      BY <1>3, <1>4, <3>1, <3>2
  <2> QED
    BY <2>1, <2>2
<1>9. ASSUME NEW i \in 1 .. Len(u), NEW j \in 1 .. Len(u), u[i] = u[j] PROVE i = j
  <2>1. i \in 1 .. m \/ i - m \in 1 .. n
    BY <1>1, <1>3
  <2>2. j \in 1 .. m \/ j - m \in 1 .. n
    BY <1>1, <1>3
  <2>3. CASE i \in 1 .. m /\ j \in 1 .. m
    BY <1>4, <1>5, <1>9, <2>3
  <2>4. CASE i - m \in 1 .. n /\ j - m \in 1 .. n
    <3>1. i = m + (i - m) /\ j = m + (j - m)
      BY <1>1, <1>3
    <3>2. u[i] = t[i - m] /\ u[j] = t[j - m]
      BY <1>4, <2>4, <3>1
    <3>3. i - m = j - m
      BY <1>6, <1>9, <2>4, <3>2
    <3> QED
      BY <3>1, <3>3
  <2>5. CASE i \in 1 .. m /\ j - m \in 1 .. n
    <3>1. j = m + (j - m)
      BY <1>1, <1>3
    <3>2. u[i] \in A /\ u[j] \in B
      BY <1>2, <1>4, <2>5, <3>1
    <3> QED
      BY <1>9, <3>2
  <2>6. CASE j \in 1 .. m /\ i - m \in 1 .. n
    <3>1. i = m + (i - m)
      BY <1>1, <1>3
    <3>2. u[j] \in A /\ u[i] \in B
      BY <1>2, <1>4, <2>6, <3>1
    <3> QED
      BY <1>9, <3>2
  <2> QED
    BY <2>1, <2>2, <2>3, <2>4, <2>5, <2>6
<1>10. Lists(u, A \cup B)
  BY <1>3, <1>8, <1>9 DEF Lists
<1> QED
  BY <1>10 DEF u

\* What is kept of some objects with the i-th, when r is kept of those before it.
NextMade(objs, S, i, r) == IF objs[i] \in S THEN Append(r, objs[i]) ELSE r

\* What is kept of the first n objects.
MadeTo(objs, S, n, g) ==
  g = [i \in 0 .. n |-> IF i = 0 THEN << >> ELSE NextMade(objs, S, i, g[i - 1])]

\* The same value by value.
MadeEach(objs, S, n, g) ==
  \A i \in 0 .. n : g[i] = IF i = 0 THEN << >> ELSE NextMade(objs, S, i, g[i - 1])

\* What is kept at each number.
LEMMA MadeAt ==
  ASSUME NEW objs, NEW S, NEW n \in Nat, NEW g, MadeTo(objs, S, n, g)
  PROVE  MadeEach(objs, S, n, g)
<1> DEFINE k == [i \in 0 .. n |-> IF i = 0 THEN << >> ELSE NextMade(objs, S, i, g[i - 1])]
<1>1. g = k
  BY DEF MadeTo
<1>2. \A i \in 0 .. n : k[i] = IF i = 0 THEN << >> ELSE NextMade(objs, S, i, g[i - 1])
  OBVIOUS
<1> HIDE DEF k
<1>3. \A i \in 0 .. n : g[i] = k[i]
  BY <1>1
<1> QED
  BY <1>2, <1>3 DEF MadeEach

\* There is such a function for any number of objects.
LEMMA MadeExist ==
  ASSUME NEW objs, NEW S, NEW n \in Nat
  PROVE  \E g : MadeTo(objs, S, n, g)
<1> DEFINE T == {m \in Nat : \E g : MadeTo(objs, S, m, g)}
<1>1. 0 \in T
  <2> DEFINE g == [i \in 0 .. 0 |-> << >>]
  <2>1. g = [i \in 0 .. 0 |-> IF i = 0 THEN << >> ELSE NextMade(objs, S, i, g[i - 1])]
    OBVIOUS
  <2>2. MadeTo(objs, S, 0, g)
    BY <2>1 DEF MadeTo
  <2> QED
    BY <2>2
<1>2. \A m \in T : m + 1 \in T
  <2> SUFFICES ASSUME NEW m \in Nat, NEW g, MadeTo(objs, S, m, g)
               PROVE  \E h : MadeTo(objs, S, m + 1, h)
    OBVIOUS
  <2>1. \A i \in 0 .. m : g[i] = IF i = 0 THEN << >> ELSE NextMade(objs, S, i, g[i - 1])
    <3>1. MadeEach(objs, S, m, g)
      BY MadeAt
    <3> QED
      BY <3>1 DEF MadeEach
  <2> DEFINE h == [i \in 0 .. m + 1 |->
                     IF i = 0 THEN << >> ELSE NextMade(objs, S, i, g[i - 1])]
             k == [i \in 0 .. m + 1 |->
                     IF i = 0 THEN << >> ELSE NextMade(objs, S, i, h[i - 1])]
  <2>2. \A i \in 0 .. m : h[i] = g[i]
    BY <2>1
  <2>3. \A i \in 0 .. m + 1 : h[i] = k[i]
    <3> TAKE i \in 0 .. m + 1
    <3>1. CASE i = 0
      BY <3>1
    <3>2. CASE i # 0
      <4>1. i - 1 \in 0 .. m
        BY <3>2
      <4>2. h[i - 1] = g[i - 1]
        BY <2>2, <4>1
      <4>3. h[i] = NextMade(objs, S, i, g[i - 1])
        BY <3>2
      <4>4. k[i] = NextMade(objs, S, i, h[i - 1])
        BY <3>2
      <4> QED
        BY <4>2, <4>3, <4>4
    <3> QED
      BY <3>1, <3>2
  <2>4. h = k
    BY <2>3
  <2>5. MadeTo(objs, S, m + 1, h)
    BY <2>4 DEF MadeTo
  <2> QED
    BY <2>5
<1> HIDE DEF T
<1>3. T = Nat
  BY <1>1, <1>2, NumbersFromZero DEF T
<1> QED
  BY <1>3 DEF T

\* Those of some objects that were made, each once.
LEMMA OnlyMadeLists ==
  ASSUME NEW objs, NEW A, Lists(objs, A)
  PROVE  Lists(OnlyMade(objs), A \cap alive)
<1> DEFINE n == Len(objs)
           g == CHOOSE g : g = [i \in 0 .. n |->
                  IF i = 0 THEN << >>
                  ELSE IF objs[i] \in alive THEN Append(g[i - 1], objs[i]) ELSE g[i - 1]]
<1>0. n \in Nat /\ \A i \in 1 .. n : objs[i] \in A
  <2>1. objs \in Seq(A)
    BY DEF Lists
  <2> QED
    BY <2>1, LenProperties, ElementOfSeq
<1>1. MadeTo(objs, alive, n, g)
  <2> HIDE DEF n
  <2>1. \E h : h = [i \in 0 .. n |->
                  IF i = 0 THEN << >>
                  ELSE IF objs[i] \in alive THEN Append(h[i - 1], objs[i]) ELSE h[i - 1]]
    <3>1. PICK h : MadeTo(objs, alive, n, h)
      BY <1>0, MadeExist
    <3>2. h = [i \in 0 .. n |->
                  IF i = 0 THEN << >>
                  ELSE IF objs[i] \in alive THEN Append(h[i - 1], objs[i]) ELSE h[i - 1]]
      BY <3>1, Zenon DEF MadeTo, NextMade
    <3> QED
      BY <3>2, Zenon
  <2>2. g = [i \in 0 .. n |->
                  IF i = 0 THEN << >>
                  ELSE IF objs[i] \in alive THEN Append(g[i - 1], objs[i]) ELSE g[i - 1]]
    BY <2>1, Zenon
  <2> QED
    BY <2>2 DEF MadeTo, NextMade
<1>2. OnlyMade(objs) = g[n]
  BY DEF OnlyMade
<1> HIDE DEF g, n
<1>3. \A i \in 0 .. n : g[i] = IF i = 0 THEN << >> ELSE NextMade(objs, alive, i, g[i - 1])
  BY <1>0, <1>1, MadeAt DEF MadeEach
<1> DEFINE Upto(m) == {objs[j] : j \in 1 .. m} \cap alive
<1> HIDE DEF Upto
<1> DEFINE T == {m \in Nat : m \in 0 .. n => Lists(g[m], Upto(m))}
<1>4. 0 \in T
  <2>1. 0 \in 0 .. n /\ Upto(0) = {}
    BY <1>0 DEF Upto
  <2>2. g[0] = << >>
    BY <1>3, <2>1
  <2>3. Lists(<< >>, {})
    BY DEF Lists
  <2> QED
    BY <2>1, <2>2, <2>3
<1>5. \A m \in T : m + 1 \in T
  <2> SUFFICES ASSUME NEW m \in Nat, m \in 0 .. n => Lists(g[m], Upto(m)), m + 1 \in 0 .. n
               PROVE  Lists(g[m + 1], Upto(m + 1))
    OBVIOUS
  <2>1. m \in 0 .. n /\ m + 1 \in 1 .. n /\ (m + 1) - 1 = m /\ m + 1 # 0
    BY <1>0
  <2>2. g[m + 1] = NextMade(objs, alive, m + 1, g[m])
    BY <1>3, <2>1
  <2>3. Lists(g[m], Upto(m))
    BY <2>1
  <2>4. CASE objs[m + 1] \in alive
    <3>1. Upto(m + 1) = Upto(m) \cup {objs[m + 1]}
      BY <2>4 DEF Upto
    <3>2. objs[m + 1] \notin Upto(m)
      <4>1. ASSUME NEW j \in 1 .. m, objs[j] = objs[m + 1] PROVE FALSE
        <5>1. j \in 1 .. n /\ j # m + 1
          BY <1>0, <2>1
        <5> QED
          BY <2>1, <4>1, <5>1 DEF Lists, n
      <4> QED
        BY <4>1 DEF Upto
    <3> QED
      BY <2>2, <2>3, <2>4, <3>1, <3>2, ListsAppend DEF NextMade
  <2>5. CASE objs[m + 1] \notin alive
    <3>1. Upto(m + 1) = Upto(m)
      BY <2>5 DEF Upto
    <3> QED
      BY <2>2, <2>3, <2>5, <3>1 DEF NextMade
  <2> QED
    BY <2>4, <2>5
<1>6. T = Nat
  <2>1. T \in SUBSET Nat
    OBVIOUS
  <2> HIDE DEF T
  <2> QED
    BY <1>4, <1>5, <2>1, NumbersFromZero
<1>7. Lists(g[n], Upto(n))
  BY <1>0, <1>6
<1>8. Upto(n) = A \cap alive
  <2>1. \A o \in A : \E j \in 1 .. n : objs[j] = o
    BY DEF Lists, n
  <2> QED
    BY <1>0, <2>1 DEF Upto
<1> QED
  BY <1>2, <1>7, <1>8

\* Every frame's semaphores and fence, each once.
LEMMA SyncLists == Lists(SyncOrder, SyncKinds \X (1 .. Frames))
<1> DEFINE s == SyncOrder
<1>1. Frames \in Nat
  BY DeviceAssumption
<1>2. ASSUME NEW k \in 1 .. 3 * Frames
      PROVE  /\ 1 + ((k - 1) % 3) \in 1 .. 3 /\ 1 + ((k - 1) \div 3) \in 1 .. Frames
             /\ k = 3 * ((k - 1) \div 3) + ((k - 1) % 3) + 1
  BY <1>1
<1>3. \A i \in 1 .. 3 : SyncParts[i] \in SyncKinds
  BY SyncPartsAre DEF SyncKinds
<1>4. s \in [1 .. 3 * Frames -> SyncKinds \X (1 .. Frames)]
  BY <1>2, <1>3 DEF SyncOrder
<1>5. \A k \in 1 .. 3 * Frames : s[k] = <<SyncParts[1 + ((k - 1) % 3)], 1 + ((k - 1) \div 3)>>
  BY DEF SyncOrder
<1> HIDE DEF s
<1>6. s \in Seq(SyncKinds \X (1 .. Frames)) /\ Len(s) = 3 * Frames
  <2>1. s = [k \in 1 .. 3 * Frames |-> s[k]] /\ 3 * Frames \in Nat
    BY <1>1, <1>4
  <2> QED
    BY <1>4, <2>1
<1>7. ASSUME NEW o \in SyncKinds \X (1 .. Frames) PROVE \E k \in 1 .. Len(s) : s[k] = o
  <2>1. PICK i \in 1 .. 3 : SyncParts[i] = o[1]
    <3>1. o[1] = SyncParts[1] \/ o[1] = SyncParts[2] \/ o[1] = SyncParts[3]
      BY SyncPartsAre DEF SyncKinds
    <3>2. 1 \in 1 .. 3 /\ 2 \in 1 .. 3 /\ 3 \in 1 .. 3
      OBVIOUS
    <3> QED
      BY <3>1, <3>2
  <2>2. PICK f : f = o[2] /\ f \in 1 .. Frames
    OBVIOUS
  <2> DEFINE k == 3 * (f - 1) + i
  <2>3. k \in 1 .. 3 * Frames
    BY <1>1, <2>2
  <2>4. 1 + ((k - 1) % 3) = i /\ 1 + ((k - 1) \div 3) = f
    BY <1>1, <2>2
  <2>5. o = <<SyncParts[i], f>>
    BY <2>1, <2>2
  <2> HIDE DEF k
  <2> QED
    BY <1>5, <1>6, <2>3, <2>4, <2>5
<1>8. ASSUME NEW i \in 1 .. Len(s), NEW j \in 1 .. Len(s), s[i] = s[j] PROVE i = j
  <2>1. i \in 1 .. 3 * Frames /\ j \in 1 .. 3 * Frames
    BY <1>6
  <2>2. PICK a, f, b, g :
          /\ a = 1 + ((i - 1) % 3) /\ f = 1 + ((i - 1) \div 3)
          /\ b = 1 + ((j - 1) % 3) /\ g = 1 + ((j - 1) \div 3)
    OBVIOUS
  <2>3. s[i] = <<SyncParts[a], f>> /\ s[j] = <<SyncParts[b], g>>
    BY <1>5, <2>1, <2>2
  <2>4. SyncParts[a] = SyncParts[b] /\ f = g
    <3>1. <<SyncParts[a], f>> = <<SyncParts[b], g>>
      BY <1>8, <2>3
    <3> QED
      BY <3>1
  <2>5. a \in 1 .. 3 /\ b \in 1 .. 3
    BY <1>2, <2>1, <2>2
  <2>6. a = b
    <3>1. (a = 1 \/ a = 2 \/ a = 3) /\ (b = 1 \/ b = 2 \/ b = 3)
      BY <2>5
    <3>2. SyncParts[1] # SyncParts[2] /\ SyncParts[1] # SyncParts[3] /\ SyncParts[2] # SyncParts[3]
      BY SyncPartsAre
    <3> QED
      BY <2>4, <3>1, <3>2
  <2>7. (i - 1) % 3 = (j - 1) % 3 /\ (i - 1) \div 3 = (j - 1) \div 3
    BY <2>1, <2>2, <2>4, <2>6
  <2> QED
    BY <1>2, <2>1, <2>7
<1>9. Lists(s, SyncKinds \X (1 .. Frames))
  BY <1>6, <1>7, <1>8 DEF Lists
<1> QED
  BY <1>9 DEF s

\* As many as they are.
LEMMA ListsCount ==
  ASSUME NEW s, NEW A, Lists(s, A)
  PROVE  ToSet(s) = A /\ Len(s) = Cardinality(A)
<1>1. /\ Len(s) \in Nat /\ DOMAIN s = 1 .. Len(s) /\ \A i \in 1 .. Len(s) : s[i] \in A
      /\ s \in [1 .. Len(s) -> A]
  <2>1. s \in Seq(A)
    BY DEF Lists
  <2> QED
    BY <2>1, LenProperties, ElementOfSeq
<1>2. ToSet(s) = A
  BY <1>1 DEF ToSet, Lists
<1>3. s \in Bijection(1 .. Len(s), A)
  BY <1>1 DEF Lists, Bijection, Injection, Surjection, IsInjective
<1>4. ExistsBijection(1 .. Len(s), A)
  BY <1>3 DEF ExistsBijection
<1>5. IsFiniteSet(1 .. Len(s)) /\ Cardinality(1 .. Len(s)) = Len(s)
  BY <1>1, FS_Interval
<1> QED
  BY <1>2, <1>4, <1>5, FS_Bijection

\* A single thing.
LEMMA ListsOne ==
  ASSUME NEW a
  PROVE  Lists(<<a>>, {a})
BY DEF Lists

\* Two different things.
LEMMA ListsTwo ==
  ASSUME NEW a, NEW b, a # b
  PROVE  Lists(<<a, b>>, {a, b})
<1>1. <<a, b>> \in Seq({a, b}) /\ Len(<<a, b>>) = 2
  OBVIOUS
<1>2. <<a, b>>[1] = a /\ <<a, b>>[2] = b
  OBVIOUS
<1>3. \A i \in 1 .. 2 : i = 1 \/ i = 2
  OBVIOUS
<1> QED
  BY <1>1, <1>2, <1>3 DEF Lists

\* Three different things.
LEMMA ListsThree ==
  ASSUME NEW a, NEW b, NEW c, a # b, a # c, b # c
  PROVE  Lists(<<a, b, c>>, {a, b, c})
<1>1. <<a, b, c>> \in Seq({a, b, c}) /\ Len(<<a, b, c>>) = 3
  OBVIOUS
<1>2. <<a, b, c>>[1] = a /\ <<a, b, c>>[2] = b /\ <<a, b, c>>[3] = c
  OBVIOUS
<1>3. \A i \in 1 .. 3 : i = 1 \/ i = 2 \/ i = 3
  OBVIOUS
<1> QED
  BY <1>1, <1>2, <1>3 DEF Lists

\* Four different things.
LEMMA ListsFour ==
  ASSUME NEW a, NEW b, NEW c, NEW d, a # b, a # c, a # d, b # c, b # d, c # d
  PROVE  Lists(<<a, b, c, d>>, {a, b, c, d})
<1>1. <<a, b, c, d>> \in Seq({a, b, c, d}) /\ Len(<<a, b, c, d>>) = 4
  OBVIOUS
<1>2. /\ <<a, b, c, d>>[1] = a /\ <<a, b, c, d>>[2] = b
      /\ <<a, b, c, d>>[3] = c /\ <<a, b, c, d>>[4] = d
  OBVIOUS
<1>3. \A i \in 1 .. 4 : i = 1 \/ i = 2 \/ i = 3 \/ i = 4
  OBVIOUS
<1> QED
  BY <1>1, <1>2, <1>3 DEF Lists

\* No object of a sequence comes after one that owns it.
ChildrenFirst(s) ==
  \A i \in 1 .. Len(s) : s[i] \in Owners => \A j \in i .. Len(s) : ~Owns(s[i], s[j])

\* A sequence that destroys some objects, of some kinds.
Drops(s, A, K) == Lists(s, A) /\ ChildrenFirst(s) /\ \A o \in A : o[1] \in K

\* Objects of the first kinds own none of the others.
OwnNone(K, L) ==
  /\ "instance" \notin K /\ "device" \notin K
  /\ ~("surface" \in K /\ "swapchain" \in L)
  /\ ~("swapchain" \in K /\ "view" \in L)
  /\ ~("command pool" \in K /\ "command buffers" \in L)

\* The kinds of the objects that own others.
OwnerKinds == {"instance", "device", "surface", "swapchain", "command pool"}

\* Objects that own nothing may come in any order.
LEMMA DropsOthers ==
  ASSUME NEW s, NEW A, Lists(s, A), NEW K, \A o \in A : o[1] \in K, K \cap OwnerKinds = {}
  PROVE  Drops(s, A, K)
<1>1. \A o \in Owners : o[1] \in OwnerKinds
  BY DEF Owners, OwnerKinds
<1>2. \A i \in 1 .. Len(s) : s[i] \in A
  <2>1. s \in Seq(A)
    BY DEF Lists
  <2> QED
    BY <2>1, ElementOfSeq
<1>3. ChildrenFirst(s)
  BY <1>1, <1>2 DEF ChildrenFirst
<1> QED
  BY <1>3 DEF Drops

\* Two objects, the first of which owns neither and the second not itself.
LEMMA DropsPair ==
  ASSUME NEW a, NEW b, a # b, ~Owns(<<a, 1>>, <<a, 1>>), ~Owns(<<a, 1>>, <<b, 1>>),
         ~Owns(<<b, 1>>, <<b, 1>>)
  PROVE  Drops(EachOf(<<a, b>>, 1), {a, b} \X {1}, {a, b})
<1> DEFINE s == EachOf(<<a, b>>, 1)
<1>1. Lists(s, {a, b} \X {1})
  <2>1. Lists(<<a, b>>, {a, b})
    BY ListsTwo
  <2> QED
    BY <2>1, EachOfLists
<1>2. Len(s) = 2 /\ s[1] = <<a, 1>> /\ s[2] = <<b, 1>>
  BY DEF EachOf
<1> HIDE DEF s
<1>3. ASSUME NEW i \in 1 .. 2, NEW j \in i .. 2 PROVE ~Owns(s[i], s[j])
  <2>1. (i = 1 /\ j = 1) \/ (i = 1 /\ j = 2) \/ (i = 2 /\ j = 2)
    OBVIOUS
  <2> QED
    BY <1>2, <2>1
<1>4. ChildrenFirst(s)
  BY <1>2, <1>3 DEF ChildrenFirst
<1>5. Drops(s, {a, b} \X {1}, {a, b})
  BY <1>1, <1>4 DEF Drops
<1> QED
  BY <1>5 DEF s

\* One sequence after another, when the first one's objects own none of the other's.
LEMMA DropsJoin ==
  ASSUME NEW s, NEW A, NEW K, Drops(s, A, K), NEW t, NEW B, NEW L, Drops(t, B, L),
         K \cap L = {}, OwnNone(K, L)
  PROVE  Drops(s \o t, A \cup B, K \cup L)
<1> DEFINE u == s \o t
           m == Len(s)
           n == Len(t)
<1>1. s \in Seq(A) /\ t \in Seq(B) /\ m \in Nat /\ n \in Nat
  <2>1. s \in Seq(A) /\ t \in Seq(B)
    BY DEF Lists, Drops
  <2> QED
    BY <2>1, LenProperties
<1>2. (\A i \in 1 .. m : s[i] \in A) /\ \A i \in 1 .. n : t[i] \in B
  BY <1>1, ElementOfSeq
<1>3. /\ Len(u) = m + n
      /\ \A i \in 1 .. m + n : u[i] = IF i <= m THEN s[i] ELSE t[i - m]
  <2>1. s \in Seq(A \cup B) /\ t \in Seq(A \cup B)
    BY <1>1
  <2> QED
    BY <2>1, ConcatProperties
<1>4. \A i \in 1 .. m + n : (i <= m /\ u[i] = s[i]) \/ (i - m \in 1 .. n /\ i > m /\ u[i] = t[i - m])
  BY <1>1, <1>3
<1>5. \A o \in A, p \in B : o \in Owners => ~Owns(o, p)
  <2> SUFFICES ASSUME NEW o \in A, NEW p \in B, o \in Owners, Owns(o, p) PROVE FALSE
    OBVIOUS
  <2>1. o[1] \in K /\ p[1] \in L
    BY DEF Drops
  <2>2. \/ o[1] = "instance" \/ o[1] = "device"
        \/ o[1] = "surface" /\ p[1] = "swapchain"
        \/ o[1] = "swapchain" /\ p[1] = "view"
        \/ o[1] = "command pool" /\ p[1] = "command buffers"
    <3>1. /\ <<"instance", 1>>[1] = "instance" /\ <<"device", 1>>[1] = "device"
          /\ <<"surface", 1>>[1] = "surface" /\ <<"swapchain", 1>>[1] = "swapchain"
          /\ <<"command pool", 1>>[1] = "command pool"
          /\ <<"command buffers", 1>>[1] = "command buffers"
      OBVIOUS
    <3> QED
      BY <3>1, Zenon DEF Owns
  <2> QED
    BY <2>1, <2>2 DEF OwnNone
<1>6. A \cap B = {}
  BY DEF Drops
<1>7. Lists(u, A \cup B)
  BY <1>6, ListsJoin DEF Drops
<1>8. /\ \A i \in 1 .. m : s[i] \in Owners => \A j \in i .. m : ~Owns(s[i], s[j])
      /\ \A i \in 1 .. n : t[i] \in Owners => \A j \in i .. n : ~Owns(t[i], t[j])
  BY DEF Drops, ChildrenFirst
<1> HIDE DEF u, m, n
<1>9. ASSUME NEW i \in 1 .. m + n, u[i] \in Owners, NEW j \in i .. m + n
      PROVE  ~Owns(u[i], u[j])
  <2>0. j \in 1 .. m + n /\ i \in Int /\ j \in Int /\ i <= j
    BY <1>1, <1>9
  <2>1. CASE i <= m /\ u[i] = s[i]
    <3>1. i \in 1 .. m
      BY <1>1, <2>1
    <3>2. CASE j <= m /\ u[j] = s[j]
      <4>1. j \in i .. m
        BY <1>1, <2>0, <3>2
      <4> QED
        BY <1>8, <1>9, <2>1, <3>1, <3>2, <4>1
    <3>3. CASE j - m \in 1 .. n /\ u[j] = t[j - m]
      BY <1>2, <1>5, <1>9, <2>1, <3>1, <3>3
    <3> QED
      BY <1>4, <2>0, <3>2, <3>3
  <2>2. CASE i - m \in 1 .. n /\ i > m /\ u[i] = t[i - m]
    <3>1. j - m \in (i - m) .. n /\ j > m
      BY <1>1, <2>0, <2>2
    <3>2. u[j] = t[j - m]
      <4>1. ~(j <= m)
        BY <1>1, <2>0, <3>1
      <4> QED
        BY <1>4, <2>0, <4>1
    <3> QED
      BY <1>8, <1>9, <2>2, <3>1, <3>2
  <2> QED
    BY <1>4, <1>9, <2>1, <2>2
<1>10. ChildrenFirst(u)
  BY <1>3, <1>9 DEF ChildrenFirst
<1>11. \A o \in A \cup B : o[1] \in K \cup L
  BY DEF Drops
<1>12. Drops(u, A \cup B, K \cup L)
  BY <1>7, <1>10, <1>11 DEF Drops
<1> QED
  BY <1>12 DEF u

\* What an open context has for its images and frames.
LEMMA OpenCounts ==
  ASSUME ContextInv, stage = "open"
  PROVE  /\ chosen.images \in Nat
         /\ OfKind("view") = Numbered("view", chosen.images)
         /\ OfKind("framebuffer") = Numbered("framebuffer", chosen.images)
         /\ \A k \in {"depth image", "depth memory", "depth view", "render pass", "command pool",
                      "command buffers"} : OfKind(k) = {<<k, 1>>}
         /\ \A k \in SyncKinds : OfKind(k) = Numbered(k, Frames)
<1>1. PICK n : n = chosen.images /\ n \in Nat
  <2>1. host \in DOMAIN Offers
    BY DEF ContextInv
  <2>2. Here.extra \in Nat
    BY <2>1, DeviceAssumption DEF Here
  <2> QED
    BY <2>2 DEF ContextInv, ImagesInv, SurfaceInv, WithSurface, WithImages
<1>2. \A i \in 1 .. 8 : OfKind(PartsFor(n)[i][1]) = Numbered(PartsFor(n)[i][1], PartsFor(n)[i][2])
  <2>1. \A i \in 1 .. 8 : Counted(Parts[i][1], Parts[i][2])
    BY DEF ContextInv, PartsInv, WithImages
  <2>2. Parts = PartsFor(n)
    BY <1>1, PartsOfTheContext
  <2> QED
    BY <2>1, <2>2 DEF Counted
<1>3. \A k : Numbered(k, 1) = {<<k, 1>>}
  BY DEF Numbered
<1>4. /\ OfKind("view") = Numbered("view", n) /\ OfKind("depth image") = Numbered("depth image", 1)
      /\ OfKind("depth memory") = Numbered("depth memory", 1)
      /\ OfKind("depth view") = Numbered("depth view", 1)
      /\ OfKind("render pass") = Numbered("render pass", 1)
      /\ OfKind("framebuffer") = Numbered("framebuffer", n)
      /\ OfKind("command pool") = Numbered("command pool", 1)
      /\ OfKind("command buffers") = Numbered("command buffers", 1)
  <2>1. /\ PartsFor(n)[1][1] = "view" /\ PartsFor(n)[1][2] = n
        /\ PartsFor(n)[2][1] = "depth image" /\ PartsFor(n)[2][2] = 1
        /\ PartsFor(n)[3][1] = "depth memory" /\ PartsFor(n)[3][2] = 1
        /\ PartsFor(n)[4][1] = "depth view" /\ PartsFor(n)[4][2] = 1
        /\ PartsFor(n)[5][1] = "render pass" /\ PartsFor(n)[5][2] = 1
        /\ PartsFor(n)[6][1] = "framebuffer" /\ PartsFor(n)[6][2] = n
        /\ PartsFor(n)[7][1] = "command pool" /\ PartsFor(n)[7][2] = 1
        /\ PartsFor(n)[8][1] = "command buffers" /\ PartsFor(n)[8][2] = 1
    BY PartsAre
  <2>2. 1 \in 1 .. 8 /\ 2 \in 1 .. 8 /\ 3 \in 1 .. 8 /\ 4 \in 1 .. 8 /\ 5 \in 1 .. 8
        /\ 6 \in 1 .. 8 /\ 7 \in 1 .. 8 /\ 8 \in 1 .. 8
    OBVIOUS
  <2> QED
    BY <1>2, <2>1, <2>2
<1>5. \A k \in SyncKinds : OfKind(k) = Numbered(k, Frames)
  <2>1. \A i \in 1 .. 3 : OfKind(SyncParts[i]) = Numbered(SyncParts[i], Frames)
    BY DEF ContextInv, SyncInv, Counted
  <2>2. 1 \in 1 .. 3 /\ 2 \in 1 .. 3 /\ 3 \in 1 .. 3
    OBVIOUS
  <2> QED
    BY <2>1, <2>2, SyncPartsAre DEF SyncKinds
<1> QED
  BY <1>1, <1>3, <1>4, <1>5

\* The kinds in the order in which Drop destroys them.
TaskSet    == {"task pipeline", "task layout", "task set layout", "task module"}
DepthSet   == {"depth view", "depth image", "depth memory"}
UploadSet  == {"vertex", "index", "constant", "texture memory", "texture image", "texture view",
               "sampler"}
CommandSet == {"command buffers", "command pool"}

\* What an open context between two jobs has made.
LEMMA OpenHolds ==
  ASSUME ContextInv, HeldInv, stage = "open", job = NoJob
  PROVE  alive =
           ((TaskSet \X {1, 2}) \cap alive) \cup (DepthSet \X {1}) \cup (Deferred \cap alive)
             \cup (SyncKinds \X (1 .. Frames)) \cup (CommandSet \X {1})
             \cup Numbered("framebuffer", chosen.images) \cup ({"render pass"} \X {1})
             \cup Numbered("view", chosen.images) \cup ({"swapchain", "surface"} \X {1})
             \cup ({<<"pipeline cache", 1>>} \cap alive) \cup ({"device", "instance"} \X {1})
<1> DEFINE all ==
           ((TaskSet \X {1, 2}) \cap alive) \cup (DepthSet \X {1}) \cup (Deferred \cap alive)
             \cup (SyncKinds \X (1 .. Frames)) \cup (CommandSet \X {1})
             \cup Numbered("framebuffer", chosen.images) \cup ({"render pass"} \X {1})
             \cup Numbered("view", chosen.images) \cup ({"swapchain", "surface"} \X {1})
             \cup ({<<"pipeline cache", 1>>} \cap alive) \cup ({"device", "instance"} \X {1})
<1>1. /\ OfKind("view") = Numbered("view", chosen.images)
      /\ OfKind("framebuffer") = Numbered("framebuffer", chosen.images)
      /\ \A k \in {"depth image", "depth memory", "depth view", "render pass", "command pool",
                   "command buffers"} : OfKind(k) = {<<k, 1>>}
      /\ \A k \in SyncKinds : OfKind(k) = Numbered(k, Frames)
  BY OpenCounts
<1>2. Base = ({"swapchain", "surface"} \X {1}) \cup ({"device", "instance"} \X {1})
  BY DEF Base
<1>3. Base \subseteq alive
  BY DEF HeldInv, BaseInv, Base, WithDevice, WithSurface, WithImages
<1>4. /\ DepthSet \X {1} \subseteq alive /\ CommandSet \X {1} \subseteq alive
      /\ {"render pass"} \X {1} \subseteq alive
  <2>1. \A k \in DepthSet \cup CommandSet \cup {"render pass"} : <<k, 1>> \in alive
    BY <1>1 DEF DepthSet, CommandSet, OfKind
  <2>2. ASSUME NEW K, \A k \in K : <<k, 1>> \in alive PROVE K \X {1} \subseteq alive
    BY <2>2
  <2> QED
    BY <2>1, <2>2
<1>5. SyncKinds \X (1 .. Frames) \subseteq alive
  <2> SUFFICES ASSUME NEW k \in SyncKinds, NEW f \in 1 .. Frames PROVE <<k, f>> \in alive
    OBVIOUS
  <2>1. <<k, f>> \in Numbered(k, Frames)
    BY DEF Numbered
  <2> QED
    BY <1>1, <2>1 DEF OfKind
<1>6. Numbered("framebuffer", chosen.images) \subseteq alive /\ Numbered("view", chosen.images) \subseteq alive
  BY <1>1 DEF OfKind
<1>7. all \subseteq alive
  BY <1>2, <1>3, <1>4, <1>5, <1>6
<1>8. ASSUME NEW o \in alive PROVE o \in all
  <2>1. o \in Base \cup Left \/ o[1] \in PartKinds \/ o[1] \in SyncKinds
    BY DEF HeldInv, KnownInv, JobInv, NoJob
  <2>2. CASE o \in Base
    BY <1>2, <2>2
  <2>3. CASE o \in Left
    BY <1>8, <2>3 DEF Left, TaskSet
  <2>4. CASE o[1] \in SyncKinds
    <3>1. o \in Numbered(o[1], Frames)
      BY <1>1, <1>8, <2>4 DEF OfKind
    <3>2. o \in SyncKinds \X (1 .. Frames)
      BY <2>4, <3>1 DEF Numbered
    <3> QED
      BY <3>2
  <2>5. CASE o[1] \in PartKinds
    <3>1. o \in OfKind(o[1])
      BY <1>8 DEF OfKind
    <3>2. CASE o[1] = "view" \/ o[1] = "framebuffer"
      BY <1>1, <3>1, <3>2
    <3>3. CASE o[1] # "view" /\ o[1] # "framebuffer"
      <4>1. o[1] \in DepthSet \cup CommandSet \cup {"render pass"}
        BY <2>5, <3>3 DEF PartKinds, DepthSet, CommandSet
      <4>2. o = <<o[1], 1>>
        BY <1>1, <3>1, <4>1 DEF DepthSet, CommandSet
      <4>3. PICK k : k = o[1]
        OBVIOUS
      <4>4. o = <<k, 1>> /\ k \in DepthSet \cup CommandSet \cup {"render pass"}
        BY <4>1, <4>2, <4>3
      <4>5. o \in (DepthSet \X {1}) \cup (CommandSet \X {1}) \cup ({"render pass"} \X {1})
        BY <4>4
      <4> QED
        BY <4>5
    <3> QED
      BY <3>2, <3>3
  <2> QED
    BY <2>1, <2>2, <2>3, <2>4, <2>5
<1>9. alive = all
  <2> HIDE DEF all
  <2> QED
    BY <1>7, <1>8
<1> QED
  BY <1>9

\* Drop's order keeps children before their owners, and is the order of all that is there.
LEMMA OpenDrops ==
  ASSUME ContextInv, HeldInv, stage = "open", job = NoJob
  PROVE  Lists(DropOrder, alive) /\ ChildrenFirst(DropOrder)
<1>0. chosen.images \in Nat
  BY OpenCounts
<1>1. Drops(OnlyMade(TaskOrder), (TaskSet \X {1, 2}) \cap alive, TaskSet)
  <2>1. Lists(TaskKinds, TaskSet)
    BY ListsFour DEF TaskKinds, TaskSet
  <2>2. Lists(TaskOrder, (TaskSet \X {1}) \cup (TaskSet \X {2}))
    <3>1. Lists(EachOf(TaskKinds, 1), TaskSet \X {1}) /\ Lists(EachOf(TaskKinds, 2), TaskSet \X {2})
      BY <2>1, EachOfLists
    <3>2. (TaskSet \X {1}) \cap (TaskSet \X {2}) = {}
      OBVIOUS
    <3> QED
      BY <3>1, <3>2, ListsJoin DEF TaskOrder
  <2>3. (TaskSet \X {1}) \cup (TaskSet \X {2}) = TaskSet \X {1, 2}
    OBVIOUS
  <2>4. Lists(OnlyMade(TaskOrder), (TaskSet \X {1, 2}) \cap alive)
    BY <2>2, <2>3, OnlyMadeLists
  <2>5. TaskSet \cap OwnerKinds = {}
    BY DEF TaskSet, OwnerKinds
  <2> QED
    BY <2>4, <2>5, DropsOthers
<1>2. Drops(EachOf(<<"depth view", "depth image", "depth memory">>, 1), DepthSet \X {1}, DepthSet)
  <2>1. Lists(<<"depth view", "depth image", "depth memory">>, DepthSet)
    BY ListsThree DEF DepthSet
  <2>2. DepthSet \cap OwnerKinds = {}
    BY DEF DepthSet, OwnerKinds
  <2> QED
    BY <2>1, <2>2, EachOfLists, DropsOthers
<1>3. Drops(OnlyMade(DeferredOrder), Deferred \cap alive, UploadSet)
  <2> DEFINE buffers == {"vertex", "index", "constant"}
             textures == {"texture memory", "texture image", "texture view", "sampler"}
  <2>1. Lists(<<"vertex", "index", "constant">>, buffers)
    BY ListsThree
  <2>2. Lists(<<"texture memory", "texture image", "texture view", "sampler">>, textures)
    BY ListsFour
  <2>3. buffers \cap textures = {} /\ UploadSet = buffers \cup textures
    BY DEF UploadSet
  <2>4. Deferred = (buffers \X {1}) \cup (buffers \X {2}) \cup (textures \X {1})
    <3>1. \A u \in buffers : UploadOf(u) = {<<u, 1>>, <<u, 2>>}
      BY DEF UploadOf
    <3>2. UploadOf("texture") = textures \X {1}
      BY DEF UploadOf
    <3>3. Uploads = buffers \cup {"texture"}
      BY DEF Uploads
    <3> HIDE DEF buffers, textures
    <3> QED
      BY <3>1, <3>2, <3>3 DEF Deferred
  <2>5. UploadSet \cap OwnerKinds = {}
    BY DEF UploadSet, OwnerKinds
  <2> HIDE DEF buffers, textures
  <2>6. /\ Lists(EachOf(<<"vertex", "index", "constant">>, 1), buffers \X {1})
        /\ Lists(EachOf(<<"vertex", "index", "constant">>, 2), buffers \X {2})
        /\ Lists(EachOf(<<"texture memory", "texture image", "texture view", "sampler">>, 1),
                 textures \X {1})
    BY <2>1, <2>2, EachOfLists
  <2>7. /\ (buffers \X {1}) \cap (buffers \X {2}) = {}
        /\ ((buffers \X {1}) \cup (buffers \X {2})) \cap (textures \X {1}) = {}
    BY <2>3
  <2>8. Lists(DeferredOrder, Deferred)
    BY <2>4, <2>6, <2>7, ListsJoin DEF DeferredOrder
  <2>9. \A o \in Deferred : o[1] \in UploadSet
    BY <2>3, <2>4
  <2> QED
    BY <2>5, <2>8, <2>9, OnlyMadeLists, DropsOthers
<1>4. Drops(SyncOrder, SyncKinds \X (1 .. Frames), SyncKinds)
  <2>1. SyncKinds \cap OwnerKinds = {}
    BY DEF SyncKinds, OwnerKinds
  <2> QED
    BY <2>1, SyncLists, DropsOthers
<1>5. Drops(EachOf(<<"command buffers", "command pool">>, 1), CommandSet \X {1}, CommandSet)
  <2>1. /\ ~Owns(<<"command buffers", 1>>, <<"command buffers", 1>>)
        /\ ~Owns(<<"command buffers", 1>>, <<"command pool", 1>>)
        /\ ~Owns(<<"command pool", 1>>, <<"command pool", 1>>)
    BY DEF Owns
  <2> QED
    BY <2>1, DropsPair DEF CommandSet
<1>6. Drops(Numbers("framebuffer", chosen.images), Numbered("framebuffer", chosen.images), {"framebuffer"})
  <2>1. {"framebuffer"} \cap OwnerKinds = {}
    BY DEF OwnerKinds
  <2>2. \A o \in Numbered("framebuffer", chosen.images) : o[1] \in {"framebuffer"}
    BY DEF Numbered
  <2> QED
    BY <1>0, <2>1, <2>2, NumbersLists, DropsOthers
<1>7. Drops(EachOf(<<"render pass">>, 1), {"render pass"} \X {1}, {"render pass"})
  <2>1. {"render pass"} \cap OwnerKinds = {}
    BY DEF OwnerKinds
  <2> QED
    BY <2>1, ListsOne, EachOfLists, DropsOthers
<1>8. Drops(Numbers("view", chosen.images), Numbered("view", chosen.images), {"view"})
  <2>1. {"view"} \cap OwnerKinds = {}
    BY DEF OwnerKinds
  <2>2. \A o \in Numbered("view", chosen.images) : o[1] \in {"view"}
    BY DEF Numbered
  <2> QED
    BY <1>0, <2>1, <2>2, NumbersLists, DropsOthers
<1>9. Drops(EachOf(<<"swapchain", "surface">>, 1), {"swapchain", "surface"} \X {1},
            {"swapchain", "surface"})
  <2>1. /\ ~Owns(<<"swapchain", 1>>, <<"swapchain", 1>>) /\ ~Owns(<<"swapchain", 1>>, <<"surface", 1>>)
        /\ ~Owns(<<"surface", 1>>, <<"surface", 1>>)
    BY DEF Owns
  <2> QED
    BY <2>1, DropsPair
<1>10. Drops(OnlyMade(<< <<"pipeline cache", 1>> >>), {<<"pipeline cache", 1>>} \cap alive,
             {"pipeline cache"})
  <2>1. {"pipeline cache"} \cap OwnerKinds = {}
    BY DEF OwnerKinds
  <2>2. Lists(OnlyMade(<< <<"pipeline cache", 1>> >>), {<<"pipeline cache", 1>>} \cap alive)
    BY ListsOne, OnlyMadeLists
  <2>3. \A o \in {<<"pipeline cache", 1>>} \cap alive : o[1] \in {"pipeline cache"}
    <3>1. <<"pipeline cache", 1>>[1] = "pipeline cache"
      OBVIOUS
    <3> QED
      BY <3>1
  <2> QED
    BY <2>1, <2>2, <2>3, DropsOthers
<1>11. Drops(EachOf(<<"device", "instance">>, 1), {"device", "instance"} \X {1},
             {"device", "instance"})
  <2>1. /\ ~Owns(<<"device", 1>>, <<"device", 1>>) /\ ~Owns(<<"device", 1>>, <<"instance", 1>>)
        /\ ~Owns(<<"instance", 1>>, <<"instance", 1>>)
    BY DEF Owns
  <2> QED
    BY <2>1, DropsPair
<1> DEFINE s1 == OnlyMade(TaskOrder)
           s2 == EachOf(<<"depth view", "depth image", "depth memory">>, 1)
           s3 == OnlyMade(DeferredOrder)
           s4 == SyncOrder
           s5 == EachOf(<<"command buffers", "command pool">>, 1)
           s6 == Numbers("framebuffer", chosen.images)
           s7 == EachOf(<<"render pass">>, 1)
           s8 == Numbers("view", chosen.images)
           s9 == EachOf(<<"swapchain", "surface">>, 1)
           s10 == OnlyMade(<< <<"pipeline cache", 1>> >>)
           s11 == EachOf(<<"device", "instance">>, 1)
           A1 == (TaskSet \X {1, 2}) \cap alive
           A2 == DepthSet \X {1}
           A3 == Deferred \cap alive
           A4 == SyncKinds \X (1 .. Frames)
           A5 == CommandSet \X {1}
           A6 == Numbered("framebuffer", chosen.images)
           A7 == {"render pass"} \X {1}
           A8 == Numbered("view", chosen.images)
           A9 == {"swapchain", "surface"} \X {1}
           A10 == {<<"pipeline cache", 1>>} \cap alive
           A11 == {"device", "instance"} \X {1}
           K1 == TaskSet
           K2 == K1 \cup DepthSet
           K3 == K2 \cup UploadSet
           K4 == K3 \cup SyncKinds
           K5 == K4 \cup CommandSet
           K6 == K5 \cup {"framebuffer"}
           K7 == K6 \cup {"render pass"}
           K8 == K7 \cup {"view"}
           K9 == K8 \cup {"swapchain", "surface"}
           K10 == K9 \cup {"pipeline cache"}
<1>12. /\ Drops(s1, A1, TaskSet)
       /\ Drops(s2, A2, DepthSet)
       /\ Drops(s3, A3, UploadSet)
       /\ Drops(s4, A4, SyncKinds)
       /\ Drops(s5, A5, CommandSet)
       /\ Drops(s6, A6, {"framebuffer"})
       /\ Drops(s7, A7, {"render pass"})
       /\ Drops(s8, A8, {"view"})
       /\ Drops(s9, A9, {"swapchain", "surface"})
       /\ Drops(s10, A10, {"pipeline cache"})
       /\ Drops(s11, A11, {"device", "instance"})
  BY <1>1, <1>2, <1>3, <1>4, <1>5, <1>6, <1>7, <1>8, <1>9, <1>10, <1>11
<1>13. DropOrder = s1 \o s2 \o s3 \o s4 \o s5 \o s6 \o s7 \o s8 \o s9 \o s10 \o s11
  BY DEF DropOrder
<1>14. alive = A1 \cup A2 \cup A3 \cup A4 \cup A5 \cup A6 \cup A7 \cup A8 \cup A9 \cup A10 \cup A11
  BY OpenHolds, Zenon
<1>15. /\ K1 \cap DepthSet = {} /\ OwnNone(K1, DepthSet)
       /\ K2 \cap UploadSet = {} /\ OwnNone(K2, UploadSet)
       /\ K3 \cap SyncKinds = {} /\ OwnNone(K3, SyncKinds)
       /\ K4 \cap CommandSet = {} /\ OwnNone(K4, CommandSet)
       /\ K5 \cap {"framebuffer"} = {} /\ OwnNone(K5, {"framebuffer"})
       /\ K6 \cap {"render pass"} = {} /\ OwnNone(K6, {"render pass"})
       /\ K7 \cap {"view"} = {} /\ OwnNone(K7, {"view"})
       /\ K8 \cap {"swapchain", "surface"} = {} /\ OwnNone(K8, {"swapchain", "surface"})
       /\ K9 \cap {"pipeline cache"} = {} /\ OwnNone(K9, {"pipeline cache"})
       /\ K10 \cap {"device", "instance"} = {} /\ OwnNone(K10, {"device", "instance"})
  <2>1. K1 \cap DepthSet = {} /\ OwnNone(K1, DepthSet)
    BY DEF TaskSet, DepthSet, UploadSet, SyncKinds, CommandSet, OwnNone
  <2>2. K2 \cap UploadSet = {} /\ OwnNone(K2, UploadSet)
    BY DEF TaskSet, DepthSet, UploadSet, SyncKinds, CommandSet, OwnNone
  <2>3. K3 \cap SyncKinds = {} /\ OwnNone(K3, SyncKinds)
    BY DEF TaskSet, DepthSet, UploadSet, SyncKinds, CommandSet, OwnNone
  <2>4. K4 \cap CommandSet = {} /\ OwnNone(K4, CommandSet)
    BY DEF TaskSet, DepthSet, UploadSet, SyncKinds, CommandSet, OwnNone
  <2>5. K5 \cap {"framebuffer"} = {} /\ OwnNone(K5, {"framebuffer"})
    BY DEF TaskSet, DepthSet, UploadSet, SyncKinds, CommandSet, OwnNone
  <2>6. K6 \cap {"render pass"} = {} /\ OwnNone(K6, {"render pass"})
    BY DEF TaskSet, DepthSet, UploadSet, SyncKinds, CommandSet, OwnNone
  <2>7. K7 \cap {"view"} = {} /\ OwnNone(K7, {"view"})
    BY DEF TaskSet, DepthSet, UploadSet, SyncKinds, CommandSet, OwnNone
  <2>8. K8 \cap {"swapchain", "surface"} = {} /\ OwnNone(K8, {"swapchain", "surface"})
    BY DEF TaskSet, DepthSet, UploadSet, SyncKinds, CommandSet, OwnNone
  <2>9. K9 \cap {"pipeline cache"} = {} /\ OwnNone(K9, {"pipeline cache"})
    BY DEF TaskSet, DepthSet, UploadSet, SyncKinds, CommandSet, OwnNone
  <2>10. K10 \cap {"device", "instance"} = {} /\ OwnNone(K10, {"device", "instance"})
    BY DEF TaskSet, DepthSet, UploadSet, SyncKinds, CommandSet, OwnNone
  <2> QED
    BY <2>1, <2>2, <2>3, <2>4, <2>5, <2>6, <2>7, <2>8, <2>9, <2>10
<1> HIDE DEF s1, s2, s3, s4, s5, s6, s7, s8, s9, s10, s11, A1, A2, A3, A4, A5, A6, A7, A8, A9, A10, A11
<1>16. Drops(s1 \o s2,
             A1 \cup A2, K2)
  <2> HIDE DEF K1
  <2>1. Drops(s2, A2, DepthSet)
    BY <1>12
  <2> QED
    BY <1>12, <1>15, <2>1, DropsJoin DEF K1
<1>17. Drops(s1 \o s2 \o s3,
             A1 \cup A2 \cup A3, K3)
  <2> HIDE DEF K2
  <2>1. Drops(s3, A3, UploadSet)
    BY <1>12
  <2> QED
    BY <1>16, <1>15, <2>1, DropsJoin
<1>18. Drops(s1 \o s2 \o s3 \o s4,
             A1 \cup A2 \cup A3 \cup A4, K4)
  <2> HIDE DEF K3
  <2>1. Drops(s4, A4, SyncKinds)
    BY <1>12
  <2> QED
    BY <1>17, <1>15, <2>1, DropsJoin
<1>19. Drops(s1 \o s2 \o s3 \o s4 \o s5,
             A1 \cup A2 \cup A3 \cup A4 \cup A5, K5)
  <2> HIDE DEF K4
  <2>1. Drops(s5, A5, CommandSet)
    BY <1>12
  <2> QED
    BY <1>18, <1>15, <2>1, DropsJoin
<1>20. Drops(s1 \o s2 \o s3 \o s4 \o s5 \o s6,
             A1 \cup A2 \cup A3 \cup A4 \cup A5 \cup A6, K6)
  <2> HIDE DEF K5
  <2>1. Drops(s6, A6, {"framebuffer"})
    BY <1>12
  <2> QED
    BY <1>19, <1>15, <2>1, DropsJoin
<1>21. Drops(s1 \o s2 \o s3 \o s4 \o s5 \o s6 \o s7,
             A1 \cup A2 \cup A3 \cup A4 \cup A5 \cup A6 \cup A7, K7)
  <2> HIDE DEF K6
  <2>1. Drops(s7, A7, {"render pass"})
    BY <1>12
  <2> QED
    BY <1>20, <1>15, <2>1, DropsJoin
<1>22. Drops(s1 \o s2 \o s3 \o s4 \o s5 \o s6 \o s7 \o s8,
             A1 \cup A2 \cup A3 \cup A4 \cup A5 \cup A6 \cup A7 \cup A8, K8)
  <2> HIDE DEF K7
  <2>1. Drops(s8, A8, {"view"})
    BY <1>12
  <2> QED
    BY <1>21, <1>15, <2>1, DropsJoin
<1>23. Drops(s1 \o s2 \o s3 \o s4 \o s5 \o s6 \o s7 \o s8 \o s9,
             A1 \cup A2 \cup A3 \cup A4 \cup A5 \cup A6 \cup A7 \cup A8 \cup A9, K9)
  <2> HIDE DEF K8
  <2>1. Drops(s9, A9, {"swapchain", "surface"})
    BY <1>12
  <2> QED
    BY <1>22, <1>15, <2>1, DropsJoin
<1>24. Drops(s1 \o s2 \o s3 \o s4 \o s5 \o s6 \o s7 \o s8 \o s9 \o s10,
             A1 \cup A2 \cup A3 \cup A4 \cup A5 \cup A6 \cup A7 \cup A8 \cup A9 \cup A10, K10)
  <2> HIDE DEF K9
  <2>1. Drops(s10, A10, {"pipeline cache"})
    BY <1>12
  <2> QED
    BY <1>23, <1>15, <2>1, DropsJoin
<1>25. Drops(s1 \o s2 \o s3 \o s4 \o s5 \o s6 \o s7 \o s8 \o s9 \o s10 \o s11,
             A1 \cup A2 \cup A3 \cup A4 \cup A5 \cup A6 \cup A7 \cup A8 \cup A9 \cup A10 \cup A11,
             K10 \cup {"device", "instance"})
  <2> HIDE DEF K10
  <2>1. Drops(s11, A11, {"device", "instance"})
    BY <1>12
  <2> QED
    BY <1>24, <1>15, <2>1, DropsJoin
<1> QED
  BY <1>13, <1>14, <1>25 DEF Drops

\* An open context between two jobs is dropped as it should be.
LEMMA HeldReleases == ContextInv /\ HeldInv => DropReleasesAll
<1> SUFFICES ASSUME ContextInv, HeldInv, stage = "open", job = NoJob PROVE DropReleasesAll
  BY DEF DropReleasesAll
<1>1. Lists(DropOrder, alive) /\ ChildrenFirst(DropOrder)
  BY OpenDrops
<1>2. ToSet(DropOrder) = alive /\ Len(DropOrder) = Cardinality(alive)
  BY <1>1, ListsCount
<1> QED
  BY <1>1, <1>2 DEF DropReleasesAll, ChildrenFirst

\* Whatever the host offers, whichever calls of the driver fail and whatever draws and
\* jobs have left behind, VulkanContext's Drop would destroy everything that is alive
\* between two jobs, each object once and children before their owners
\* (src/src/graphics.rs).
THEOREM DropAlwaysReleases == GraphicsSpec => []DropReleasesAll
<1>1. GraphicsInit => ContextInv /\ HeldInv
  BY ContextInvInit, HeldInit
<1>2. ContextInv /\ HeldInv /\ [GraphicsNext]_graphicsVars => (ContextInv /\ HeldInv)'
  BY ContextInvNext, HeldNext
<1> QED
  BY <1>1, <1>2, HeldReleases, PTL DEF GraphicsSpec

(***************************************************************************)
(* The frame loop, for any number of frame slots, threads, resources and   *)
(* draws, and for every call that may fail.                                *)
(***************************************************************************)

\* VULKAN_CONTEXT is held by exactly the thread that is using the device.
ContextLockInv ==
  /\ ctx = Main <=> main # "idle"
  /\ \A t \in Users : ctx = t <=> thread[t] # "idle"

\* A submission the device has not finished keeps its fence unsignalled, and a
\* frame in preparation has reset its own.
FenceInv ==
  /\ \A s \in frames : ~fence[s]
  /\ main \in {"acquire", "record", "submit"} => ~fence[current]
  /\ \A t \in computing : thread[t] = "waitFence"

\* The lists and the threads' own resources are disjoint parts of what exists.
OwnerInv ==
  /\ \A s \in Slots : deferred[s] \subseteq live
  /\ \A s, u \in Slots : s # u => deferred[s] \cap deferred[u] = {}
  /\ \A s \in Slots, t \in Users : deferred[s] \cap own[t] = {}
  /\ \A t \in Users : own[t] \subseteq live
  /\ \A t \in Users : thread[t] = "idle" => own[t] = {}

\* What a submitted or recorded frame uses is on the list of its slot.
ListedInv ==
  /\ \A s \in frames : recorded[s] \subseteq deferred[s]
  /\ main = "submit" => recorded[current] \subseteq deferred[current]

FrameIInv ==
  /\ FrameTypeOK /\ ContextLockInv /\ FenceInv /\ SlotIsFree /\ OwnerInv /\ ListedInv
  /\ NothingLeaks /\ UnsignalledIsExplained

\* The context changes hands only through Free.
LEMMA ContextLockStep ==
  ASSUME FrameTypeOK, ContextLockInv, [FrameNext]_frameVars
  PROVE  ContextLockInv'
<1>1. CASE BeginFrame
  BY HolderAssumption, <1>1 DEF BeginFrame, FrameTypeOK, ContextLockInv, slotVars, submissionVars, userVars, drawVars
<1>2. CASE ReuseSlot
  BY HolderAssumption, <1>2 DEF ReuseSlot, FrameTypeOK, ContextLockInv, slotVars, submissionVars, userVars, drawVars
<1>3. CASE AcquireImage
  BY HolderAssumption, <1>3 DEF AcquireImage, FrameTypeOK, ContextLockInv, slotVars, submissionVars, userVars, drawVars
<1>4. CASE AcquireFails
  BY HolderAssumption, <1>4 DEF AcquireFails, FrameTypeOK, ContextLockInv, slotVars, submissionVars, userVars, drawVars
<1>5. CASE Record
  BY HolderAssumption, <1>5 DEF Record, FrameTypeOK, ContextLockInv, slotVars, submissionVars, userVars, drawVars
<1>6. CASE Submit
  BY HolderAssumption, <1>6 DEF Submit, FrameTypeOK, ContextLockInv, slotVars, submissionVars, userVars, drawVars
<1>7. CASE Present
  BY HolderAssumption, <1>7 DEF Present, FrameTypeOK, ContextLockInv, slotVars, submissionVars, userVars, drawVars
<1>8. ASSUME NEW t \in Users, QueueDraw(t) PROVE ContextLockInv'
  BY HolderAssumption, <1>8 DEF QueueDraw, FrameTypeOK, ContextLockInv, slotVars, submissionVars, userVars, drawVars
<1>9. ASSUME NEW t \in Users, BeginCompute(t) PROVE ContextLockInv'
  BY HolderAssumption, <1>9 DEF BeginCompute, FrameTypeOK, ContextLockInv, slotVars, submissionVars, userVars, drawVars
<1>10. ASSUME NEW t \in Users, SubmitCompute(t) PROVE ContextLockInv'
  BY HolderAssumption, <1>10 DEF SubmitCompute, FrameTypeOK, ContextLockInv, slotVars, submissionVars, userVars, drawVars
<1>11. ASSUME NEW t \in Users, EndCompute(t) PROVE ContextLockInv'
  BY HolderAssumption, <1>11 DEF EndCompute, FrameTypeOK, ContextLockInv, slotVars, submissionVars, userVars, drawVars
<1>12. ASSUME NEW s \in Slots, FinishFrame(s) PROVE ContextLockInv'
  BY HolderAssumption, <1>12 DEF FinishFrame, FrameTypeOK, ContextLockInv, slotVars, submissionVars, userVars, drawVars
<1>13. ASSUME NEW t \in Users, FinishWork(t) PROVE ContextLockInv'
  BY HolderAssumption, <1>13 DEF FinishWork, FrameTypeOK, ContextLockInv, slotVars, submissionVars, userVars, drawVars
<1>14. CASE UNCHANGED frameVars
  BY HolderAssumption, <1>14 DEF frameVars, FrameTypeOK, ContextLockInv, slotVars, submissionVars, userVars, drawVars
<1> QED
  BY <1>1, <1>2, <1>3, <1>4, <1>5, <1>6, <1>7, <1>8, <1>9, <1>10, <1>11, <1>12, <1>13, <1>14 DEF FrameNext, RestOfFrame, Compute, Device

\* Fences and unfinished submissions.
LEMMA FenceStep ==
  ASSUME FrameTypeOK, ContextLockInv, FenceInv, SlotIsFree, [FrameNext]_frameVars
  PROVE  FenceInv'
<1>1. CASE BeginFrame
  BY HolderAssumption, <1>1 DEF BeginFrame, FrameTypeOK, ContextLockInv, FenceInv, SlotIsFree, slotVars, submissionVars, userVars, drawVars
<1>2. CASE ReuseSlot
  BY HolderAssumption, <1>2 DEF ReuseSlot, FrameTypeOK, ContextLockInv, FenceInv, SlotIsFree, slotVars, submissionVars, userVars, drawVars
<1>3. CASE AcquireImage
  BY HolderAssumption, <1>3 DEF AcquireImage, FrameTypeOK, ContextLockInv, FenceInv, SlotIsFree, slotVars, submissionVars, userVars, drawVars
<1>4. CASE AcquireFails
  BY HolderAssumption, <1>4 DEF AcquireFails, FrameTypeOK, ContextLockInv, FenceInv, SlotIsFree, slotVars, submissionVars, userVars, drawVars
<1>5. CASE Record
  BY HolderAssumption, <1>5 DEF Record, FrameTypeOK, ContextLockInv, FenceInv, SlotIsFree, slotVars, submissionVars, userVars, drawVars
<1>6. CASE Submit
  BY HolderAssumption, <1>6 DEF Submit, FrameTypeOK, ContextLockInv, FenceInv, SlotIsFree, slotVars, submissionVars, userVars, drawVars
<1>7. CASE Present
  BY HolderAssumption, <1>7 DEF Present, FrameTypeOK, ContextLockInv, FenceInv, SlotIsFree, slotVars, submissionVars, userVars, drawVars
<1>8. ASSUME NEW t \in Users, QueueDraw(t) PROVE FenceInv'
  BY HolderAssumption, <1>8 DEF QueueDraw, FrameTypeOK, ContextLockInv, FenceInv, SlotIsFree, slotVars, submissionVars, userVars, drawVars
<1>9. ASSUME NEW t \in Users, BeginCompute(t) PROVE FenceInv'
  BY HolderAssumption, <1>9 DEF BeginCompute, FrameTypeOK, ContextLockInv, FenceInv, SlotIsFree, slotVars, submissionVars, userVars, drawVars
<1>10. ASSUME NEW t \in Users, SubmitCompute(t) PROVE FenceInv'
  BY HolderAssumption, <1>10 DEF SubmitCompute, FrameTypeOK, ContextLockInv, FenceInv, SlotIsFree, slotVars, submissionVars, userVars, drawVars
<1>11. ASSUME NEW t \in Users, EndCompute(t) PROVE FenceInv'
  BY HolderAssumption, <1>11 DEF EndCompute, FrameTypeOK, ContextLockInv, FenceInv, SlotIsFree, slotVars, submissionVars, userVars, drawVars
<1>12. ASSUME NEW s \in Slots, FinishFrame(s) PROVE FenceInv'
  BY HolderAssumption, <1>12 DEF FinishFrame, FrameTypeOK, ContextLockInv, FenceInv, SlotIsFree, slotVars, submissionVars, userVars, drawVars
<1>13. ASSUME NEW t \in Users, FinishWork(t) PROVE FenceInv'
  BY HolderAssumption, <1>13 DEF FinishWork, FrameTypeOK, ContextLockInv, FenceInv, SlotIsFree, slotVars, submissionVars, userVars, drawVars
<1>14. CASE UNCHANGED frameVars
  BY HolderAssumption, <1>14 DEF frameVars, FrameTypeOK, ContextLockInv, FenceInv, SlotIsFree, slotVars, submissionVars, userVars, drawVars
<1> QED
  BY <1>1, <1>2, <1>3, <1>4, <1>5, <1>6, <1>7, <1>8, <1>9, <1>10, <1>11, <1>12, <1>13, <1>14 DEF FrameNext, RestOfFrame, Compute, Device

\* A slot is reused behind its fence.
LEMMA SlotStep ==
  ASSUME FrameTypeOK, FenceInv, SlotIsFree, [FrameNext]_frameVars
  PROVE  SlotIsFree'
<1>1. CASE BeginFrame
  BY <1>1 DEF BeginFrame, FrameTypeOK, FenceInv, SlotIsFree, slotVars, submissionVars, userVars, drawVars
<1>2. CASE ReuseSlot
  BY <1>2 DEF ReuseSlot, FrameTypeOK, FenceInv, SlotIsFree, slotVars, submissionVars, userVars, drawVars
<1>3. CASE AcquireImage
  BY <1>3 DEF AcquireImage, FrameTypeOK, FenceInv, SlotIsFree, slotVars, submissionVars, userVars, drawVars
<1>4. CASE AcquireFails
  BY <1>4 DEF AcquireFails, FrameTypeOK, FenceInv, SlotIsFree, slotVars, submissionVars, userVars, drawVars
<1>5. CASE Record
  BY <1>5 DEF Record, FrameTypeOK, FenceInv, SlotIsFree, slotVars, submissionVars, userVars, drawVars
<1>6. CASE Submit
  BY <1>6 DEF Submit, FrameTypeOK, FenceInv, SlotIsFree, slotVars, submissionVars, userVars, drawVars
<1>7. CASE Present
  BY <1>7 DEF Present, FrameTypeOK, FenceInv, SlotIsFree, slotVars, submissionVars, userVars, drawVars
<1>8. ASSUME NEW t \in Users, QueueDraw(t) PROVE SlotIsFree'
  BY <1>8 DEF QueueDraw, FrameTypeOK, FenceInv, SlotIsFree, slotVars, submissionVars, userVars, drawVars
<1>9. ASSUME NEW t \in Users, BeginCompute(t) PROVE SlotIsFree'
  BY <1>9 DEF BeginCompute, FrameTypeOK, FenceInv, SlotIsFree, slotVars, submissionVars, userVars, drawVars
<1>10. ASSUME NEW t \in Users, SubmitCompute(t) PROVE SlotIsFree'
  BY <1>10 DEF SubmitCompute, FrameTypeOK, FenceInv, SlotIsFree, slotVars, submissionVars, userVars, drawVars
<1>11. ASSUME NEW t \in Users, EndCompute(t) PROVE SlotIsFree'
  BY <1>11 DEF EndCompute, FrameTypeOK, FenceInv, SlotIsFree, slotVars, submissionVars, userVars, drawVars
<1>12. ASSUME NEW s \in Slots, FinishFrame(s) PROVE SlotIsFree'
  BY <1>12 DEF FinishFrame, FrameTypeOK, FenceInv, SlotIsFree, slotVars, submissionVars, userVars, drawVars
<1>13. ASSUME NEW t \in Users, FinishWork(t) PROVE SlotIsFree'
  BY <1>13 DEF FinishWork, FrameTypeOK, FenceInv, SlotIsFree, slotVars, submissionVars, userVars, drawVars
<1>14. CASE UNCHANGED frameVars
  BY <1>14 DEF frameVars, FrameTypeOK, FenceInv, SlotIsFree, slotVars, submissionVars, userVars, drawVars
<1> QED
  BY <1>1, <1>2, <1>3, <1>4, <1>5, <1>6, <1>7, <1>8, <1>9, <1>10, <1>11, <1>12, <1>13, <1>14 DEF FrameNext, RestOfFrame, Compute, Device

\* Each resource has one owner.
LEMMA OwnerStep ==
  ASSUME FrameTypeOK, ContextLockInv, OwnerInv, [FrameNext]_frameVars
  PROVE  OwnerInv'
<1>1. CASE BeginFrame
  BY HolderAssumption, <1>1 DEF BeginFrame, FrameTypeOK, ContextLockInv, OwnerInv, slotVars, submissionVars, userVars, drawVars
<1>2. CASE ReuseSlot
  BY HolderAssumption, <1>2 DEF ReuseSlot, FrameTypeOK, ContextLockInv, OwnerInv, slotVars, submissionVars, userVars, drawVars
<1>3. CASE AcquireImage
  BY HolderAssumption, <1>3 DEF AcquireImage, FrameTypeOK, ContextLockInv, OwnerInv, slotVars, submissionVars, userVars, drawVars
<1>4. CASE AcquireFails
  BY HolderAssumption, <1>4 DEF AcquireFails, FrameTypeOK, ContextLockInv, OwnerInv, slotVars, submissionVars, userVars, drawVars
<1>5. CASE Record
  BY HolderAssumption, <1>5 DEF Record, FrameTypeOK, ContextLockInv, OwnerInv, slotVars, submissionVars, userVars, drawVars
<1>6. CASE Submit
  BY HolderAssumption, <1>6 DEF Submit, FrameTypeOK, ContextLockInv, OwnerInv, slotVars, submissionVars, userVars, drawVars
<1>7. CASE Present
  BY HolderAssumption, <1>7 DEF Present, FrameTypeOK, ContextLockInv, OwnerInv, slotVars, submissionVars, userVars, drawVars
<1>8. ASSUME NEW t \in Users, QueueDraw(t) PROVE OwnerInv'
  BY HolderAssumption, <1>8 DEF QueueDraw, FrameTypeOK, ContextLockInv, OwnerInv, slotVars, submissionVars, userVars, drawVars
<1>9. ASSUME NEW t \in Users, BeginCompute(t) PROVE OwnerInv'
  BY HolderAssumption, <1>9 DEF BeginCompute, FrameTypeOK, ContextLockInv, OwnerInv, slotVars, submissionVars, userVars, drawVars
<1>10. ASSUME NEW t \in Users, SubmitCompute(t) PROVE OwnerInv'
  BY HolderAssumption, <1>10 DEF SubmitCompute, FrameTypeOK, ContextLockInv, OwnerInv, slotVars, submissionVars, userVars, drawVars
<1>11. ASSUME NEW t \in Users, EndCompute(t) PROVE OwnerInv'
  BY HolderAssumption, <1>11 DEF EndCompute, FrameTypeOK, ContextLockInv, OwnerInv, slotVars, submissionVars, userVars, drawVars
<1>12. ASSUME NEW s \in Slots, FinishFrame(s) PROVE OwnerInv'
  BY HolderAssumption, <1>12 DEF FinishFrame, FrameTypeOK, ContextLockInv, OwnerInv, slotVars, submissionVars, userVars, drawVars
<1>13. ASSUME NEW t \in Users, FinishWork(t) PROVE OwnerInv'
  BY HolderAssumption, <1>13 DEF FinishWork, FrameTypeOK, ContextLockInv, OwnerInv, slotVars, submissionVars, userVars, drawVars
<1>14. CASE UNCHANGED frameVars
  BY HolderAssumption, <1>14 DEF frameVars, FrameTypeOK, ContextLockInv, OwnerInv, slotVars, submissionVars, userVars, drawVars
<1> QED
  BY <1>1, <1>2, <1>3, <1>4, <1>5, <1>6, <1>7, <1>8, <1>9, <1>10, <1>11, <1>12, <1>13, <1>14 DEF FrameNext, RestOfFrame, Compute, Device

\* Submitted resources stay listed.
LEMMA ListedStep ==
  ASSUME FrameTypeOK, ContextLockInv, FenceInv, SlotIsFree, ListedInv, [FrameNext]_frameVars
  PROVE  ListedInv'
<1>1. CASE BeginFrame
  BY HolderAssumption, <1>1 DEF BeginFrame, FrameTypeOK, ContextLockInv, FenceInv, SlotIsFree, ListedInv, slotVars, submissionVars, userVars, drawVars
<1>2. CASE ReuseSlot
  BY HolderAssumption, <1>2 DEF ReuseSlot, FrameTypeOK, ContextLockInv, FenceInv, SlotIsFree, ListedInv, slotVars, submissionVars, userVars, drawVars
<1>3. CASE AcquireImage
  BY HolderAssumption, <1>3 DEF AcquireImage, FrameTypeOK, ContextLockInv, FenceInv, SlotIsFree, ListedInv, slotVars, submissionVars, userVars, drawVars
<1>4. CASE AcquireFails
  BY HolderAssumption, <1>4 DEF AcquireFails, FrameTypeOK, ContextLockInv, FenceInv, SlotIsFree, ListedInv, slotVars, submissionVars, userVars, drawVars
<1>5. CASE Record
  BY HolderAssumption, <1>5 DEF Record, FrameTypeOK, ContextLockInv, FenceInv, SlotIsFree, ListedInv, slotVars, submissionVars, userVars, drawVars
<1>6. CASE Submit
  BY HolderAssumption, <1>6 DEF Submit, FrameTypeOK, ContextLockInv, FenceInv, SlotIsFree, ListedInv, slotVars, submissionVars, userVars, drawVars
<1>7. CASE Present
  BY HolderAssumption, <1>7 DEF Present, FrameTypeOK, ContextLockInv, FenceInv, SlotIsFree, ListedInv, slotVars, submissionVars, userVars, drawVars
<1>8. ASSUME NEW t \in Users, QueueDraw(t) PROVE ListedInv'
  BY HolderAssumption, <1>8 DEF QueueDraw, FrameTypeOK, ContextLockInv, FenceInv, SlotIsFree, ListedInv, slotVars, submissionVars, userVars, drawVars
<1>9. ASSUME NEW t \in Users, BeginCompute(t) PROVE ListedInv'
  BY HolderAssumption, <1>9 DEF BeginCompute, FrameTypeOK, ContextLockInv, FenceInv, SlotIsFree, ListedInv, slotVars, submissionVars, userVars, drawVars
<1>10. ASSUME NEW t \in Users, SubmitCompute(t) PROVE ListedInv'
  BY HolderAssumption, <1>10 DEF SubmitCompute, FrameTypeOK, ContextLockInv, FenceInv, SlotIsFree, ListedInv, slotVars, submissionVars, userVars, drawVars
<1>11. ASSUME NEW t \in Users, EndCompute(t) PROVE ListedInv'
  BY HolderAssumption, <1>11 DEF EndCompute, FrameTypeOK, ContextLockInv, FenceInv, SlotIsFree, ListedInv, slotVars, submissionVars, userVars, drawVars
<1>12. ASSUME NEW s \in Slots, FinishFrame(s) PROVE ListedInv'
  BY HolderAssumption, <1>12 DEF FinishFrame, FrameTypeOK, ContextLockInv, FenceInv, SlotIsFree, ListedInv, slotVars, submissionVars, userVars, drawVars
<1>13. ASSUME NEW t \in Users, FinishWork(t) PROVE ListedInv'
  BY HolderAssumption, <1>13 DEF FinishWork, FrameTypeOK, ContextLockInv, FenceInv, SlotIsFree, ListedInv, slotVars, submissionVars, userVars, drawVars
<1>14. CASE UNCHANGED frameVars
  BY HolderAssumption, <1>14 DEF frameVars, FrameTypeOK, ContextLockInv, FenceInv, SlotIsFree, ListedInv, slotVars, submissionVars, userVars, drawVars
<1> QED
  BY <1>1, <1>2, <1>3, <1>4, <1>5, <1>6, <1>7, <1>8, <1>9, <1>10, <1>11, <1>12, <1>13, <1>14 DEF FrameNext, RestOfFrame, Compute, Device

\* Existing resources stay owned.
LEMMA LeakStep ==
  ASSUME FrameTypeOK, OwnerInv, NothingLeaks, [FrameNext]_frameVars
  PROVE  NothingLeaks'
<1>1. CASE BeginFrame
  BY <1>1 DEF BeginFrame, FrameTypeOK, OwnerInv, NothingLeaks, slotVars, submissionVars, userVars, drawVars
<1>2. CASE ReuseSlot
  BY <1>2 DEF ReuseSlot, FrameTypeOK, OwnerInv, NothingLeaks, slotVars, submissionVars, userVars, drawVars
<1>3. CASE AcquireImage
  BY <1>3 DEF AcquireImage, FrameTypeOK, OwnerInv, NothingLeaks, slotVars, submissionVars, userVars, drawVars
<1>4. CASE AcquireFails
  BY <1>4 DEF AcquireFails, FrameTypeOK, OwnerInv, NothingLeaks, slotVars, submissionVars, userVars, drawVars
<1>5. CASE Record
  BY <1>5 DEF Record, FrameTypeOK, OwnerInv, NothingLeaks, slotVars, submissionVars, userVars, drawVars
<1>6. CASE Submit
  BY <1>6 DEF Submit, FrameTypeOK, OwnerInv, NothingLeaks, slotVars, submissionVars, userVars, drawVars
<1>7. CASE Present
  BY <1>7 DEF Present, FrameTypeOK, OwnerInv, NothingLeaks, slotVars, submissionVars, userVars, drawVars
<1>8. ASSUME NEW t \in Users, QueueDraw(t) PROVE NothingLeaks'
  BY <1>8 DEF QueueDraw, FrameTypeOK, OwnerInv, NothingLeaks, slotVars, submissionVars, userVars, drawVars
<1>9. ASSUME NEW t \in Users, BeginCompute(t) PROVE NothingLeaks'
  BY <1>9 DEF BeginCompute, FrameTypeOK, OwnerInv, NothingLeaks, slotVars, submissionVars, userVars, drawVars
<1>10. ASSUME NEW t \in Users, SubmitCompute(t) PROVE NothingLeaks'
  BY <1>10 DEF SubmitCompute, FrameTypeOK, OwnerInv, NothingLeaks, slotVars, submissionVars, userVars, drawVars
<1>11. ASSUME NEW t \in Users, EndCompute(t) PROVE NothingLeaks'
  BY <1>11 DEF EndCompute, FrameTypeOK, OwnerInv, NothingLeaks, slotVars, submissionVars, userVars, drawVars
<1>12. ASSUME NEW s \in Slots, FinishFrame(s) PROVE NothingLeaks'
  BY <1>12 DEF FinishFrame, FrameTypeOK, OwnerInv, NothingLeaks, slotVars, submissionVars, userVars, drawVars
<1>13. ASSUME NEW t \in Users, FinishWork(t) PROVE NothingLeaks'
  BY <1>13 DEF FinishWork, FrameTypeOK, OwnerInv, NothingLeaks, slotVars, submissionVars, userVars, drawVars
<1>14. CASE UNCHANGED frameVars
  BY <1>14 DEF frameVars, FrameTypeOK, OwnerInv, NothingLeaks, slotVars, submissionVars, userVars, drawVars
<1> QED
  BY <1>1, <1>2, <1>3, <1>4, <1>5, <1>6, <1>7, <1>8, <1>9, <1>10, <1>11, <1>12, <1>13, <1>14 DEF FrameNext, RestOfFrame, Compute, Device

\* An unsignalled fence is submitted, in preparation or of a skipped frame.
LEMMA ExplainedStep ==
  ASSUME FrameTypeOK, UnsignalledIsExplained, [FrameNext]_frameVars
  PROVE  UnsignalledIsExplained'
<1> USE DEF FrameTypeOK, UnsignalledIsExplained, slotVars, submissionVars, userVars, drawVars
<1>1. CASE BeginFrame
  BY <1>1 DEF BeginFrame
<1>2. CASE ReuseSlot
  BY <1>2 DEF ReuseSlot
<1>3. CASE AcquireImage
  BY <1>3 DEF AcquireImage
<1>4. CASE AcquireFails
  BY <1>4 DEF AcquireFails
<1>5. CASE Record
  BY <1>5 DEF Record
<1>6. CASE Submit
  BY <1>6 DEF Submit
<1>7. CASE Present
  BY <1>7 DEF Present
<1>8. ASSUME NEW t \in Users, QueueDraw(t) PROVE UnsignalledIsExplained'
  BY <1>8 DEF QueueDraw
<1>9. ASSUME NEW t \in Users, BeginCompute(t) PROVE UnsignalledIsExplained'
  BY <1>9 DEF BeginCompute
<1>10. ASSUME NEW t \in Users, SubmitCompute(t) PROVE UnsignalledIsExplained'
  BY <1>10 DEF SubmitCompute
<1>11. ASSUME NEW t \in Users, EndCompute(t) PROVE UnsignalledIsExplained'
  BY <1>11 DEF EndCompute
<1>12. ASSUME NEW s \in Slots, FinishFrame(s) PROVE UnsignalledIsExplained'
  BY <1>12 DEF FinishFrame
<1>13. ASSUME NEW t \in Users, FinishWork(t) PROVE UnsignalledIsExplained'
  BY <1>13 DEF FinishWork
<1>14. CASE UNCHANGED frameVars
  BY <1>14 DEF frameVars
<1> QED
  BY <1>1, <1>2, <1>3, <1>4, <1>5, <1>6, <1>7, <1>8, <1>9, <1>10, <1>11, <1>12, <1>13, <1>14
  DEF FrameNext, RestOfFrame, Compute, Device

\* Draining a sequence of draws yields a draw.
LEMMA LatestTyped ==
  ASSUME FrameTypeOK
  PROVE  LatestPending \in Draws
<1>1. CASE pendingDraws = << >>
  BY <1>1 DEF FrameTypeOK, LatestPending
<1>2. CASE pendingDraws # << >>
  <2>1. Len(pendingDraws) \in Nat /\ Len(pendingDraws) >= 1
    BY <1>2, EmptySeq, LenProperties DEF FrameTypeOK
  <2>2. pendingDraws[Len(pendingDraws)] \in Draws
    BY <2>1, ElementOfSeq DEF FrameTypeOK
  <2> QED
    BY <1>2, <2>2 DEF LatestPending
<1> QED
  BY <1>1, <1>2

\* Every step keeps the types of the frame loop.
LEMMA FrameTypeStep ==
  ASSUME FrameTypeOK, [FrameNext]_frameVars
  PROVE  FrameTypeOK'
<1> USE DEF FrameTypeOK, slotVars, submissionVars, userVars, drawVars
<1>1. CASE BeginFrame
  BY <1>1 DEF BeginFrame
<1>2. CASE ReuseSlot
  <2>1. deferred' \in [Slots -> SUBSET Resources] /\ fence' \in [Slots -> BOOLEAN]
    BY <1>2 DEF ReuseSlot
  <2> QED
    BY <1>2, <2>1 DEF ReuseSlot
<1>3. CASE AcquireImage
  BY <1>3 DEF AcquireImage
<1>4. CASE AcquireFails
  BY <1>4 DEF AcquireFails
<1>5. CASE Record
  <2> DEFINE d == LatestPending
  <2>1. d \in Draws
    BY LatestTyped
  <2> HIDE DEF d
  <2>2. PICK rs \in SUBSET (Resources \ live) :
          /\ live' = live \cup rs
          /\ recorded' = [recorded EXCEPT ![current] = rs]
          /\ deferred' = [deferred EXCEPT ![current] = @ \cup rs]
    BY <1>5 DEF Record
  <2>3. /\ pendingDraws' = << >> /\ cached' = d
        /\ drawing' = [drawing EXCEPT ![current] = d]
        /\ main' = "submit"
        /\ UNCHANGED <<ctx, current, fence, skipped, submissionVars, userVars, drawn>>
    BY <1>5 DEF Record, d
  <2>4. recorded' \in [Slots -> SUBSET Resources] /\ live' \subseteq Resources
    BY <2>2
  <2>5. deferred' \in [Slots -> SUBSET Resources]
    BY <2>2
  <2>6. pendingDraws' \in Seq(Draws)
    BY <2>3, EmptySeq
  <2> QED
    BY <2>1, <2>3, <2>4, <2>5, <2>6
<1>6. CASE Submit
  BY <1>6 DEF Submit
<1>7. CASE Present
  <2>1. (current + 1) % MaxFramesInFlight \in Slots
    BY FramesAssumption DEF Slots
  <2> QED
    BY <1>7, <2>1 DEF Present
<1>8. ASSUME NEW t \in Users, QueueDraw(t) PROVE FrameTypeOK'
  <2>1. drawn + 1 \in Draws
    BY <1>8, DrawsAssumption DEF QueueDraw, Draws
  <2>2. pendingDraws' \in Seq(Draws)
    BY <1>8, <2>1, AppendProperties DEF QueueDraw
  <2> QED
    BY <1>8, <2>1, <2>2 DEF QueueDraw
<1>9. ASSUME NEW t \in Users, BeginCompute(t) PROVE FrameTypeOK'
  BY <1>9 DEF BeginCompute
<1>10. ASSUME NEW t \in Users, SubmitCompute(t) PROVE FrameTypeOK'
  BY <1>10 DEF SubmitCompute
<1>11. ASSUME NEW t \in Users, EndCompute(t) PROVE FrameTypeOK'
  BY <1>11 DEF EndCompute
<1>12. ASSUME NEW s \in Slots, FinishFrame(s) PROVE FrameTypeOK'
  BY <1>12 DEF FinishFrame
<1>13. ASSUME NEW t \in Users, FinishWork(t) PROVE FrameTypeOK'
  BY <1>13 DEF FinishWork
<1>14. CASE UNCHANGED frameVars
  BY <1>14 DEF frameVars
<1> QED
  BY <1>1, <1>2, <1>3, <1>4, <1>5, <1>6, <1>7, <1>8, <1>9, <1>10, <1>11, <1>12, <1>13, <1>14
  DEF FrameNext, RestOfFrame, Compute, Device

\* The invariant holds at first.
LEMMA InitFrameIInv == FrameInit => FrameIInv
<1> SUFFICES ASSUME FrameInit PROVE FrameIInv
  OBVIOUS
<1>1. FrameTypeOK
  BY FramesAssumption, DrawsAssumption, EmptySeq DEF FrameInit, FrameTypeOK, Slots, Draws
<1>2. ContextLockInv /\ FenceInv /\ SlotIsFree /\ OwnerInv /\ ListedInv /\ NothingLeaks
    /\ UnsignalledIsExplained
  BY HolderAssumption
  DEF FrameInit, ContextLockInv, FenceInv, SlotIsFree, OwnerInv, ListedInv, NothingLeaks, UnsignalledIsExplained
<1> QED
  BY <1>1, <1>2 DEF FrameIInv

\* The inductive invariant holds in every reachable state.
THEOREM FrameInvariance == FrameSpec => []FrameIInv
<1>1. FrameIInv /\ [FrameNext]_frameVars => FrameIInv'
  BY FrameTypeStep, ContextLockStep, FenceStep, SlotStep, OwnerStep, ListedStep, LeakStep, ExplainedStep DEF FrameIInv
<1> QED
  BY InitFrameIInv, <1>1, PTL DEF FrameSpec

\* Every variable of the frame loop keeps its type.
THEOREM FrameTypeCorrect == FrameSpec => []FrameTypeOK
<1>1. FrameIInv => FrameTypeOK
  BY DEF FrameIInv
<1> QED
  BY FrameInvariance, <1>1, PTL

\* With any number of frame slots and threads, and whatever call fails, the
\* deferred destruction of render_frame never destroys what a submission the
\* device has not finished uses.
THEOREM DestroyedAfterUse == FrameSpec => []NoUseAfterDestroy
<1>1. FrameIInv => NoUseAfterDestroy
  <2> SUFFICES ASSUME FrameIInv PROVE NoUseAfterDestroy
    OBVIOUS
  <2>1. \A s \in frames : s \in Slots
    BY DEF FrameIInv, FrameTypeOK
  <2>2. \A t \in computing : t \in Users
    BY DEF FrameIInv, FrameTypeOK
  <2> QED
    BY <2>1, <2>2 DEF FrameIInv, OwnerInv, ListedInv, NoUseAfterDestroy
<1> QED
  BY FrameInvariance, <1>1, PTL

\* Every resource that exists is on a slot's list or in a thread's hands, also
\* after a frame that ended early.
THEOREM ResourcesAreOwned == FrameSpec => []NothingLeaks
<1>1. FrameIInv => NothingLeaks
  BY DEF FrameIInv
<1> QED
  BY FrameInvariance, <1>1, PTL

\* A slot's command buffer, semaphores and fence are reused only when the
\* device is done with them.
THEOREM SlotsAreReusedFree == FrameSpec => []SlotIsFree
<1>1. FrameIInv => SlotIsFree
  BY DEF FrameIInv
<1> QED
  BY FrameInvariance, <1>1, PTL

\* The context lock alone keeps presenting and submitting threads apart.
THEOREM QueueIsExclusive == FrameSpec => []OneAtTheQueue
<1>1. FrameIInv => OneAtTheQueue
  BY HolderAssumption DEF FrameIInv, ContextLockInv, OneAtTheQueue
<1> QED
  BY FrameInvariance, <1>1, PTL

\* With any number of slots, a fence the device will not signal is one a frame
\* in preparation has reset or one an early return of render_frame abandoned.
THEOREM FencesAreAccountedFor == FrameSpec => []UnsignalledIsExplained
<1>1. FrameIInv => UnsignalledIsExplained
  BY DEF FrameIInv
<1> QED
  BY FrameInvariance, <1>1, PTL

\* A resource lives exactly as long as somebody may use it, for any number of slots,
\* threads and resources (render_frame, execute_general_compute_dispatch).
THEOREM ResourcesAlwaysOutlive == FrameSpec => []ResourcesOutliveTheirUse
<1>1. NoUseAfterDestroy /\ NothingLeaks => ResourcesOutliveTheirUse
  BY DEF ResourcesOutliveTheirUse
<1> QED
  BY <1>1, DestroyedAfterUse, ResourcesAreOwned, PTL

\* The device is used in turn, and its fences are accounted for (VULKAN_CONTEXT,
\* SUBMIT_MUTEX, render_frame).
THEOREM DeviceAlwaysInTurn == FrameSpec => []DeviceIsUsedInTurn
<1>1. OneAtTheQueue /\ UnsignalledIsExplained => DeviceIsUsedInTurn
  BY DEF DeviceIsUsedInTurn
<1> QED
  BY <1>1, QueueIsExclusive, FencesAreAccountedFor, PTL
===============================================================================
