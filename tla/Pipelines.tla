------------------------------ MODULE Pipelines ------------------------------
(***************************************************************************)
(* Draws and dispatches from a decoder to the device: the pipeline caches, *)
(* the shader files and the lock of the device (src/src/graphics.rs).      *)
(*                                                                         *)
(* A draw looks its pipeline up before it takes the device lock; a miss is *)
(* compiled under the lock, from shader files that a translation writes in *)
(* place.  The process may end between any two steps, as it does when the  *)
(* window is closed while guest threads run; files remain.                 *)
(***************************************************************************)
EXTENDS Integers, Sequences, FiniteSets, SequencesExt

CONSTANTS
  Threads,     \* decoding threads
  Keys,        \* pipeline states drawn with
  ShapeOf,     \* which resources a key has: the flags in its shader files' names
  VsAddr,      \* address of each key's vertex shader
  FsAddr,      \* address of each key's fragment shader
  CsAddrs,     \* addresses of compute shaders
  Codes,       \* shader programs
  None,
  MaxDraws,    \* bound: draws and dispatches
  MaxRewrites, \* bound: changes of shader code by the guest
  MaxExits     \* bound: ends of the process

Addrs == {VsAddr[k] : k \in Keys} \cup {FsAddr[k] : k \in Keys} \cup CsAddrs

VARIABLES
  context,    \* VULKAN_CONTEXT holds a context
  holder,     \* the thread that holds its lock across steps, or None
  code,       \* the program at each address, in guest memory
  pc, work,   \* each thread's place, and the draw or dispatch it is at
  loaded,     \* words of the shaders the thread has loaded for it
  pipelines,  \* PIPELINE_CACHE: the words a key's pipeline was compiled from
  layouts,    \* PIPELINE_LAYOUTS: the shape a key's layout was made for
  computes,   \* COMPUTE_PIPELINE_CACHE: per address, words, "null" or None
  pending,    \* PENDING_DRAWS
  files,      \* the shader cache on disk
  rewritten,  \* history: addresses whose code changed in this process
  compiles,   \* history: successful compilations by thread and key
  cut,        \* history: a process ended within a write
  draws, rewrites, exits

deviceVars == <<context, holder, pipelines, layouts, computes, pending>>
threadVars == <<pc, work, loaded>>
guestVars  == <<code, rewritten, rewrites>>
countVars  == <<draws, exits>>
vars == <<deviceVars, threadVars, guestVars, countVars, files, compiles, cut>>

-------------------------------------------------------------------------------
\* Shader files

\* Defect: the resources are left out of the name.
FileNameShapeless(c, stage, shape) == [code |-> c, stage |-> stage, shape |-> "plain"]

\* What a translation depends on; the file's name says as much (the hash stands
\* for the code).
FileName(c, stage, shape) == [code |-> c, stage |-> stage, shape |-> shape]

Shapes == {ShapeOf[k] : k \in Keys} \cup {"plain"}

Names == [code : Codes, stage : {"vs", "fs", "cs"}, shape : Shapes]

\* A translation, or what is left of one.
Words(c, stage, shape, whole) ==
  [code |-> c, stage |-> stage, shape |-> shape, whole |-> whole]

Translations == [code : Codes, stage : {"vs", "fs", "cs"}, shape : Shapes, whole : BOOLEAN]

ASSUME PipelinesAssumption ==
  /\ None \notin Keys \cup Threads \cup Seq(Translations)
  /\ MaxDraws \in Nat /\ MaxRewrites \in Nat /\ MaxExits \in Nat

\* "writing" while a process writes it; "cut" and "odd" when it ended in that, the
\* length a multiple of four or not.
Absent == [state |-> "absent"]

\* load_or_translate_shader takes any file of a length that is a multiple of four.
Readable(f) == f.state \in {"whole", "cut", "writing"}

ReadWords(f) == [f.words EXCEPT !.whole = f.state = "whole"]

\* The shaders of a draw or dispatch, in the order they are loaded.
Stages(w) ==
  IF w.kind = "draw" THEN <<"vs", "fs">> ELSE <<"cs">>

ShapeOfWork(w) == IF w.kind = "draw" THEN ShapeOf[w.key] ELSE "plain"

-------------------------------------------------------------------------------
NoWork == [kind |-> "none"]

Done(t) ==
  /\ pc' = [pc EXCEPT ![t] = "idle"]
  /\ work' = [work EXCEPT ![t] = NoWork]
  /\ loaded' = [loaded EXCEPT ![t] = << >>]

\* A draw or dispatch under way: the programs it has read and, for a draw, what the
\* cache had for its key.
DrawWork == [kind : {"draw"}, key : Keys, codes : Seq(Codes), seen : Seq(Translations) \cup {None}]
DispatchWork == [kind : {"dispatch"}, addr : CsAddrs, codes : Seq(Codes)]

TypeOK ==
  /\ context \in BOOLEAN /\ holder \in Threads \cup {None}
  /\ code \in [Addrs -> Codes]
  /\ pc \in [Threads -> {"idle", "read", "looked", "load", "write"}]
  /\ work \in [Threads -> {NoWork} \cup DrawWork \cup DispatchWork]
  /\ loaded \in [Threads -> Seq(Translations)]
  /\ pipelines \in [Keys -> Seq(Translations) \cup {None}]
  /\ layouts \in [Keys -> Shapes \cup {None}]
  /\ computes \in [CsAddrs -> Seq(Translations) \cup {None}]
  /\ pending \subseteq [key : Keys, words : Seq(Translations), layout : Shapes \cup {None}]
  /\ files \in [Names -> {Absent} \cup [state : {"whole", "writing", "cut", "odd"}, words : Translations]]
  /\ rewritten \subseteq Addrs
  /\ compiles \in [Threads -> [Keys -> Nat]]
  /\ cut \in BOOLEAN
  /\ draws \in 0 .. MaxDraws /\ rewrites \in 0 .. MaxRewrites /\ exits \in 0 .. MaxExits

\* A process that has just started: VulkanContext::new fails or succeeds, and
\* the guest's memory holds any programs.
Started ==
  /\ context' \in BOOLEAN
  /\ code' \in [Addrs -> Codes]
  /\ holder' = None
  /\ pc' = [t \in Threads |-> "idle"]
  /\ work' = [t \in Threads |-> NoWork]
  /\ loaded' = [t \in Threads |-> << >>]
  /\ pipelines' = [k \in Keys |-> None]
  /\ layouts' = [k \in Keys |-> None]
  /\ computes' = [a \in CsAddrs |-> None]
  /\ pending' = {}
  /\ rewritten' = {}
  /\ compiles' = [t \in Threads |-> [k \in Keys |-> 0]]

Init ==
  /\ context = TRUE
  /\ code \in [Addrs -> Codes]
  /\ holder = None
  /\ pc = [t \in Threads |-> "idle"]
  /\ work = [t \in Threads |-> NoWork]
  /\ loaded = [t \in Threads |-> << >>]
  /\ pipelines = [k \in Keys |-> None]
  /\ layouts = [k \in Keys |-> None]
  /\ computes = [a \in CsAddrs |-> None]
  /\ pending = {}
  /\ files = [n \in Names |-> Absent]
  /\ rewritten = {}
  /\ compiles = [t \in Threads |-> [k \in Keys |-> 0]]
  /\ cut = FALSE
  /\ draws = 0 /\ rewrites = 0 /\ exits = 0

-------------------------------------------------------------------------------
\* dispatch_draw_for_state

\* The draw's shader programs are read, before the cache is looked at.
ReadCode(t, k) ==
  /\ pc[t] = "idle" /\ draws < MaxDraws
  /\ draws' = draws + 1
  /\ work' = [work EXCEPT ![t] =
       [kind |-> "draw", key |-> k, codes |-> <<code[VsAddr[k]], code[FsAddr[k]]>>, seen |-> None]]
  /\ pc' = [pc EXCEPT ![t] = "read"]
  /\ UNCHANGED <<deviceVars, loaded, guestVars, exits, files, compiles, cut>>

\* The cache is looked up and its lock dropped.
Look(t) ==
  /\ pc[t] = "read"
  /\ work' = [work EXCEPT ![t].seen = pipelines[work[t].key]]
  /\ pc' = [pc EXCEPT ![t] = "looked"]
  /\ UNCHANGED <<deviceVars, loaded, guestVars, countVars, files, compiles, cut>>

PendingDraw(k, words, layout) == [key |-> k, words |-> words, layout |-> layout]

\* Under the device lock, what was found is queued with the layout of now.
PushHit(t) ==
  LET w == work[t] IN
  /\ pc[t] = "looked" /\ holder = None
  /\ context /\ w.seen # None
  /\ pending' = pending \cup {PendingDraw(w.key, w.seen, layouts[w.key])}
  /\ Done(t)
  /\ UNCHANGED <<context, holder, pipelines, layouts, computes, guestVars, countVars,
                 files, compiles, cut>>

\* Without a context a draw is dropped.
Drop(t) ==
  /\ pc[t] = "looked" /\ holder = None
  /\ ~context
  /\ Done(t)
  /\ UNCHANGED <<deviceVars, guestVars, countVars, files, compiles, cut>>

\* A miss takes the lock and keeps it until the pipeline is compiled.
LockForMiss(t) ==
  /\ pc[t] = "looked" /\ holder = None
  /\ context /\ work[t].seen = None
  /\ holder' = t
  /\ pc' = [pc EXCEPT ![t] = "load"]
  /\ loaded' = [loaded EXCEPT ![t] = << >>]
  /\ UNCHANGED <<context, pipelines, layouts, computes, pending, work, guestVars,
                 countVars, files, compiles, cut>>

-------------------------------------------------------------------------------
\* load_or_translate_shader and load_or_translate_compute_shader

Stage(t) == Stages(work[t])[Len(loaded[t]) + 1]

Loading(t) == pc[t] = "load" /\ Len(loaded[t]) < Len(Stages(work[t]))

NameFor(t) == FileName(work[t].codes[Len(loaded[t]) + 1], Stage(t), ShapeOfWork(work[t]))

Load(t) ==
  LET f == files[NameFor(t)] IN
  /\ Loading(t)
  /\ Readable(f)
  /\ loaded' = [loaded EXCEPT ![t] = Append(@, ReadWords(f))]
  /\ UNCHANGED <<deviceVars, pc, work, guestVars, countVars, files, compiles, cut>>

Translation(t) ==
  Words(work[t].codes[Len(loaded[t]) + 1], Stage(t), ShapeOfWork(work[t]), TRUE)

\* fs::write creates, or empties, the file, and then fills it.
Translate(t) ==
  /\ Loading(t)
  /\ ~Readable(files[NameFor(t)])
  /\ files' = [files EXCEPT ![NameFor(t)] = [state |-> "writing", words |-> Translation(t)]]
  /\ pc' = [pc EXCEPT ![t] = "write"]
  /\ UNCHANGED <<deviceVars, work, loaded, guestVars, countVars, compiles, cut>>

FinishWrite(t) ==
  /\ pc[t] = "write"
  /\ files' = [files EXCEPT ![NameFor(t)].state = "whole"]
  /\ loaded' = [loaded EXCEPT ![t] = Append(@, Translation(t))]
  /\ pc' = [pc EXCEPT ![t] = "load"]
  /\ UNCHANGED <<deviceVars, work, guestVars, countVars, compiles, cut>>

-------------------------------------------------------------------------------
\* Compilation

Unlock(t) ==
  /\ holder' = None
  /\ Done(t)

Compiling(t, kind) ==
  /\ pc[t] = "load" /\ ~Loading(t)
  /\ work[t].kind = kind

\* Defect: the new pipeline is not entered in the cache.
CompileUncached(t) ==
  LET k == work[t].key IN
  /\ Compiling(t, "draw")
  /\ layouts' = [layouts EXCEPT ![k] = ShapeOf[k]]
  /\ pending' = pending \cup {PendingDraw(k, loaded[t], layouts'[k])}
  /\ compiles' = [compiles EXCEPT ![t][k] = @ + 1]
  /\ Unlock(t)
  /\ UNCHANGED <<context, pipelines, computes, guestVars, countVars, files, cut>>

\* compile_pipeline_if_needed, the insertion into the cache and the draw.
Compile(t) ==
  LET k == work[t].key IN
  /\ Compiling(t, "draw")
  /\ layouts' = [layouts EXCEPT ![k] = ShapeOf[k]]
  /\ pipelines' = [pipelines EXCEPT ![k] = loaded[t]]
  /\ pending' = pending \cup {PendingDraw(k, loaded[t], layouts'[k])}
  /\ compiles' = [compiles EXCEPT ![t][k] = @ + 1]
  /\ Unlock(t)
  /\ UNCHANGED <<context, computes, guestVars, countVars, files, cut>>

\* A shader module is refused, before the layout is made, or the pipeline is, after.
CompileFails(t) ==
  /\ Compiling(t, "draw")
  /\ layouts' \in {layouts, [layouts EXCEPT ![work[t].key] = ShapeOf[work[t].key]]}
  /\ Unlock(t)
  /\ UNCHANGED <<context, pipelines, computes, pending, guestVars, countVars,
                 files, compiles, cut>>

-------------------------------------------------------------------------------
\* execute_general_compute_dispatch: all under the device lock.  What it then
\* makes, submits, waits for and destroys is RenderLoop's BeginCompute to
\* EndCompute.

BeginDispatch(t, a) ==
  /\ pc[t] = "idle" /\ draws < MaxDraws
  /\ context /\ holder = None
  /\ draws' = draws + 1
  /\ holder' = t
  /\ work' = [work EXCEPT ![t] = [kind |-> "dispatch", addr |-> a, codes |-> <<code[a]>>]]
  /\ loaded' = [loaded EXCEPT ![t] = << >>]
  /\ pc' = [pc EXCEPT ![t] = "load"]
  /\ UNCHANGED <<context, pipelines, layouts, computes, pending, guestVars, exits, files,
                 compiles, cut>>

\* A pipeline that could not be made is cached as null and never tried again.
CompileCompute(t) ==
  LET a == work[t].addr IN
  /\ Compiling(t, "dispatch")
  /\ IF computes[a] = None
       THEN \E made \in {loaded[t], << >>} : computes' = [computes EXCEPT ![a] = made]
       ELSE UNCHANGED computes
  /\ Unlock(t)
  /\ UNCHANGED <<context, pipelines, layouts, pending, guestVars, countVars,
                 files, compiles, cut>>

-------------------------------------------------------------------------------
\* The frame loop takes the draws (RenderLoop), the guest writes other programs
\* where its shaders are, and the process ends and is started again.

Frame ==
  /\ context /\ holder = None
  /\ pending # {}
  /\ pending' = {}
  /\ UNCHANGED <<context, holder, pipelines, layouts, computes, threadVars, guestVars,
                 countVars, files, compiles, cut>>

Rewrite(a, c) ==
  /\ rewrites < MaxRewrites
  /\ rewrites' = rewrites + 1
  /\ code' = [code EXCEPT ![a] = c]
  /\ rewritten' = rewritten \cup {a}
  /\ UNCHANGED <<deviceVars, threadVars, countVars, files, compiles, cut>>

Exit ==
  LET open == {n \in Names : files[n].state = "writing"} IN
  /\ exits < MaxExits
  /\ exits' = exits + 1
  /\ \E left \in {"cut", "odd"} :
       files' = [n \in Names |-> IF n \in open THEN [files[n] EXCEPT !.state = left]
                                               ELSE files[n]]
  /\ cut' = (cut \/ open # {})
  /\ Started
  /\ UNCHANGED <<draws, rewrites>>

Next ==
  \/ \E t \in Threads :
       \/ \E k \in Keys : ReadCode(t, k)
       \/ \E a \in CsAddrs : BeginDispatch(t, a)
       \/ Look(t) \/ PushHit(t) \/ Drop(t) \/ LockForMiss(t)
       \/ Load(t) \/ Translate(t) \/ FinishWrite(t)
       \/ Compile(t) \/ CompileFails(t) \/ CompileCompute(t)
  \/ Frame \/ Exit
  \/ \E a \in Addrs, c \in Codes : Rewrite(a, c)

Spec == Init /\ [][Next]_vars

-------------------------------------------------------------------------------
\* Properties

InUse ==
  UNION ({Range(p.words) : p \in pending}
           \cup {Range(pipelines[k]) : k \in {k \in Keys : pipelines[k] # None}}
           \cup {Range(computes[a]) : a \in {a \in CsAddrs : computes[a] # None}})

\* Only a process that ended within a write leaves a shader that is not whole: no
\* thread reads a file that another is writing.
OnlyExitsTruncate == ~cut => \A w \in InUse : w.whole

\* A draw that waits for the frame uses the programs that stand at its shaders'
\* addresses, translated for its resources, unless the guest has changed them:
\* whatever the order of look-up, lock and compilation, and whatever files older
\* processes left.
UnchangedCodeIsDrawn ==
  \A p \in pending :
    /\ VsAddr[p.key] \notin rewritten => p.words[1].code = code[VsAddr[p.key]]
    /\ FsAddr[p.key] \notin rewritten => p.words[2].code = code[FsAddr[p.key]]
    /\ \A i \in 1 .. 2 : p.words[i].shape = ShapeOf[p.key] /\ p.words[i].stage = <<"vs", "fs">>[i]

\* A queued draw has the layout its key's pipeline was made with, although the
\* layout is looked up later and another compilation of the key may have failed
\* in between.
PendingDrawsHaveLayouts == \A p \in pending : p.layout = ShapeOf[p.key]

\* A draw that is queued shows what its guest asked for: the code that is there, by a
\* pipeline with that code's layout.
DrawsMatchTheGuest == UnchangedCodeIsDrawn /\ PendingDrawsHaveLayouts

\* Threads that miss together compile the same pipeline; none does it twice.
OneCompilePerThread == \A t \in Threads, k \in Keys : compiles[t][k] <= 1

\* The caches are worth what is kept in them: a shader file is whole unless the
\* program's end cut it short, and a thread does not compile a pipeline twice.
CachesAreSound == OnlyExitsTruncate /\ OneCompilePerThread

\* A file read back is the translation that was written, as the tests of the
\* repository assert of two loads in a row.
LoadedIsTranslated == \A w \in InUse : w.whole
===============================================================================
