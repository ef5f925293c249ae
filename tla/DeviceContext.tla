---------------------------- MODULE DeviceContext ----------------------------
(***************************************************************************)
(* The host's graphics device: how VulkanContext::new opens it on whatever *)
(* the host offers, what its Drop destroys, the buffers a draw uploads and *)
(* the jobs of execute_compute_job (src/src/graphics.rs), with the two     *)
(* callers that fall back on the processor when there is no context        *)
(* (src/src/decompression.rs, src/src/audio.rs).                           *)
(*                                                                         *)
(* An error of a call ends the opening with what was made so far; a call   *)
(* that is unwrapped ends the process.                                     *)
(***************************************************************************)
EXTENDS Integers, Sequences, FiniteSets, SequencesExt

CONSTANTS
  Offers,      \* what the device and the surface of each kind of host offer
  Window,      \* width and height of the window
  Frames,      \* MAX_FRAMES_IN_FLIGHT
  JobInputs,   \* input bytes of jobs on the device
  Streams,     \* input bytes of decompressions without one
  OutputSizes, \* sizes of outputs
  Magic,       \* the bytes that open a run-length stream
  Pad,         \* least size of a job's buffers
  Group,       \* invocations of a work group
  Word,        \* bytes an invocation handles
  MaxJobs,     \* bound: jobs
  MaxFaults    \* bound: calls of the driver that fail

\* Vulkan promises memory types for depth images and for mapped buffers, and a surface
\* that allows at least one extent and one number of images.
ASSUME DeviceAssumption ==
  /\ \A h \in DOMAIN Offers : LET o == Offers[h] IN
       /\ o.gpus \in Seq(ToSet(o.gpus)) /\ o.formats \in Seq(ToSet(o.formats))
       /\ \A g \in ToSet(o.gpus) :
            /\ g.depth \subseteq Nat /\ \E i \in g.depth : "local" \in g.memory[i]
            /\ g.buffers \subseteq Nat
            /\ \E i \in g.buffers : {"visible", "coherent"} \subseteq g.memory[i]
       /\ \A d \in 1 .. 2 : o.least[d] \in Int /\ o.most[d] \in Int /\ o.least[d] <= o.most[d]
       /\ o.minImages \in Nat /\ o.maxImages \in Nat /\ o.extra \in Nat
       /\ o.maxImages = 0 \/ o.minImages <= o.maxImages
  /\ \A d \in 1 .. 2 : Window[d] \in Int
  /\ Frames \in Nat \ {0} /\ Pad = Group * Word
  /\ Word \in Nat \ {0} /\ Group \in Nat \ {0}
  /\ MaxJobs \in Nat /\ MaxFaults \in Nat

Tasks == {"kraken", "tempest"}

VARIABLES
  host,    \* the kind of host
  stage,   \* how far the opening has come: "open", "error" and "panic" end it
  chosen,  \* what the context was given
  alive,   \* objects of the device, as <<kind, number>>
  job,     \* the compute job under way
  tasks,   \* compute_pipeline_cache: per task "none", "null" or "compiled"
  guest,   \* the guest's destination, and what it asked for
  jobs, faults

Here == Offers[host]

contextVars == <<host, stage, chosen, alive, job, tasks, guest, jobs, faults>>

NoJob == [at |-> "none"]

\* The bytes of the guest beyond the destination, which must stay.
Room == 1 + CHOOSE n \in OutputSizes : \A m \in OutputSizes : m <= n

Old == [i \in 1 .. Room |-> [by |-> "nobody", of |-> 0]]

DeviceInit ==
  /\ host \in DOMAIN Offers
  /\ stage = "loader"
  /\ chosen = [gpu |-> 0]
  /\ alive = {} /\ job = NoJob
  /\ tasks = [t \in Tasks |-> "none"]
  /\ guest = [task |-> "none", input |-> << >>, size |-> 0, bytes |-> Old]
  /\ jobs = 0 /\ faults = 0

-------------------------------------------------------------------------------
\* VulkanContext::new

Faulty == faults < MaxFaults /\ faults' = faults + 1

\* A call that makes objs, or fails: an error is returned, or unwrapped.
Call(at, objs, next, failure) ==
  /\ stage = at
  /\ \/ /\ stage' = next
        /\ alive' = alive \cup objs
        /\ UNCHANGED faults
     \/ /\ Faulty
        /\ stage' = failure
        /\ UNCHANGED alive
  /\ UNCHANGED <<host, chosen, job, tasks, guest, jobs>>

LoadVulkan ==
  /\ stage = "loader"
  /\ stage' = IF Here.loader THEN "instance" ELSE "error"
  /\ UNCHANGED <<host, chosen, alive, job, tasks, guest, jobs, faults>>

\* With the validation layer and the debugging extension first, then without.
CreateInstance ==
  \/ Here.layers /\ Call("instance", {<<"instance", 1>>}, "surface", "retry")
  \/ ~Here.layers /\ Call("instance", {}, "retry", "retry")
  \/ Call("retry", {<<"instance", 1>>}, "surface", "error")

CreateSurface == Call("surface", {<<"surface", 1>>}, "gpu", "error")

Places(h) == {p \in (1 .. Len(h.gpus)) \X (1 .. 3) : p[2] <= Len(h.gpus[p[1]].families)}

Before(p, q) == p[1] < q[1] \/ (p[1] = q[1] /\ p[2] < q[2])

FirstPlace(S) == CHOOSE p \in S : \A q \in S \ {p} : Before(p, q)

\* Defect: any graphics family will do.
GraphicsPlaces(h, unanswered) ==
  {p \in Places(h) : h.gpus[p[1]].families[p[2]].graphics}

\* Families that draw and present; a question about presentation that the driver
\* does not answer counts as a no.
FitPlaces(h, unanswered) ==
  {p \in Places(h) \ unanswered :
     LET f == h.gpus[p[1]].families[p[2]] IN f.graphics /\ f.present}

ChooseDevice ==
  /\ stage = "gpu"
  /\ \E unanswered \in {{}} \cup {{p} : p \in Places(Here)} :
       /\ IF unanswered = {} THEN UNCHANGED faults ELSE Faulty
       /\ LET fit == FitPlaces(Here, unanswered) IN
          IF fit = {}
            THEN stage' = "error" /\ UNCHANGED chosen
            ELSE /\ stage' = "device"
                 /\ chosen' = [gpu |-> FirstPlace(fit)[1], family |-> FirstPlace(fit)[2]]
  /\ UNCHANGED <<host, alive, job, tasks, guest, jobs>>

CreateDevice == Call("device", {<<"device", 1>>}, "capabilities", "error")

Clamp(x, lo, hi) == IF x < lo THEN lo ELSE IF x > hi THEN hi ELSE x

ExtentFor(h) ==
  IF h.current # "any" THEN h.current
  ELSE [d \in 1 .. 2 |-> Clamp(Window[d], h.least[d], h.most[d])]

\* One more than the least; a most of 0 is none.
ImageCount(h) ==
  IF h.maxImages > 0 /\ h.minImages + 1 > h.maxImages THEN h.maxImages
  ELSE h.minImages + 1

FormatFor(h) == IF "srgb" \in ToSet(h.formats) THEN "srgb" ELSE h.formats[1]

\* Queries of the surface; a surface without formats is a panic.
ReadSurface ==
  /\ stage = "capabilities"
  /\ \/ /\ stage' = "swapchain"
        /\ Here.formats # << >>
        /\ chosen' = [gpu |-> chosen.gpu, family |-> chosen.family, format |-> FormatFor(Here),
                      extent |-> ExtentFor(Here), count |-> ImageCount(Here)]
        /\ UNCHANGED faults
     \/ stage' = "panic" /\ Here.formats = << >> /\ UNCHANGED <<chosen, faults>>
     \/ stage' = "error" /\ Faulty /\ UNCHANGED chosen
  /\ UNCHANGED <<host, alive, job, tasks, guest, jobs>>

CreateSwapchain == Call("swapchain", {<<"swapchain", 1>>}, "images", "error")

\* The first type among those allowed that has the properties, else the first of all.
MemoryTypeFor(gpu, allowed, wanted) ==
  LET good == {i \in allowed : wanted \subseteq gpu.memory[i]} IN
  IF good = {} THEN 1 ELSE CHOOSE i \in good : \A j \in good : i <= j

Gpu == Here.gpus[chosen.gpu]

\* The driver may make more images than it was asked for.  The depth image's
\* memory type is chosen before it is made.
GetImages ==
  /\ stage = "images"
  /\ \/ /\ stage' = "parts"
        /\ chosen' = [gpu |-> chosen.gpu, family |-> chosen.family, format |-> chosen.format,
                      extent |-> chosen.extent, count |-> chosen.count,
                      images |-> chosen.count + Here.extra,
                      memory |-> MemoryTypeFor(Gpu, Gpu.depth, {"local"})]
        /\ UNCHANGED faults
     \/ stage' = "error" /\ Faulty /\ UNCHANGED chosen
  /\ UNCHANGED <<host, alive, job, tasks, guest, jobs>>

\* What is then made one by one; an error of binding the depth image's memory
\* leaves what one of the view does.
Parts ==
  << <<"view", chosen.images>>, <<"depth image", 1>>, <<"depth memory", 1>>,
     <<"depth view", 1>>, <<"render pass", 1>>, <<"framebuffer", chosen.images>>,
     <<"command pool", 1>>, <<"command buffers", 1>> >>

SyncParts == <<"image available", "render finished", "in flight">>

Numbered(kind, n) == {kind} \X (1 .. n)

Made(kind) == Cardinality({o \in alive : o[1] = kind})

Unmade == {i \in 1 .. Len(Parts) : Made(Parts[i][1]) < Parts[i][2]}

CreatePart ==
  /\ stage = "parts"
  /\ LET i == CHOOSE i \in Unmade : \A j \in Unmade : i <= j IN
     Call("parts", {<<Parts[i][1], Made(Parts[i][1]) + 1>>},
          IF Unmade = {i} /\ Made(Parts[i][1]) + 1 = Parts[i][2] THEN "layout" ELSE "parts",
          "error")

\* The depth image is given its layout by a command buffer that is submitted under
\* the submission lock, waited for and freed.
Transition == Call("layout", {}, "sync", "panic")

\* Two semaphores and a signalled fence for each frame.
CreateSync ==
  /\ stage = "sync"
  /\ LET n == Made("in flight") + 1
         i == CHOOSE i \in 1 .. 3 :
                /\ Made(SyncParts[i]) < n
                /\ \A j \in 1 .. i - 1 : Made(SyncParts[j]) = n
     IN Call("sync", {<<SyncParts[i], n>>},
             IF i = 3 /\ n = Frames THEN "cache" ELSE "sync", "panic")

\* Without a pipeline cache the context works all the same.
CreateCache == Call("cache", {<<"pipeline cache", 1>>}, "open", "open")

Opening ==
  \/ LoadVulkan \/ CreateInstance \/ CreateSurface \/ ChooseDevice \/ CreateDevice
  \/ ReadSurface \/ CreateSwapchain \/ GetImages \/ CreatePart \/ Transition
  \/ CreateSync \/ CreateCache

-------------------------------------------------------------------------------
\* create_vertex_buffer, create_index_buffer, create_uniform_buffer and
\* create_texture_image: what a draw reads is uploaded when it is recorded, and
\* destroyed when its frame's fence has been waited for.

Visible == {"visible", "coherent"}

\* The type of the memory of buffers and textures.
UploadMemory == MemoryTypeFor(Gpu, Gpu.buffers, Visible)

UploadOf(use) ==
  IF use = "texture"
    THEN {"texture image", "texture memory", "texture view", "sampler"} \X {1}
    ELSE {<<use, 1>>, <<use, 2>>}

Uploads == {"vertex", "index", "constant", "texture"}

Deferred == UNION {UploadOf(u) : u \in Uploads}

\* A draw uploads what it reads; any call that fails is a panic.
Upload(used) ==
  /\ stage = "open" /\ job = NoJob
  /\ alive \cap Deferred = {}
  /\ \/ /\ alive' = alive \cup UNION {UploadOf(u) : u \in used}
        /\ UNCHANGED <<stage, faults>>
     \/ stage' = "panic" /\ Faulty /\ UNCHANGED alive
  /\ UNCHANGED <<host, chosen, job, tasks, guest, jobs>>

Retire ==
  /\ stage = "open" /\ job = NoJob
  /\ alive \cap Deferred # {}
  /\ alive' = alive \ Deferred
  /\ UNCHANGED <<host, stage, chosen, job, tasks, guest, jobs, faults>>

-------------------------------------------------------------------------------
\* execute_compute_job

AtLeast(m, n) == IF m > n THEN m ELSE n

AtMost(m, n) == IF m < n THEN m ELSE n

Byte(by, of) == [by |-> by, of |-> of]

\* Memory as the driver hands it out.
Junk(n) == [i \in 1 .. n |-> Byte("junk", -1)]

\* Defect: what the input does not fill is left as it is.
FilledPlainly(input, n, size) ==
  LET kept == AtMost(Len(input), n) IN
  [i \in 1 .. AtLeast(size, Pad) |-> IF i <= kept THEN Byte("input", input[i])
                                     ELSE Junk(i)[i]]

\* A buffer for size bytes, given n bytes of the input at most and zeros.
Filled(input, n, size) ==
  LET kept == AtMost(Len(input), n) IN
  [i \in 1 .. AtLeast(size, Pad) |-> IF i <= kept THEN Byte("input", input[i])
                                     ELSE Byte("input", 0)]

\* A group for every Group bytes asked for, though an invocation handles a word:
\* those beyond the buffers are taken to do nothing.
Invocations(n) == Group * AtLeast(1, (n + Group - 1) \div Group)

\* generate_kraken_spirv and generate_tempest_audio_spirv: an invocation computes
\* its word of the output from the same word of the input.
Dispatched(task, in, out, n) ==
  LET word(i) == (i - 1) \div Word
      whole(i) == (word(i) + 1) * Word <= AtMost(Len(in), Len(out)) IN
  [i \in 1 .. Len(out) |->
     IF word(i) < Invocations(n) /\ whole(i) THEN Byte(task, in[i].of) ELSE out[i]]

JobParts == {"input buffer", "input memory", "output buffer", "output memory",
             "descriptor pool", "temporary pool", "fence"} \X {1}

\* Defect: the descriptor pool stays.
DestroyedButThePool == JobParts \ {<<"descriptor pool", 1>>}

\* What a job destroys at its end.
Destroyed == JobParts

\* A step of a job; every call it makes is unwrapped.
JobStep(at, objs, next) ==
  /\ stage = "open" /\ job.at = at
  /\ \/ /\ job' = next
        /\ alive' = alive \cup objs
        /\ UNCHANGED <<stage, faults>>
     \/ stage' = "panic" /\ Faulty /\ UNCHANGED <<job, alive>>
  /\ UNCHANGED <<host, chosen, guest, jobs>>

Asked(task, input, n) ==
  /\ jobs < MaxJobs /\ jobs' = jobs + 1
  /\ guest' = [task |-> task, input |-> input, size |-> n, bytes |-> Old]

\* The caller has the context's lock until the job ends.
BeginJob(task, input, n) ==
  /\ stage = "open" /\ job = NoJob
  /\ Asked(task, input, n)
  /\ job' = [at |-> "fill", in |-> Junk(AtLeast(Len(input), Pad)), out |-> Junk(AtLeast(n, Pad))]
  /\ alive' = alive \cup ({"input buffer", "input memory", "output buffer", "output memory"} \X {1})
  /\ UNCHANGED <<host, stage, chosen, tasks, faults>>

FillBuffers ==
  /\ JobStep("fill", {}, [job EXCEPT !.at = "pipeline",
                                     !.in = Filled(guest.input, Len(guest.input), Len(guest.input)),
                                     !.out = Filled(guest.input, guest.size, guest.size)])
  /\ UNCHANGED tasks

TaskNumber == [kraken |-> 1, tempest |-> 2]

PipelineParts(task, state) ==
  (IF state = "none" THEN {} ELSE {"task module", "task set layout", "task layout"}
   \cup IF state = "compiled" THEN {"task pipeline"} ELSE {}) \X {TaskNumber[task]}

\* Made once for each task; a pipeline that could not be made is kept as null.
FindPipeline ==
  LET t == guest.task IN
  /\ job.at = "pipeline"
  /\ \E found \in IF tasks[t] = "none" THEN {"compiled", "null"} ELSE {tasks[t]} :
       /\ JobStep("pipeline", PipelineParts(t, found), [job EXCEPT !.at = "submit"])
       /\ tasks' = IF job'.at = "submit" THEN [tasks EXCEPT ![t] = found] ELSE tasks

\* Pools, a set and a command buffer are made, and the buffer is recorded, submitted
\* under the submission lock and waited for; without a pipeline it is empty.
SubmitJob ==
  /\ job.at = "submit"
  /\ JobStep("submit", {"descriptor pool", "temporary pool", "fence"} \X {1},
             [job EXCEPT !.at = "read",
                         !.out = IF tasks[guest.task] = "compiled"
                                   THEN Dispatched(guest.task, job.in, job.out, guest.size)
                                   ELSE job.out])
  /\ UNCHANGED tasks

Transformed(bytes) == [i \in 1 .. Len(bytes) |-> Byte("host", bytes[i].of)]

\* The bytes asked for are read back and transformed by the processor if the
\* device did not run; the caller copies them to the guest.
EndJob ==
  /\ stage = "open" /\ job.at = "read"
  /\ \/ LET read == SubSeq(job.out, 1, guest.size)
            result == IF tasks[guest.task] = "compiled" THEN read ELSE Transformed(read) IN
        /\ job' = NoJob
        /\ alive' = alive \ Destroyed
        /\ guest' = [guest EXCEPT !.bytes = result \o SubSeq(Old, guest.size + 1, Room)]
        /\ UNCHANGED <<stage, faults>>
     \/ stage' = "panic" /\ Faulty /\ UNCHANGED <<alive, job, guest>>
  /\ UNCHANGED <<host, chosen, tasks, jobs>>

-------------------------------------------------------------------------------
\* Without a context: dispatch_kraken_gpu_compute and
\* dispatch_tempest_audio_compute on the processor

IsRuns(input) == Len(input) >= Len(Magic) /\ SubSeq(input, 1, Len(Magic)) = Magic

\* Pairs of a count and a value after the magic bytes; an odd byte is ignored.
Pairs(input) ==
  [k \in 1 .. (Len(input) - Len(Magic)) \div 2 |->
     [count |-> input[Len(Magic) + 2 * k - 1], value |-> input[Len(Magic) + 2 * k]]]

Expanded(input, n) ==
  FoldLeft(LAMBDA out, p : out \o [i \in 1 .. AtMost(p.count, n - Len(out)) |->
                                     Byte("input", p.value)],
           << >>, Pairs(input))

Copied(input, n) == [i \in 1 .. AtMost(Len(input), n) |-> Byte("input", input[i])]

Overlaid(bytes) == [i \in 1 .. Room |-> IF i <= Len(bytes) THEN bytes[i] ELSE Old[i]]

\* main carries on without graphics when the opening returned an error.  Such calls
\* know nothing of each other: one is enough.
OnProcessor(task, input, n) ==
  LET bytes == IF task = "tempest" THEN Transformed(Copied(input, n))
               ELSE IF IsRuns(input) THEN Expanded(input, n)
               ELSE Copied(input, n) IN
  /\ stage = "error" /\ jobs = 0
  /\ jobs' = 1
  /\ guest' = [task |-> task, input |-> input, size |-> n, bytes |-> Overlaid(bytes)]
  /\ UNCHANGED <<host, stage, chosen, alive, job, tasks, faults>>

Calls(inputs) ==
  {c \in Tasks \X inputs \X OutputSizes :
     c[1] = "tempest" => c[3] = Len(c[2]) /\ c[3] % Word = 0}

Working ==
  \/ \E used \in SUBSET Uploads \ {{}} : Upload(used)
  \/ Retire
  \/ \E c \in Calls(JobInputs) : BeginJob(c[1], c[2], c[3])
  \/ FillBuffers \/ FindPipeline \/ SubmitJob \/ EndJob
  \/ \E c \in Calls(Streams) : OnProcessor(c[1], c[2], c[3])

DeviceNext == Opening \/ Working

-------------------------------------------------------------------------------
\* What Drop destroys, in its order.  The program keeps its context in a static
\* and so never drops it.

Numbers(kind, n) == [i \in 1 .. n |-> <<kind, i>>]

EachOf(kinds, n) == [i \in 1 .. Len(kinds) |-> <<kinds[i], n>>]

\* Those of some objects that were made.
OnlyMade(objs) ==
  LET made[i \in 0 .. Len(objs)] ==
        IF i = 0 THEN << >>
        ELSE IF objs[i] \in alive THEN Append(made[i - 1], objs[i]) ELSE made[i - 1]
  IN made[Len(objs)]

TaskKinds == <<"task pipeline", "task layout", "task set layout", "task module">>

TaskOrder == EachOf(TaskKinds, 1) \o EachOf(TaskKinds, 2)

\* Buffers, memory, images, views and samplers of draws whose frames are not over.
DeferredOrder ==
  EachOf(<<"vertex", "index", "constant">>, 1) \o EachOf(<<"vertex", "index", "constant">>, 2)
    \o EachOf(<<"texture memory", "texture image", "texture view", "sampler">>, 1)

\* A frame's semaphores and fence after those of the frame before.
SyncOrder ==
  [k \in 1 .. 3 * Frames |-> <<SyncParts[1 + ((k - 1) % 3)], 1 + ((k - 1) \div 3)>>]

DropOrder ==
  OnlyMade(TaskOrder)
    \o EachOf(<<"depth view", "depth image", "depth memory">>, 1)
    \o OnlyMade(DeferredOrder)
    \o SyncOrder
    \o EachOf(<<"command buffers", "command pool">>, 1)
    \o Numbers("framebuffer", chosen.images)
    \o EachOf(<<"render pass">>, 1)
    \o Numbers("view", chosen.images)
    \o EachOf(<<"swapchain", "surface">>, 1)
    \o OnlyMade(<< <<"pipeline cache", 1>> >>)
    \o EachOf(<<"device", "instance">>, 1)

-------------------------------------------------------------------------------
\* Properties

\* An open context fits the host: its family draws and presents, its extent and
\* its number of images are what the surface allows, its format is one of the
\* surface's, its depth image lies in memory it may use and its buffers in memory
\* the processor can map, and every image the swapchain really has got a
\* framebuffer.
ContextFitsHost ==
  stage = "open" =>
    LET f == Gpu.families[chosen.family] IN
    /\ f.graphics /\ f.present
    /\ IF Here.current = "any"
         THEN \A d \in 1 .. 2 : chosen.extent[d] \in Here.least[d] .. Here.most[d]
         ELSE chosen.extent = Here.current
    /\ chosen.count >= Here.minImages
    /\ Here.maxImages > 0 => chosen.count <= Here.maxImages
    /\ chosen.format \in ToSet(Here.formats)
    /\ chosen.memory \in Gpu.depth
    /\ UploadMemory \in Gpu.buffers /\ Visible \subseteq Gpu.memory[UploadMemory]
    /\ Made("framebuffer") = chosen.count + Here.extra

\* What the device calls a child of an object: it must be destroyed first.
Owns(o, p) ==
  \/ o = <<"instance", 1>> /\ p # o
  \/ o = <<"device", 1>> /\ p \notin {<<"instance", 1>>, <<"surface", 1>>, o}
  \/ o = <<"surface", 1>> /\ p = <<"swapchain", 1>>
  \/ o = <<"swapchain", 1>> /\ p[1] = "view"
  \/ o = <<"command pool", 1>> /\ p = <<"command buffers", 1>>

Owners == {"instance", "device", "surface", "swapchain", "command pool"} \X {1}

\* Between jobs, dropping the context would destroy every object it has made, each
\* once and children before their owners, whatever failed on the way and whatever
\* draws and jobs have left: nothing a job made is alive but its cached pipeline.
DropReleasesAll ==
  stage = "open" /\ job = NoJob =>
    LET order == DropOrder IN
    /\ ToSet(order) = alive
    /\ Len(order) = Cardinality(alive)
    /\ \A i \in 1 .. Len(order) :
         order[i] \in Owners => \A j \in i .. Len(order) : ~Owns(order[i], order[j])

\* The pair whose run covers byte i of an expansion, or 0.
CoveringPair(pairs, i) ==
  LET ends(k) == FoldLeft(LAMBDA n, p : n + p.count, 0, SubSeq(pairs, 1, k))
      past == {k \in 1 .. Len(pairs) : ends(k) >= i} IN
  IF past = {} THEN 0 ELSE CHOOSE k \in past : \A m \in past : k <= m

ExpectedByte(i) ==
  LET g == guest
      given == IF i <= Len(g.input) THEN g.input[i] ELSE 0
      pair == IF IsRuns(g.input) THEN CoveringPair(Pairs(g.input), i) ELSE 0 IN
  IF stage = "open"
    THEN Byte(IF tasks[g.task] = "compiled" THEN g.task ELSE "host", given)
  ELSE IF g.task = "tempest" THEN Byte("host", given)
  ELSE IF IsRuns(g.input)
    THEN IF pair = 0 THEN Old[i] ELSE Byte("input", Pairs(g.input)[pair].value)
  ELSE IF i <= Len(g.input) THEN Byte("input", given) ELSE Old[i]

\* A finished job has given the guest the transformed bytes of its input, zeros
\* beyond its end, on the device or on the processor, and has touched nothing
\* beyond the destination.  (On the device this is claimed of outputs no larger
\* than a buffer's least size: invocations run past larger ones.)
JobsGiveTheirBytes ==
  guest.task # "none" /\ job = NoJob /\ stage \in {"open", "error"} =>
    /\ Len(guest.bytes) = Room
    /\ \A i \in 1 .. Room :
         IF i > guest.size THEN guest.bytes[i] = Old[i]
         ELSE (stage = "open" /\ guest.size > Pad) \/ guest.bytes[i] = ExpectedByte(i)
===============================================================================
