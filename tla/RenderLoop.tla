------------------------------ MODULE RenderLoop ------------------------------
(***************************************************************************)
(* The frame loop and everyone else who uses the Vulkan device             *)
(* (src/src/graphics.rs, src/src/main.rs).                                 *)
(*                                                                         *)
(* The main thread renders a frame every 16 ms: it waits for the fence of  *)
(* one of MAX_FRAMES_IN_FLIGHT frame slots, destroys what the slot's last  *)
(* frame left behind, acquires an image, records the latest guest draw with*)
(* fresh temporary resources, submits and presents.  Guest and decoder     *)
(* threads queue draws and run compute work in between.  All of them hold  *)
(* VULKAN_CONTEXT for as long as they use the device, the waits for fences *)
(* included.  The device runs submissions and signals their fences in its  *)
(* own time; the order in which it finishes them is left open.             *)
(***************************************************************************)
EXTENDS Integers, Sequences

CONSTANTS
  MaxFramesInFlight,  \* MAX_FRAMES_IN_FLIGHT
  Users,              \* threads that queue draws and run compute work
  Resources,          \* buffers, memory, images, views, samplers, pools
  MaxQueued,          \* bound: draws the guest queues
  Main,               \* the main thread
  Free                \* nobody holds VULKAN_CONTEXT

ASSUME FramesAssumption == MaxFramesInFlight \in Nat \ {0}
ASSUME DrawsAssumption == MaxQueued \in Nat
ASSUME HolderAssumption == Main \notin Users /\ Free \notin Users \cup {Main}

VARIABLES
  ctx,          \* who holds VULKAN_CONTEXT
  main,         \* where the main thread is in render_frame
  current,      \* current_frame
  fence,        \* in_flight_fences: is each slot's fence signalled?
  deferred,     \* each slot's resources to destroy (the six lists)
  recorded,     \* the resources each slot's command buffer uses
  frames,       \* slots whose last submission the device has not finished
  live,         \* resources that exist
  thread,       \* where each other thread is
  own,          \* the resources of a thread's compute work
  computing,    \* threads whose compute submission the device has not finished
  pendingDraws, \* PENDING_DRAWS
  cached,       \* cached_draw_call, 0 when there is none
  drawn,        \* number of the last draw queued
  drawing,      \* the draw each slot's command buffer replays
  rendered,     \* history: the latest draw the device has finished rendering
  skipped       \* history: slots with a frame that reset its fence and ended early

submissionVars == <<frames, computing, rendered>>
slotVars       == <<current, fence, deferred, recorded, drawing, skipped>>
userVars       == <<thread, own>>
drawVars       == <<pendingDraws, cached, drawn>>
frameVars      == <<ctx, main, slotVars, submissionVars, live, userVars, drawVars>>

Slots == 0 .. MaxFramesInFlight - 1
Draws == 0 .. MaxQueued

FrameTypeOK ==
  /\ ctx \in Users \cup {Main, Free}
  /\ main \in {"idle", "waitFence", "acquire", "record", "submit", "present"}
  /\ current \in Slots
  /\ fence \in [Slots -> BOOLEAN]
  /\ deferred \in [Slots -> SUBSET Resources]
  /\ recorded \in [Slots -> SUBSET Resources]
  /\ frames \subseteq Slots
  /\ live \subseteq Resources
  /\ thread \in [Users -> {"idle", "submit", "waitFence"}]
  /\ own \in [Users -> SUBSET Resources]
  /\ computing \subseteq Users
  /\ pendingDraws \in Seq(Draws)
  /\ cached \in Draws /\ drawn \in Draws /\ rendered \in Draws
  /\ drawing \in [Slots -> Draws]
  /\ skipped \subseteq Slots

\* VulkanContext::new creates the fences signalled and the lists empty.
FrameInit ==
  /\ ctx = Free
  /\ main = "idle"
  /\ current = 0
  /\ fence = [s \in Slots |-> TRUE]
  /\ deferred = [s \in Slots |-> {}]
  /\ recorded = [s \in Slots |-> {}]
  /\ frames = {}
  /\ live = {}
  /\ thread = [t \in Users |-> "idle"]
  /\ own = [t \in Users |-> {}]
  /\ computing = {}
  /\ pendingDraws = << >>
  /\ cached = 0 /\ drawn = 0 /\ rendered = 0
  /\ drawing = [s \in Slots |-> 0]
  /\ skipped = {}

-------------------------------------------------------------------------------
\* render_frame, called by the main loop with VULKAN_CONTEXT held

BeginFrame ==
  /\ main = "idle"
  /\ ctx = Free
  /\ ctx' = Main
  /\ main' = "waitFence"
  /\ UNCHANGED <<slotVars, submissionVars, live, userVars, drawVars>>

\* What the slot's last frame left behind goes once its fence is signalled;
\* then the fence is reset.

\* Defect: the lists of the next slot are drained.
ReuseNextSlot ==
  LET next == (current + 1) % MaxFramesInFlight IN
  /\ main = "waitFence"
  /\ fence[current]
  /\ live' = live \ deferred[next]
  /\ deferred' = [deferred EXCEPT ![next] = {}]
  /\ fence' = [fence EXCEPT ![current] = FALSE]
  /\ main' = "acquire"
  /\ UNCHANGED <<ctx, current, recorded, drawing, skipped, submissionVars, userVars, drawVars>>

ReuseSlot ==
  /\ main = "waitFence"
  /\ fence[current]
  /\ live' = live \ deferred[current]
  /\ deferred' = [deferred EXCEPT ![current] = {}]
  /\ fence' = [fence EXCEPT ![current] = FALSE]
  /\ main' = "acquire"
  /\ UNCHANGED <<ctx, current, recorded, drawing, skipped, submissionVars, userVars, drawVars>>

AcquireImage ==
  /\ main = "acquire"
  /\ main' = "record"
  /\ UNCHANGED <<ctx, slotVars, submissionVars, live, userVars, drawVars>>

\* An out-of-date swapchain ends the frame, and so does any other error: the
\* slot stays current and its fence has been reset.
AcquireFails ==
  /\ main = "acquire"
  /\ main' = "idle"
  /\ ctx' = Free
  /\ skipped' = skipped \cup {current}
  /\ UNCHANGED <<current, fence, deferred, recorded, drawing, submissionVars, live, userVars, drawVars>>

\* Defect: the oldest pending draw is the one kept.
OldestPending == IF pendingDraws = << >> THEN cached ELSE Head(pendingDraws)

\* Draining PENDING_DRAWS keeps the last of them for this and later frames.
LatestPending == IF pendingDraws = << >> THEN cached ELSE pendingDraws[Len(pendingDraws)]

\* The replay creates what the draw's addresses call for, from nothing to a
\* vertex, an index and a constant buffer, a texture and a pool.
Record ==
  /\ main = "record"
  /\ pendingDraws' = << >>
  /\ cached' = LatestPending
  /\ \E rs \in SUBSET (Resources \ live) :
       /\ LatestPending = 0 => rs = {}
       /\ live' = live \cup rs
       /\ recorded' = [recorded EXCEPT ![current] = rs]
       /\ deferred' = [deferred EXCEPT ![current] = @ \cup rs]
  /\ drawing' = [drawing EXCEPT ![current] = LatestPending]
  /\ main' = "submit"
  /\ UNCHANGED <<ctx, current, fence, skipped, submissionVars, userVars, drawn>>

\* Defect: the context is released before the frame is presented.
SubmitReleasing ==
  /\ main = "submit"
  /\ frames' = frames \cup {current}
  /\ main' = "present"
  /\ ctx' = Free
  /\ UNCHANGED <<slotVars, computing, rendered, live, userVars, drawVars>>

Submit ==
  /\ main = "submit"
  /\ frames' = frames \cup {current}
  /\ main' = "present"
  /\ UNCHANGED <<ctx, slotVars, computing, rendered, live, userVars, drawVars>>

\* A presentation that fails leaves the slot current; its fence will be
\* signalled all the same.
Present ==
  /\ main = "present"
  /\ \/ current' = (current + 1) % MaxFramesInFlight
     \/ current' = current
  /\ main' = "idle"
  /\ ctx' = Free
  /\ UNCHANGED <<fence, deferred, recorded, drawing, skipped, submissionVars, live, userVars, drawVars>>

-------------------------------------------------------------------------------
\* Other users of the device

\* dispatch_draw_for_state with the context held: the draw is queued, or its
\* pipeline does not compile and the draw is dropped, which changes nothing.
QueueDraw(t) ==
  /\ thread[t] = "idle"
  /\ ctx = Free
  /\ drawn < MaxQueued
  /\ drawn' = drawn + 1
  /\ pendingDraws' = Append(pendingDraws, drawn + 1)
  /\ UNCHANGED <<ctx, main, slotVars, submissionVars, live, userVars, cached>>

\* execute_general_compute_dispatch and execute_compute_job: fresh resources,
\* a submission with a fence of its own, the wait, the destruction.
BeginCompute(t) ==
  /\ thread[t] = "idle"
  /\ ctx = Free
  /\ ctx' = t
  /\ \E r \in Resources \ live :
       /\ live' = live \cup {r}
       /\ own' = [own EXCEPT ![t] = {r}]
  /\ thread' = [thread EXCEPT ![t] = "submit"]
  /\ UNCHANGED <<main, slotVars, submissionVars, drawVars>>

SubmitCompute(t) ==
  /\ thread[t] = "submit"
  /\ computing' = computing \cup {t}
  /\ thread' = [thread EXCEPT ![t] = "waitFence"]
  /\ UNCHANGED <<ctx, main, slotVars, frames, rendered, live, own, drawVars>>

EndCompute(t) ==
  /\ thread[t] = "waitFence"
  /\ t \notin computing
  /\ live' = live \ own[t]
  /\ own' = [own EXCEPT ![t] = {}]
  /\ thread' = [thread EXCEPT ![t] = "idle"]
  /\ ctx' = Free
  /\ UNCHANGED <<main, slotVars, submissionVars, drawVars>>

-------------------------------------------------------------------------------
\* The device

FinishFrame(s) ==
  /\ s \in frames
  /\ frames' = frames \ {s}
  /\ fence' = [fence EXCEPT ![s] = TRUE]
  /\ rendered' = IF drawing[s] > rendered THEN drawing[s] ELSE rendered
  /\ UNCHANGED <<ctx, main, current, deferred, recorded, drawing, skipped, computing, live, userVars, drawVars>>

FinishWork(t) ==
  /\ t \in computing
  /\ computing' = computing \ {t}
  /\ UNCHANGED <<ctx, main, slotVars, frames, rendered, live, userVars, drawVars>>

-------------------------------------------------------------------------------
RestOfFrame ==
  ReuseSlot \/ AcquireImage \/ AcquireFails \/ Record \/ Submit \/ Present

Compute(t) == SubmitCompute(t) \/ EndCompute(t)

Device == (\E s \in Slots : FinishFrame(s)) \/ \E t \in Users : FinishWork(t)

FrameNext ==
  \/ BeginFrame
  \/ RestOfFrame
  \/ \E t \in Users : QueueDraw(t) \/ BeginCompute(t) \/ Compute(t)
  \/ Device

FrameSpec == FrameInit /\ [][FrameNext]_frameVars

\* The host schedules its threads, the device finishes what it was given, and
\* the mutex of VULKAN_CONTEXT does not keep the main thread out for ever while
\* others take it in turns.
FairFrameSpec ==
  /\ FrameSpec
  /\ SF_frameVars(BeginFrame)
  /\ WF_frameVars(RestOfFrame)
  /\ \A t \in Users : WF_frameVars(Compute(t))
  /\ \A s \in Slots : WF_frameVars(FinishFrame(s))
  /\ \A t \in Users : WF_frameVars(FinishWork(t))

-------------------------------------------------------------------------------
\* No buffer, image or pool is destroyed while a submission the device has not
\* finished still uses it: the fence of a slot is the only thing that keeps the
\* deferred destruction of a frame's temporary resources safe (render_frame),
\* and a thread's own fence keeps that of its compute work.
NoUseAfterDestroy ==
  /\ \A s \in frames : recorded[s] \subseteq live
  /\ \A t \in computing : own[t] \subseteq live

\* Nothing leaks: whatever exists is on a slot's list or in the hands of a
\* thread, also when a frame ends early (render_frame's early returns).
NothingLeaks ==
  \A r \in live :
    \/ \E s \in Slots : r \in deferred[s]
    \/ \E t \in Users : r \in own[t]

\* A resource lives exactly as long as somebody may use it: not destroyed under the
\* device, and not forgotten (render_frame, execute_general_compute_dispatch).
ResourcesOutliveTheirUse == NoUseAfterDestroy /\ NothingLeaks

\* The command buffer, the semaphores and the fence of a slot are used for a
\* new frame only when the device has finished the slot's last one.
SlotIsFree ==
  main \in {"acquire", "record", "submit"} => current \notin frames

\* Vulkan wants one thread at a time at the queue.  A frame is presented
\* without SUBMIT_MUTEX (render_frame): what keeps compute submissions away is
\* VULKAN_CONTEXT alone.
OneAtTheQueue ==
  /\ \A t \in Users : main \in {"submit", "present"} => thread[t] # "submit"
  /\ \A t, u \in Users : thread[t] = "submit" /\ thread[u] = "submit" => t = u

\* The picture never goes back to an earlier draw, whatever draws arrived
\* since the last frame: each frame replays the latest of them.
LatestDrawIsRecorded ==
  [][\A s \in Slots :
       drawing'[s] # drawing[s] => drawing'[s] = drawn /\ cached' = drawn]_frameVars

\* A fence is unsignalled for one of three reasons: the device has still to
\* finish its slot's frame, that frame is being prepared, or an earlier one
\* ended between the reset and the submission (render_frame's early returns).
UnsignalledIsExplained ==
  \A s \in Slots :
    ~fence[s] => \/ s \in frames
                 \/ s = current /\ main \in {"acquire", "record", "submit"}
                 \/ s \in skipped

\* The device is used in turn: one thread at its queue, and a fence waited for is
\* signalled unless an early return of render_frame gave it up.
DeviceIsUsedInTurn == OneAtTheQueue /\ UnsignalledIsExplained

\* The fence a frame waits for is signalled or will be ("Wait for previous
\* operations to complete on the current frame's fences").
FenceWaitEnds == main = "waitFence" => fence[current] \/ current \in frames

\* As long as images can be acquired, every draw the guest queues, or one
\* after it, is rendered, although frames, draws and compute work compete for
\* the context and presenting may fail.
DrawsAreRendered ==
  \A d \in 1 .. MaxQueued : drawn = d ~> (rendered >= d \/ skipped # {})

\* As long as images can be acquired, whoever takes the context gives it back.
ContextIsReleased == (ctx # Free) ~> (ctx = Free \/ skipped # {})

\* What the guest draws gets to the screen, never after a later picture, and whoever
\* has the device gives it back.
DrawsReachTheScreen == LatestDrawIsRecorded /\ DrawsAreRendered /\ ContextIsReleased
===============================================================================
