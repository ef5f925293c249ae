---------------------------- MODULE MemoryTracker -----------------------------
(***************************************************************************)
(* Write-watching guest memory (src/src/memory_tracker.rs).                *)
(*                                                                         *)
(* Mapped direct memory is protected read-only.  The first write to a page *)
(* faults; the SIGSEGV handler, on the writing thread and without the lock,*)
(* looks the page up in a raw copy of the list of ranges, marks it dirty   *)
(* and makes it writable; the write is tried again.  Once per frame the    *)
(* main thread reports the dirty pages, clears their marks and protects    *)
(* them again, under the lock.  Guest threads register ranges at any time. *)
(*                                                                         *)
(* A registration is named by its number; the number stands for its entry  *)
(* in the lists and for its heap block of dirty flags.  Pages hold the     *)
(* number of the last write to them.                                       *)
(***************************************************************************)
EXTENDS Integers, Sequences, SequencesExt

CONSTANTS
  Guests,             \* guest threads
  Pages,              \* pages of guest memory
  Ranges,             \* the ranges that get registered, sets of pages
  MaxRegistrations,   \* bound: registrations
  MaxWrites,          \* bound: writes to one page
  Main,               \* the main thread
  Free                \* nobody holds the lock

ASSUME RangesAssumption == \A r \in Ranges : r \subseteq Pages
ASSUME TrackerBounds == MaxRegistrations \in Nat /\ MaxWrites \in Nat
ASSUME TrackerHolders == Main \notin Guests /\ Free \notin Guests \cup {Main}

VARIABLES
  mem,      \* contents of the pages
  prot,     \* their protection: "rw" or "ro"
  lock,     \* who holds TRACKER_STATE
  ranges,   \* TRACKER_STATE.ranges
  raw,      \* TRACKER_STATE_RAW_RANGES
  buffer,   \* number of raw's heap buffer: each assignment frees the last one
  made,     \* number of registrations so far
  covers,   \* the pages of each registration
  dirty,    \* the dirty pages of each registration
  freed,    \* registrations whose flags have been freed
  gpc,      \* where each guest thread is
  page,     \* the page it writes
  entry,    \* the registration its call or its handler works on
  seen,     \* the heap buffer its handler iterates over
  spc,      \* where sync_dirty_ranges is
  todo,     \* the flags it has still to look at
  item,     \* the flag it has found set
  synced,   \* history: the contents last reported for each page
  quiet,    \* history: the thread's fault has met no synchronisation of its page
  caught    \* history: the last write to each page that faulted quietly

memVars   == <<mem, prot>>
listVars  == <<ranges, raw, buffer, made, covers>>
guestVars == <<gpc, page, entry, seen>>
syncVars  == <<spc, todo, item>>
histVars  == <<synced, quiet, caught>>
vars == <<memVars, lock, listVars, dirty, freed, guestVars, syncVars, histVars>>

Registrations == 1 .. MaxRegistrations
Contents      == 0 .. MaxWrites
Flags         == Registrations \X Pages
None          == 0

TypeOK ==
  /\ mem \in [Pages -> Contents] /\ prot \in [Pages -> {"rw", "ro"}]
  /\ lock \in Guests \cup {Main, Free}
  /\ ranges \in Seq(Registrations) /\ raw \in Seq(Registrations)
  /\ buffer \in Nat /\ made \in 0 .. MaxRegistrations
  /\ covers \in [Registrations -> SUBSET Pages]
  /\ dirty \in [Registrations -> SUBSET Pages]
  /\ freed \subseteq Registrations
  /\ gpc \in [Guests -> {"idle", "fault", "find", "mark", "unprotect", "retry",
                         "protect", "free", "publish", "killed", "astray"}]
  /\ page \in [Guests -> Pages \cup {None}]
  /\ entry \in [Guests -> Registrations \cup {None}]
  /\ seen \in [Guests -> Nat]
  /\ spc \in {"idle", "looking", "report", "clear", "protect"}
  /\ todo \subseteq Flags /\ item \in Flags \cup {<< >>}
  /\ synced \in [Pages -> Contents] /\ caught \in [Pages -> Contents]
  /\ quiet \in [Guests -> BOOLEAN]

Init ==
  /\ mem = [p \in Pages |-> 0] /\ prot = [p \in Pages |-> "rw"]
  /\ lock = Free
  /\ ranges = << >> /\ raw = << >> /\ buffer = 0 /\ made = 0
  /\ covers = [n \in Registrations |-> {}]
  /\ dirty = [n \in Registrations |-> {}]
  /\ freed = {}
  /\ gpc = [g \in Guests |-> "idle"]
  /\ page = [g \in Guests |-> None]
  /\ entry = [g \in Guests |-> None] /\ seen = [g \in Guests |-> 0]
  /\ spc = "idle" /\ todo = {} /\ item = << >>
  /\ synced = mem /\ caught = mem
  /\ quiet = [g \in Guests |-> FALSE]

\* A thread is "killed" when its write is answered with the default action of
\* SIGSEGV and "astray" when its handler has read memory that was freed; nothing
\* is promised of what comes after, and behaviours end there.
Runs == \A g \in Guests : gpc[g] \notin {"killed", "astray"}

GoTo(g, where)    == gpc' = [gpc EXCEPT ![g] = where]
Protect(ps, how)  == prot' = [p \in Pages |-> IF p \in ps THEN how ELSE prot[p]]
Watched(p)        == \E n \in ToSet(ranges) : p \in covers[n]
Synchronising(p)  == spc \in {"report", "clear", "protect"} /\ item[2] = p

-------------------------------------------------------------------------------
\* A guest thread writes

Store(g, p) ==
  /\ mem[p] < MaxWrites
  /\ prot[p] = "rw"
  /\ mem' = [mem EXCEPT ![p] = @ + 1]

Write(g, p) ==
  /\ Runs
  /\ gpc[g] = "idle"
  /\ Store(g, p)
  /\ UNCHANGED <<prot, lock, listVars, dirty, freed, guestVars, syncVars, histVars>>

\* A write to a protected page, new or tried again, raises SIGSEGV.
Fault(g, p) ==
  /\ Runs
  /\ \/ gpc[g] = "idle" /\ mem[p] < MaxWrites
     \/ gpc[g] = "retry" /\ page[g] = p
  /\ prot[p] = "ro"
  /\ page' = [page EXCEPT ![g] = p]
  /\ quiet' = [quiet EXCEPT ![g] = ~Synchronising(p)]
  /\ GoTo(g, "fault")
  /\ UNCHANGED <<memVars, lock, listVars, dirty, freed, entry, seen, syncVars, synced, caught>>

\* The handler starts to iterate over the raw ranges.
BeginLookup(g) ==
  /\ Runs
  /\ gpc[g] = "fault"
  /\ seen' = [seen EXCEPT ![g] = buffer]
  /\ GoTo(g, "find")
  /\ UNCHANGED <<memVars, lock, listVars, dirty, freed, page, entry, syncVars, histVars>>

\* The first range that holds the page, if there is one; with no earlier
\* handler to turn to, the default action of SIGSEGV is restored.
FindEntry(g) ==
  /\ Runs
  /\ gpc[g] = "find"
  /\ seen' = [seen EXCEPT ![g] = 0]
  /\ \/ seen[g] # buffer /\ GoTo(g, "astray") /\ entry' = entry
     \/ /\ seen[g] = buffer
        /\ \E k \in DOMAIN raw :
             /\ page[g] \in covers[raw[k]]
             /\ \A j \in 1 .. k - 1 : page[g] \notin covers[raw[j]]
             /\ entry' = [entry EXCEPT ![g] = raw[k]]
        /\ GoTo(g, "mark")
     \/ /\ seen[g] = buffer
        /\ \A n \in ToSet(raw) : page[g] \notin covers[n]
        /\ GoTo(g, "killed") /\ entry' = entry
  /\ UNCHANGED <<memVars, lock, listVars, dirty, freed, page, syncVars, histVars>>

Mark(g) ==
  /\ Runs
  /\ gpc[g] = "mark"
  /\ IF entry[g] \in freed
       THEN GoTo(g, "astray") /\ dirty' = dirty
       ELSE /\ GoTo(g, "unprotect")
            /\ dirty' = [dirty EXCEPT ![entry[g]] = @ \cup {page[g]}]
  /\ entry' = [entry EXCEPT ![g] = None]
  /\ UNCHANGED <<memVars, lock, listVars, freed, page, seen, syncVars, histVars>>

Unprotect(g) ==
  /\ gpc[g] = "unprotect"
  /\ Protect({page[g]}, "rw")
  /\ GoTo(g, "retry")
  /\ UNCHANGED <<mem, lock, listVars, dirty, freed, page, entry, seen, syncVars, histVars>>

\* The write is tried again; a page protected anew faults once more.
Retry(g) ==
  /\ Runs
  /\ gpc[g] = "retry"
  /\ \/ Store(g, page[g])
     \/ mem[page[g]] = MaxWrites /\ prot[page[g]] = "rw" /\ mem' = mem
  /\ caught' = [caught EXCEPT ![page[g]] = IF quiet[g] THEN mem'[page[g]] ELSE @]
  /\ page' = [page EXCEPT ![g] = None]
  /\ quiet' = [quiet EXCEPT ![g] = FALSE]
  /\ GoTo(g, "idle")
  /\ UNCHANGED <<prot, lock, listVars, dirty, freed, entry, seen, syncVars, synced>>

-------------------------------------------------------------------------------
\* register_range: the range is published before its memory is protected.

\* Defect: the raw ranges are not updated.
RegisterUnpublished(g, r) ==
  /\ Runs
  /\ gpc[g] = "idle"
  /\ lock = Free
  /\ made < MaxRegistrations
  /\ lock' = g
  /\ made' = made + 1
  /\ covers' = [covers EXCEPT ![made + 1] = r]
  /\ ranges' = Append(ranges, made + 1)
  /\ entry' = [entry EXCEPT ![g] = made + 1]
  /\ GoTo(g, "protect")
  /\ UNCHANGED <<memVars, raw, buffer, dirty, freed, page, seen, syncVars, histVars>>

Register(g, r) ==
  /\ Runs
  /\ gpc[g] = "idle"
  /\ lock = Free
  /\ made < MaxRegistrations
  /\ lock' = g
  /\ made' = made + 1
  /\ covers' = [covers EXCEPT ![made + 1] = r]
  /\ ranges' = Append(ranges, made + 1)
  /\ raw' = Append(ranges, made + 1)
  /\ buffer' = buffer + 1
  /\ entry' = [entry EXCEPT ![g] = made + 1]
  /\ GoTo(g, "protect")
  /\ UNCHANGED <<memVars, dirty, freed, page, seen, syncVars, histVars>>

\* What a page holds when its watch begins counts as known.
ProtectRange(g) ==
  LET r == covers[entry[g]]
      others == {n \in ToSet(ranges) : n # entry[g]}
  IN
  /\ gpc[g] = "protect"
  /\ Protect(r, "ro")
  /\ synced' = [p \in Pages |->
       IF p \in r /\ ~\E n \in others : p \in covers[n] THEN mem[p] ELSE synced[p]]
  /\ lock' = Free
  /\ entry' = [entry EXCEPT ![g] = None]
  /\ GoTo(g, "idle")
  /\ UNCHANGED <<mem, listVars, dirty, freed, page, seen, syncVars, quiet, caught>>

\* unregister_range: the memory is made writable, the flags are freed, and then
\* the raw ranges are replaced.

\* Nothing is promised of the faults of pages whose watch ends.
Forget(n) ==
  /\ caught' = [p \in Pages |-> IF p \in covers[n] THEN 0 ELSE caught[p]]
  /\ quiet' = [g \in Guests |-> quiet[g] /\ page[g] \notin covers[n]]

Unregister(g, n) ==
  /\ Runs
  /\ gpc[g] = "idle"
  /\ lock = Free
  /\ lock' = g
  /\ \E pos \in DOMAIN ranges : ranges[pos] = n /\ ranges' = RemoveAt(ranges, pos)
  /\ Protect(covers[n], "rw")
  /\ entry' = [entry EXCEPT ![g] = n]
  /\ Forget(n)
  /\ GoTo(g, "free")
  /\ UNCHANGED <<mem, raw, buffer, made, covers, dirty, freed, page, seen, syncVars, synced>>

FreeFlags(g) ==
  /\ gpc[g] = "free"
  /\ freed' = freed \cup {entry[g]}
  /\ GoTo(g, "publish")
  /\ UNCHANGED <<memVars, lock, listVars, dirty, page, entry, seen, syncVars, histVars>>

Publish(g) ==
  /\ gpc[g] = "publish"
  /\ raw' = ranges
  /\ buffer' = buffer + 1
  /\ lock' = Free
  /\ entry' = [entry EXCEPT ![g] = None]
  /\ GoTo(g, "idle")
  /\ UNCHANGED <<memVars, ranges, made, covers, dirty, freed, page, seen, syncVars, histVars>>

-------------------------------------------------------------------------------
\* sync_dirty_ranges, on the main thread

syncFrame == <<listVars, freed, guestVars>>

BeginSync ==
  /\ Runs
  /\ spc = "idle"
  /\ lock = Free
  /\ lock' = Main
  /\ spc' = "looking"
  /\ todo' = {f \in Flags : f[1] \in ToSet(ranges) /\ f[2] \in covers[f[1]]}
  /\ UNCHANGED <<memVars, dirty, item, histVars, syncFrame>>

Look(f) ==
  /\ spc = "looking"
  /\ f \in todo
  /\ todo' = todo \ {f}
  /\ IF f[2] \in dirty[f[1]]
       THEN /\ spc' = "report"
            /\ item' = f
            /\ quiet' = [g \in Guests |-> quiet[g] /\ page[g] # f[2]]
       ELSE UNCHANGED <<spc, item, quiet>>
  /\ UNCHANGED <<memVars, lock, dirty, synced, caught, syncFrame>>

Report ==
  /\ spc = "report"
  /\ synced' = [synced EXCEPT ![item[2]] = mem[item[2]]]
  /\ spc' = "clear"
  /\ UNCHANGED <<memVars, lock, dirty, todo, item, quiet, caught, syncFrame>>

\* Defect: the flags of the whole range are cleared with the page's.
ClearRange ==
  /\ spc = "clear"
  /\ dirty' = [dirty EXCEPT ![item[1]] = {}]
  /\ spc' = "protect"
  /\ UNCHANGED <<memVars, lock, todo, item, histVars, syncFrame>>

Clear ==
  /\ spc = "clear"
  /\ dirty' = [dirty EXCEPT ![item[1]] = @ \ {item[2]}]
  /\ spc' = "protect"
  /\ UNCHANGED <<memVars, lock, todo, item, histVars, syncFrame>>

Reprotect ==
  /\ spc = "protect"
  /\ Protect({item[2]}, "ro")
  /\ spc' = "looking"
  /\ item' = << >>
  /\ UNCHANGED <<mem, lock, dirty, todo, histVars, syncFrame>>

EndSync ==
  /\ spc = "looking"
  /\ todo = {}
  /\ spc' = "idle"
  /\ lock' = Free
  /\ UNCHANGED <<memVars, dirty, todo, item, histVars, syncFrame>>

-------------------------------------------------------------------------------
Guest(g) ==
  \/ \E p \in Pages : Write(g, p) \/ Fault(g, p)
  \/ BeginLookup(g) \/ FindEntry(g) \/ Mark(g) \/ Unprotect(g) \/ Retry(g)
  \/ \E r \in Ranges : Register(g, r)
  \/ \E n \in Registrations : Unregister(g, n)
  \/ ProtectRange(g) \/ FreeFlags(g) \/ Publish(g)

Sync ==
  \/ BeginSync \/ \E f \in Flags : Look(f)
  \/ Report \/ Clear \/ Reprotect \/ EndSync

Next == Sync \/ \E g \in Guests : Guest(g)

Spec == Init /\ [][Next]_vars

-------------------------------------------------------------------------------
\* The handler lets a fault through to the default action, which kills the
\* process, only when nobody watches the page any more, however registrations,
\* unregistrations, synchronisations and faults interleave: each publishes and
\* protects in an order of its own (sigsegv_handler, register_range).
FaultsAreHandled == \A g \in Guests : gpc[g] = "killed" => ~Watched(page[g])

\* A write that faults while its page is not being synchronised is reported by
\* the next synchronisation of the page or has been reported, whatever other
\* writers, ranges and faults do (sigsegv_handler, sync_dirty_ranges).
QuietWritesAreReported ==
  \A p \in Pages :
    \/ caught[p] <= synced[p]
    \/ \E n \in ToSet(ranges) : p \in dirty[n]

\* "Since registration/unregistration are rare and happen under lock, reading
\* the ranges is safe" (sigsegv_handler): no handler reads a buffer that has
\* been freed.
NoUseAfterFree == \A g \in Guests : gpc[g] # "astray"
===============================================================================
