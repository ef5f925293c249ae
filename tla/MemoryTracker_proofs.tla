------------------------- MODULE MemoryTracker_proofs -------------------------
(***************************************************************************)
(* Theorems of MemoryTracker, for any threads, pages, ranges and bounds.   *)
(*                                                                         *)
(* The handler takes no lock; what makes it safe is an agreement between   *)
(* four actors.  The invariant says, in parts: who holds the lock; which   *)
(* registrations the lists can name; that the only range a handler can     *)
(* still find after its registration ended is writable, so that no new     *)
(* fault looks for it; where a quiet fault has left its mark; and that a   *)
(* synchronisation reports what a page holds before it forgets the mark.   *)
(***************************************************************************)
EXTENDS MemoryTracker, TLAPS, SequenceTheorems

USE DEF Registrations, Contents, Flags, None

InCall  == {"fault", "find", "mark", "unprotect", "retry"}
Updates == {"protect", "free", "publish"}
AtFlag  == {"report", "clear", "protect"}

\* The lock is held through registration, unregistration and synchronisation.
LockInv ==
  /\ \A g \in Guests : lock = g <=> gpc[g] \in Updates
  /\ lock = Main <=> spc # "idle"

\* The lists name registrations that were made; the handler finds all that are watched;
\* only pages of a range have flags.
NamesInv ==
  /\ ToSet(ranges) \subseteq ToSet(raw)
  /\ \A n \in ToSet(raw) : n <= made
  /\ \A n \in Registrations : dirty[n] \subseteq covers[n] /\ (n > made => covers[n] = {})

\* What a thread works on.
CallOK(g) ==
  /\ gpc[g] \in InCall => page[g] \in Pages
  /\ gpc[g] \in {"mark"} \cup Updates => entry[g] \in 1 .. made
  /\ gpc[g] = "mark" => page[g] \in covers[entry[g]]

CallsInv ==
  /\ \A g \in Guests : CallOK(g)
  /\ spc \in AtFlag => item \in Flags

\* The registration that is being ended.
Leaving(n) == \E g \in Guests : gpc[g] \in {"free", "publish"} /\ entry[g] = n

\* A handler finds registrations in force and the one that is being ended; the pages of that
\* one are writable, and no quiet fault is about one of them.
LeavingInv ==
  /\ \A n \in ToSet(raw) \ ToSet(ranges) : Leaving(n)
  /\ \A n \in Registrations : Leaving(n) =>
       /\ \A p \in covers[n] : prot[p] = "rw"
       /\ \A g \in Guests : quiet[g] => page[g] \notin covers[n]

\* A quiet fault is about a watched page, and its mark stays until the write.
QuietOK(g) ==
  quiet[g] =>
    /\ gpc[g] \in InCall \cup {"killed", "astray"}
    /\ gpc[g] = "mark" => entry[g] \in ToSet(ranges)
    /\ gpc[g] \in {"unprotect", "retry"} => \E n \in ToSet(ranges) : page[g] \in dirty[n]

QuietInv == \A g \in Guests : QuietOK(g)

\* While a flag is dealt with, no quiet fault is about its page; what was reported last is
\* no older than the last quiet write.
SyncInv ==
  /\ spc \in AtFlag => \A g \in Guests : quiet[g] => page[g] # item[2]
  /\ spc \in {"clear", "protect"} => caught[item[2]] <= synced[item[2]]

CaughtInv == \A p \in Pages : caught[p] <= mem[p]

Inv ==
  /\ TypeOK /\ LockInv /\ NamesInv /\ CallsInv /\ LeavingInv
  /\ QuietInv /\ SyncInv /\ CaughtInv /\ QuietWritesAreReported

(***************************************************************************)
(* What the operations on the lists do to the registrations listed.        *)
(***************************************************************************)
LEMMA Listed ==
  ASSUME NEW S, NEW s \in Seq(S)
  PROVE  /\ Len(s) \in Nat /\ DOMAIN s = 1 .. Len(s)
         /\ \A i \in 1 .. Len(s) : s[i] \in S
         /\ ToSet(s) \subseteq S
BY LenProperties, ElementOfSeq DEF ToSet

\* Appending lists one more.
LEMMA PushLists ==
  ASSUME NEW S, NEW s \in Seq(S), NEW x \in S
  PROVE  Append(s, x) \in Seq(S) /\ ToSet(Append(s, x)) = ToSet(s) \cup {x}
<1> DEFINE n == Len(s)
           a == Append(s, x)
<1>1. /\ n \in Nat /\ DOMAIN s = 1 .. n
      /\ a \in Seq(S) /\ Len(a) = n + 1
      /\ \A i \in 1 .. n : a[i] = s[i]
      /\ a[n + 1] = x
  BY Listed, AppendProperties
<1>2. DOMAIN a = 1 .. n + 1
  BY <1>1, Listed
<1> HIDE DEF n, a
<1>3. ToSet(a) = ToSet(s) \cup {x}
  BY <1>1, <1>2 DEF ToSet
<1> QED
  BY <1>1, <1>3 DEF a

\* Removing takes one place out.
LEMMA RemoveLists ==
  ASSUME NEW S, NEW s \in Seq(S), NEW k \in DOMAIN s
  PROVE  /\ RemoveAt(s, k) \in Seq(S)
         /\ ToSet(RemoveAt(s, k)) \subseteq ToSet(s)
         /\ ToSet(s) \subseteq ToSet(RemoveAt(s, k)) \cup {s[k]}
<1> DEFINE n == Len(s)
           f == SubSeq(s, 1, k - 1)
           g == SubSeq(s, k + 1, n)
           r == RemoveAt(s, k)
<1>1. n \in Nat /\ DOMAIN s = 1 .. n /\ (\A i \in 1 .. n : s[i] \in S) /\ k \in 1 .. n
  BY Listed
<1>2. /\ f \in Seq(S) /\ Len(f) = k - 1
      /\ \A i \in 1 .. k - 1 : f[i] = s[i]
  <2>1. \A i \in 1 .. k - 1 : s[i] \in S
    <3> HIDE DEF n
    <3> QED
      BY <1>1
  <2>2. 1 \in Int /\ k - 1 \in Int /\ k - 1 \in Nat
    <3> HIDE DEF n
    <3> QED
      BY <1>1
  <2>3. /\ f \in Seq(S) /\ Len(f) = (IF 1 <= k - 1 THEN k - 1 - 1 + 1 ELSE 0)
        /\ \A i \in 1 .. k - 1 - 1 + 1 : f[i] = s[1 + i - 1]
    BY <2>1, <2>2, SubSeqProperties
  <2> HIDE DEF n, f
  <2> QED
    BY <2>2, <2>3
<1>3. /\ g \in Seq(S) /\ Len(g) = n - k
      /\ \A i \in 1 .. n - k : g[i] = s[k + i]
  <2> HIDE DEF n
  <2>1. \A i \in k + 1 .. n : s[i] \in S
    BY <1>1
  <2>2. k + 1 \in Int /\ n \in Int
    BY <1>1
  <2>3. /\ g \in Seq(S) /\ Len(g) = (IF k + 1 <= n THEN n - (k + 1) + 1 ELSE 0)
        /\ \A i \in 1 .. n - (k + 1) + 1 : g[i] = s[k + 1 + i - 1]
    BY <2>1, <2>2, SubSeqProperties
  <2> HIDE DEF g
  <2>4. k + 1 <= n <=> ~(n - k = 0)
    BY <1>1
  <2>5. n - (k + 1) + 1 = n - k
    BY <1>1
  <2>6. \A i \in 1 .. n - k : k + 1 + i - 1 = k + i
    BY <1>1
  <2> QED
    BY <2>3, <2>4, <2>5, <2>6
<1>4. r \in Seq(S) /\ ToSet(r) = ToSet(f) \cup ToSet(g)
  <2>1. r = f \o g
    BY DEF RemoveAt
  <2> HIDE DEF f, g, n, r
  <2>2. f \o g \in Seq(S) /\ Range(f \o g) = Range(f) \cup Range(g)
    BY <1>2, <1>3, ConcatProperties, RangeConcatenation
  <2> QED
    BY <2>1, <2>2 DEF Range, ToSet
<1>5. DOMAIN f = 1 .. k - 1 /\ DOMAIN g = 1 .. n - k
  BY <1>2, <1>3, Listed
<1> HIDE DEF n, f, g, r
<1>6. ToSet(f) \subseteq ToSet(s) /\ ToSet(g) \subseteq ToSet(s)
  <2>1. \A i \in 1 .. k - 1 : i \in DOMAIN s /\ f[i] = s[i]
    BY <1>1, <1>2
  <2>2. \A i \in 1 .. n - k : k + i \in DOMAIN s /\ g[i] = s[k + i]
    BY <1>1, <1>3
  <2>3. ToSet(f) \subseteq ToSet(s)
    BY <1>5, <2>1 DEF ToSet
  <2>4. ToSet(g) \subseteq ToSet(s)
    BY <1>5, <2>2 DEF ToSet
  <2> QED
    BY <2>3, <2>4
<1>7. ASSUME NEW i \in 1 .. n, i # k PROVE s[i] \in ToSet(f) \cup ToSet(g)
  <2>1. CASE i < k
    <3>1. i \in 1 .. k - 1
      BY <1>1, <2>1
    <3> QED
      BY <1>2, <1>5, <3>1 DEF ToSet
  <2>2. CASE i > k
    <3>1. i - k \in 1 .. n - k /\ k + (i - k) = i
      BY <1>1, <2>2
    <3> QED
      BY <1>3, <1>5, <3>1 DEF ToSet
  <2> QED
    BY <1>1, <1>7, <2>1, <2>2
<1>8. ToSet(s) \subseteq ToSet(f) \cup ToSet(g) \cup {s[k]}
  BY <1>1, <1>7 DEF ToSet
<1> QED
  BY <1>4, <1>6, <1>8 DEF r
(***************************************************************************)
(* The invariant, part by part.                                            *)
(***************************************************************************)
\* The steps that change neither the lists nor the lock.
Handles(g) ==
  \/ \E p \in Pages : Write(g, p) \/ Fault(g, p)
  \/ BeginLookup(g) \/ FindEntry(g) \/ Mark(g) \/ Unprotect(g) \/ Retry(g)

Updating(g) ==
  \/ \E r \in Ranges : Register(g, r)
  \/ \E n \in Registrations : Unregister(g, n)
  \/ ProtectRange(g) \/ FreeFlags(g) \/ Publish(g)

\* The steps, those of the handler apart.
LEMMA Steps == Next <=> Sync \/ \E g \in Guests : Handles(g) \/ Updating(g)
BY DEF Next, Guest, Handles, Updating

\* The steps that leave the lists alone.
LEMMA ListsStay ==
  ASSUME Sync \/ \E g \in Guests : Handles(g) \/ ProtectRange(g) \/ FreeFlags(g)
  PROVE  UNCHANGED <<ranges, raw, made, covers>>
BY DEF Sync, BeginSync, Look, Report, Clear, Reprotect, EndSync, syncFrame, Handles, Write, Fault,
  BeginLookup, FindEntry, Mark, Unprotect, Retry, ProtectRange, FreeFlags, listVars

\* A registration is listed.
LEMMA RegisterLists ==
  ASSUME TypeOK, NEW g \in Guests, NEW r \in Ranges, Register(g, r)
  PROVE  /\ made + 1 \in Registrations /\ made' = made + 1 /\ raw' = ranges'
         /\ ranges' \in Seq(Registrations)
         /\ ToSet(ranges') = ToSet(ranges) \cup {made + 1}
         /\ covers' = [covers EXCEPT ![made + 1] = r] /\ r \in SUBSET Pages
<1>1. ranges \in Seq(Registrations) /\ made + 1 \in Registrations
  BY TrackerBounds DEF TypeOK, Register
<1>2. ranges' = Append(ranges, made + 1)
  BY DEF Register
<1>3. /\ Append(ranges, made + 1) \in Seq(Registrations)
      /\ ToSet(Append(ranges, made + 1)) = ToSet(ranges) \cup {made + 1}
  <2> HIDE DEF Registrations
  <2> QED
    BY <1>1, PushLists
<1> QED
  BY <1>1, <1>2, <1>3, RangesAssumption DEF Register

\* An unregistration takes its own off the list.
LEMMA UnregisterLists ==
  ASSUME TypeOK, NEW g \in Guests, NEW n \in Registrations, Unregister(g, n)
  PROVE  /\ UNCHANGED <<raw, made, covers>> /\ n \in ToSet(ranges)
         /\ ranges' \in Seq(Registrations)
         /\ ToSet(ranges') \subseteq ToSet(ranges) /\ ToSet(ranges) \subseteq ToSet(ranges') \cup {n}
<1>1. PICK pos \in DOMAIN ranges : ranges[pos] = n /\ ranges' = RemoveAt(ranges, pos)
  BY DEF Unregister
<1>2. ranges \in Seq(Registrations)
  BY DEF TypeOK
<1>3. /\ ranges' \in Seq(Registrations)
      /\ ToSet(ranges') \subseteq ToSet(ranges) /\ ToSet(ranges) \subseteq ToSet(ranges') \cup {n}
  BY <1>1, <1>2, RemoveLists
<1>4. n \in ToSet(ranges)
  BY <1>1 DEF ToSet
<1> QED
  BY <1>3, <1>4 DEF Unregister

\* A store changes one page.
LEMMA StoreTyped ==
  ASSUME TypeOK, NEW g, NEW p \in Pages, Store(g, p)
  PROVE  /\ mem' \in [Pages -> Contents] /\ mem' = [mem EXCEPT ![p] = @ + 1]
         /\ mem'[p] = mem[p] + 1
<1>1. mem[p] \in Contents /\ mem[p] < MaxWrites /\ mem \in [Pages -> Contents]
  BY DEF Store, TypeOK
<1>2. mem[p] + 1 \in Contents
  BY <1>1, TrackerBounds
<1> QED
  BY <1>1, <1>2 DEF Store

\* Every step keeps the type invariant.
LEMMA TypeStep ==
  ASSUME TypeOK, CallsInv, Next
  PROVE  TypeOK'
<1> USE DEF memVars, listVars, guestVars, syncVars, histVars, GoTo, Protect
<1>1. CASE Sync
  <2>1. CASE BeginSync \/ EndSync
    BY <2>1 DEF BeginSync, EndSync, syncFrame, TypeOK
  <2>2. ASSUME NEW f \in Flags, Look(f) PROVE TypeOK'
    <3>1. quiet' \in [Guests -> BOOLEAN]
      <4>1. quiet' = quiet \/ quiet' = [g \in Guests |-> quiet[g] /\ page[g] # f[2]]
        BY <2>2 DEF Look
      <4> QED
        BY <4>1 DEF TypeOK
    <3>2. /\ spc' \in {"idle", "looking", "report", "clear", "protect"}
          /\ todo' \subseteq Flags /\ item' \in Flags \cup {<< >>}
      BY <2>2 DEF Look, TypeOK
    <3> QED
      BY <2>2, <3>1, <3>2 DEF Look, syncFrame, TypeOK
  <2>3. CASE Report \/ Clear \/ Reprotect
    <3>1. item[1] \in Registrations /\ item[2] \in Pages
      <4>1. item \in Flags
        BY <2>3 DEF Report, Clear, Reprotect, AtFlag, CallsInv
      <4> QED
        BY <4>1
    <3>2. CASE Report
      <4>1. synced' \in [Pages -> Contents]
        BY <3>1, <3>2 DEF Report, TypeOK
      <4> QED
        BY <3>2, <4>1 DEF Report, syncFrame, TypeOK
    <3>3. CASE Clear
      <4>1. dirty' \in [Registrations -> SUBSET Pages]
        BY <3>1, <3>3 DEF Clear, TypeOK
      <4> QED
        BY <3>3, <4>1 DEF Clear, syncFrame, TypeOK
    <3>4. CASE Reprotect
      BY <3>4 DEF Reprotect, syncFrame, TypeOK
    <3> QED
      BY <2>3, <3>2, <3>3, <3>4
  <2> QED
    BY <1>1, <2>1, <2>2, <2>3 DEF Sync
<1>2. ASSUME NEW g \in Guests, Handles(g) PROVE TypeOK'
  <2>1. CallOK(g)
    BY DEF CallsInv
  <2>2. ASSUME NEW p \in Pages, Write(g, p) \/ Fault(g, p) PROVE TypeOK'
    <3>1. CASE Write(g, p)
      BY <3>1, StoreTyped DEF Write, TypeOK
    <3>2. CASE Fault(g, p)
      BY <3>2 DEF Fault, TypeOK
    <3> QED
      BY <2>2, <3>1, <3>2
  <2>3. CASE BeginLookup(g) \/ Unprotect(g)
    <3>1. CASE BeginLookup(g)
      BY <3>1 DEF BeginLookup, TypeOK
    <3>2. CASE Unprotect(g)
      BY <3>2 DEF Unprotect, TypeOK
    <3> QED
      BY <2>3, <3>1, <3>2
  <2>4. CASE FindEntry(g)
    <3>1. \A k \in DOMAIN raw : raw[k] \in Registrations
      <4>1. raw \in Seq(Registrations)
        BY DEF TypeOK
      <4> QED
        BY <4>1, Listed
    <3> QED
      BY <2>4, <3>1 DEF FindEntry, TypeOK
  <2>5. CASE Mark(g)
    <3>1. entry[g] \in Registrations /\ page[g] \in Pages
      BY <2>1, <2>5 DEF Mark, CallOK, InCall, Updates, TypeOK
    <3>2. dirty' \in [Registrations -> SUBSET Pages]
      <4>1. dirty' = dirty \/ dirty' = [dirty EXCEPT ![entry[g]] = @ \cup {page[g]}]
        BY <2>5 DEF Mark
      <4>2. dirty[entry[g]] \cup {page[g]} \in SUBSET Pages
        BY <3>1 DEF TypeOK
      <4> QED
        BY <3>1, <4>1, <4>2 DEF TypeOK
    <3> QED
      BY <2>5, <3>2 DEF Mark, TypeOK
  <2>6. CASE Retry(g)
    <3>1. page[g] \in Pages
      BY <2>1, <2>6 DEF Retry, CallOK, InCall
    <3>2. mem' \in [Pages -> Contents]
      BY <2>6, <3>1, StoreTyped DEF Retry, TypeOK
    <3>3. caught' \in [Pages -> Contents]
      BY <2>6, <3>1, <3>2 DEF Retry, TypeOK
    <3> QED
      BY <2>6, <3>2, <3>3 DEF Retry, TypeOK
  <2> QED
    BY <1>2, <2>2, <2>3, <2>4, <2>5, <2>6 DEF Handles
<1>3. ASSUME NEW g \in Guests, Updating(g) PROVE TypeOK'
  <2>1. CallOK(g)
    BY DEF CallsInv
  <2>2. ASSUME NEW r \in Ranges, Register(g, r) PROVE TypeOK'
    <3>1. /\ made + 1 \in Registrations /\ made' = made + 1
          /\ raw' = ranges' /\ ranges' \in Seq(Registrations)
          /\ covers' = [covers EXCEPT ![made + 1] = r] /\ r \in SUBSET Pages
      BY <2>2, RegisterLists
    <3>2. covers' \in [Registrations -> SUBSET Pages]
      BY <3>1 DEF TypeOK
    <3> QED
      BY <2>2, <3>1, <3>2, TrackerBounds DEF Register, TypeOK
  <2>3. ASSUME NEW n \in Registrations, Unregister(g, n) PROVE TypeOK'
    <3>1. ranges' \in Seq(Registrations)
      BY <2>3, UnregisterLists
    <3>2. quiet' \in [Guests -> BOOLEAN]
      <4>1. quiet' = [h \in Guests |-> quiet[h] /\ page[h] \notin covers[n]]
        BY <2>3 DEF Unregister, Forget
      <4> QED
        BY <4>1
    <3>3. caught' \in [Pages -> Contents]
      BY <2>3, TrackerBounds DEF Unregister, Forget, TypeOK
    <3>4. prot' \in [Pages -> {"rw", "ro"}]
      BY <2>3 DEF Unregister, TypeOK
    <3> QED
      BY <2>3, <3>1, <3>2, <3>3, <3>4 DEF Unregister, TypeOK
  <2>4. CASE ProtectRange(g)
    BY <2>4 DEF ProtectRange, TypeOK
  <2>5. CASE FreeFlags(g)
    <3>1. entry[g] \in Registrations
      BY <2>1, <2>5 DEF FreeFlags, CallOK, Updates, TypeOK
    <3> QED
      BY <2>5, <3>1 DEF FreeFlags, TypeOK
  <2>6. CASE Publish(g)
    BY <2>6 DEF Publish, TypeOK
  <2> QED
    BY <1>3, <2>2, <2>3, <2>4, <2>5, <2>6 DEF Updating
<1> QED
  BY <1>1, <1>2, <1>3, Steps

\* Every step keeps who holds the lock of the registrations.
LEMMA LockStep ==
  ASSUME TypeOK, LockInv, Next
  PROVE  LockInv'
<1> USE DEF guestVars, syncVars, GoTo, Updates
<1>1. CASE Sync
  BY <1>1, TrackerHolders DEF Sync, BeginSync, Look, Report, Clear, Reprotect, EndSync, syncFrame,
    LockInv, TypeOK
<1>2. ASSUME NEW g \in Guests, Handles(g) PROVE LockInv'
  <2>1. UNCHANGED <<lock, spc>> /\ gpc[g] \notin Updates /\ gpc'[g] \notin Updates
    BY <1>2 DEF Handles, Write, Fault, BeginLookup, FindEntry, Mark, Unprotect, Retry, TypeOK
  <2>2. \A h \in Guests : h # g => gpc'[h] = gpc[h]
    BY <1>2 DEF Handles, Write, Fault, BeginLookup, FindEntry, Mark, Unprotect, Retry, TypeOK
  <2> QED
    BY <2>1, <2>2 DEF LockInv
<1>3. ASSUME NEW g \in Guests, Updating(g) PROVE LockInv'
  <2>1. spc' = spc /\ \A h \in Guests : h # g => gpc'[h] = gpc[h]
    BY <1>3 DEF Updating, Register, Unregister, ProtectRange, FreeFlags, Publish, TypeOK
  <2>2. \/ lock = Free /\ lock' = g /\ gpc'[g] \in Updates
        \/ gpc[g] \in Updates /\ lock' = lock /\ gpc'[g] \in Updates
        \/ gpc[g] \in Updates /\ lock' = Free /\ gpc'[g] \notin Updates
    BY <1>3 DEF Updating, Register, Unregister, ProtectRange, FreeFlags, Publish, TypeOK
  <2> QED
    BY <2>1, <2>2, TrackerHolders DEF LockInv
<1> QED
  BY <1>1, <1>2, <1>3, Steps
\* Every step keeps what the lists name.
LEMMA NamesStep ==
  ASSUME TypeOK, NamesInv, CallsInv, Next
  PROVE  NamesInv'
<1>1. /\ \A n \in ToSet(raw) : n \in Registrations
      /\ \A n \in ToSet(ranges) : n \in Registrations /\ n \in ToSet(raw)
  BY Listed DEF TypeOK, NamesInv
<1>2. CASE UNCHANGED <<ranges, raw, made, covers>>
  <2>1. \A n \in Registrations : dirty'[n] \subseteq dirty[n] \cup covers[n]
    <3>1. CASE Sync
      <4>1. CASE Clear
        BY <4>1 DEF Clear, TypeOK
      <4>2. CASE ~Clear
        BY <3>1, <4>2 DEF Sync, BeginSync, Look, Report, Reprotect, EndSync
      <4> QED
        BY <4>1, <4>2
    <3>2. ASSUME NEW g \in Guests, Mark(g), NEW n \in Registrations
          PROVE  dirty'[n] \subseteq dirty[n] \cup covers[n]
      <4>1. page[g] \in covers[entry[g]]
        BY <3>2 DEF Mark, CallsInv, CallOK
      <4>2. dirty' = dirty \/ dirty' = [dirty EXCEPT ![entry[g]] = @ \cup {page[g]}]
        BY <3>2 DEF Mark
      <4>3. CASE n = entry[g]
        <5>1. dirty'[n] = dirty[n] \/ dirty'[n] = dirty[n] \cup {page[g]}
          BY <4>2, <4>3 DEF TypeOK
        <5> QED
          BY <4>1, <4>3, <5>1
      <4>4. CASE n # entry[g]
        <5>1. dirty'[n] = dirty[n]
          BY <4>2, <4>4 DEF TypeOK
        <5> QED
          BY <5>1
      <4> QED
        BY <4>3, <4>4
    <3>3. ASSUME NEW g \in Guests, Handles(g) \/ Updating(g), ~Mark(g) PROVE dirty' = dirty
      BY <3>3 DEF Handles, Write, Fault, BeginLookup, FindEntry, Unprotect, Retry,
        Updating, Register, Unregister, ProtectRange, FreeFlags, Publish
    <3> QED
      BY <3>1, <3>2, <3>3, Steps
  <2> QED
    BY <1>2, <2>1 DEF NamesInv
<1>3. ASSUME NEW g \in Guests, NEW r \in Ranges, Register(g, r) PROVE NamesInv'
  <2>1. /\ made + 1 \in Registrations /\ made' = made + 1 /\ raw' = ranges'
        /\ ToSet(ranges') = ToSet(ranges) \cup {made + 1}
        /\ covers' = [covers EXCEPT ![made + 1] = r]
    BY <1>3, RegisterLists
  <2>2. dirty' = dirty
    BY <1>3 DEF Register
  <2>3. \A n \in ToSet(raw') : n <= made'
    BY <1>1, <2>1 DEF NamesInv, TypeOK
  <2>4. ASSUME NEW n \in Registrations
        PROVE  dirty'[n] \subseteq covers'[n] /\ (n > made' => covers'[n] = {})
    <3>1. CASE n = made + 1
      <4>1. covers[n] = {} /\ dirty[n] = {}
        BY <3>1 DEF NamesInv, TypeOK
      <4> QED
        BY <2>1, <2>2, <3>1, <4>1 DEF TypeOK
    <3>2. CASE n # made + 1
      <4>1. covers'[n] = covers[n] /\ (n > made' => n > made)
        BY <2>1, <3>2 DEF TypeOK
      <4> QED
        BY <2>2, <4>1 DEF NamesInv
    <3> QED
      BY <3>1, <3>2
  <2> QED
    BY <2>1, <2>3, <2>4 DEF NamesInv
<1>4. ASSUME NEW g \in Guests, NEW n \in Registrations, Unregister(g, n) PROVE NamesInv'
  <2>1. UNCHANGED <<raw, made, covers>> /\ ToSet(ranges') \subseteq ToSet(ranges)
    BY <1>4, UnregisterLists
  <2>2. dirty' = dirty
    BY <1>4 DEF Unregister
  <2> QED
    BY <2>1, <2>2 DEF NamesInv
<1>5. ASSUME NEW g \in Guests, Publish(g) PROVE NamesInv'
  BY <1>1, <1>5 DEF Publish, NamesInv
<1> QED
  BY <1>2, <1>3, <1>4, <1>5, Steps, ListsStay DEF Updating

\* The pages and entries of the calls.
LEMMA OthersStay ==
  ASSUME TypeOK, NEW g \in Guests, Handles(g) \/ Updating(g), NEW h \in Guests, h # g
  PROVE  gpc'[h] = gpc[h] /\ page'[h] = page[h] /\ entry'[h] = entry[h] /\ (quiet'[h] => quiet[h])
<1>1. CASE Handles(g)
  BY <1>1 DEF Handles, Write, Fault, BeginLookup, FindEntry, Mark, Unprotect, Retry, guestVars,
    histVars, GoTo, TypeOK
<1>2. CASE Updating(g)
  BY <1>2 DEF Updating, Register, Unregister, Forget, ProtectRange, FreeFlags, Publish, histVars,
    GoTo, TypeOK
<1> QED
  BY <1>1, <1>2

\* Every step keeps what calls are about.
LEMMA CallsStep ==
  ASSUME TypeOK, NamesInv, CallsInv, Next
  PROVE  CallsInv'
<1> USE DEF guestVars, GoTo, InCall, Updates, AtFlag
<1>1. made' \in Nat /\ made \in Nat /\ made' >= made
  <2>1. CASE \E g \in Guests, r \in Ranges : Register(g, r)
    BY <2>1 DEF Register, TypeOK
  <2>2. CASE ~\E g \in Guests, r \in Ranges : Register(g, r)
    <3>1. made' = made
      BY <2>2, Steps, ListsStay, UnregisterLists DEF Updating, Publish
    <3> QED
      BY <3>1 DEF TypeOK
  <2> QED
    BY <2>1, <2>2
<1>2. \A n \in 1 .. made : covers'[n] = covers[n]
  <2>1. ASSUME NEW g \in Guests, NEW r \in Ranges, Register(g, r), NEW n \in 1 .. made
        PROVE  covers'[n] = covers[n]
    <3>1. covers' = [covers EXCEPT ![made + 1] = r] /\ n # made + 1
      BY <1>1, <2>1, RegisterLists
    <3> QED
      BY <3>1, TrackerBounds DEF TypeOK
  <2>2. CASE ~\E g \in Guests, r \in Ranges : Register(g, r)
    BY <2>2, Steps, ListsStay, UnregisterLists DEF Updating, Publish
  <2> QED
    BY <2>1, <2>2
<1>3. ASSUME NEW g \in Guests, CallOK(g), gpc'[g] = gpc[g], page'[g] = page[g], entry'[g] = entry[g]
      PROVE  CallOK(g)'
  BY <1>1, <1>2, <1>3 DEF CallOK
<1>4. CASE Sync
  <2>1. UNCHANGED <<gpc, page, entry>>
    BY <1>4 DEF Sync, BeginSync, Look, Report, Clear, Reprotect, EndSync, syncFrame
  <2>2. spc' \in AtFlag => item' \in Flags
    BY <1>4 DEF Sync, BeginSync, Look, Report, Clear, Reprotect, EndSync, CallsInv
  <2> QED
    BY <1>3, <2>1, <2>2 DEF CallsInv
<1>5. ASSUME NEW g \in Guests, Handles(g) \/ Updating(g) PROVE CallsInv'
  <2>1. UNCHANGED <<spc, item>>
    BY <1>5 DEF Handles, Write, Fault, BeginLookup, FindEntry, Mark, Unprotect, Retry,
      Updating, Register, Unregister, ProtectRange, FreeFlags, Publish, syncVars
  <2>2. CallOK(g)
    BY DEF CallsInv
  <2>3. CallOK(g)'
    <3>1. CASE Handles(g)
      <4>1. UNCHANGED <<made, covers>>
        BY <3>1, ListsStay
      <4>2. ASSUME NEW p \in Pages, Write(g, p) \/ Fault(g, p) PROVE CallOK(g)'
        BY <2>2, <4>1, <4>2 DEF Write, Fault, CallOK, TypeOK
      <4>3. CASE BeginLookup(g) \/ Mark(g) \/ Unprotect(g) \/ Retry(g)
        BY <2>2, <4>1, <4>3 DEF BeginLookup, Mark, Unprotect, Retry, CallOK, TypeOK
      <4>4. CASE FindEntry(g)
        <5>1. CASE gpc'[g] # "mark"
          BY <2>2, <4>4, <5>1 DEF FindEntry, CallOK, TypeOK
        <5>2. CASE gpc'[g] = "mark"
          <6>1. PICK k \in DOMAIN raw :
                  page[g] \in covers[raw[k]] /\ entry' = [entry EXCEPT ![g] = raw[k]]
            BY <4>4, <5>2 DEF FindEntry, TypeOK
          <6>2. raw[k] \in ToSet(raw)
            BY DEF ToSet
          <6>3. raw[k] \in 1 .. made
            <7>1. raw \in Seq(Registrations)
              BY DEF TypeOK
            <7>2. raw[k] \in Registrations
              BY <7>1, Listed
            <7> QED
              BY <6>2, <7>2 DEF NamesInv
          <6>4. entry'[g] = raw[k] /\ page'[g] = page[g] /\ page[g] \in Pages
            BY <2>2, <4>4, <6>1 DEF FindEntry, CallOK, TypeOK
          <6> QED
            BY <4>1, <5>2, <6>1, <6>3, <6>4 DEF CallOK
        <5> QED
          BY <5>1, <5>2
      <4> QED
        BY <3>1, <4>2, <4>3, <4>4 DEF Handles
    <3>2. ASSUME NEW r \in Ranges, Register(g, r) PROVE CallOK(g)'
      BY <1>1, <3>2 DEF Register, CallOK, TypeOK
    <3>3. ASSUME NEW n \in Registrations, Unregister(g, n) PROVE CallOK(g)'
      <4>1. made' = made /\ n \in 1 .. made
        BY <3>3, UnregisterLists DEF NamesInv
      <4> QED
        BY <3>3, <4>1 DEF Unregister, CallOK, TypeOK
    <3>4. CASE ProtectRange(g) \/ FreeFlags(g) \/ Publish(g)
      BY <1>1, <2>2, <3>4 DEF ProtectRange, FreeFlags, Publish, CallOK, TypeOK
    <3> QED
      BY <1>5, <3>1, <3>2, <3>3, <3>4 DEF Updating
  <2>4. ASSUME NEW h \in Guests, h # g PROVE CallOK(h)'
    BY <1>3, <1>5, <2>4, OthersStay DEF CallsInv
  <2> QED
    BY <2>1, <2>3, <2>4 DEF CallsInv
<1> QED
  BY <1>4, <1>5, Steps
\* A thread in a registration or unregistration has the lock, alone.
LEMMA OneUpdates ==
  ASSUME LockInv, NEW g \in Guests, NEW h \in Guests, gpc[h] \in Updates
  PROVE  /\ lock = h /\ spc = "idle"
         /\ gpc[g] \in Updates => g = h
         /\ ~Sync /\ (\A r \in Ranges : ~Register(g, r))
         /\ \A n \in Registrations : ~Unregister(g, n)
<1>1. lock = h
  BY DEF LockInv
<1>2. lock # Main /\ lock # Free /\ spc = "idle"
  BY <1>1, TrackerHolders DEF LockInv
<1>3. ~Sync
  BY <1>2 DEF Sync, BeginSync, Look, Report, Clear, Reprotect, EndSync
<1> QED
  BY <1>1, <1>2, <1>3 DEF LockInv, Register, Unregister

\* Every step keeps the pages of a leaving range writable.
LEMMA LeavingStep ==
  ASSUME TypeOK, LockInv, NamesInv, LeavingInv, Next
  PROVE  LeavingInv'
<1> USE DEF Updates, GoTo
<1>1. ASSUME NEW n, Leaving(n), ~\E g \in Guests : Publish(g) PROVE Leaving(n)'
  <2>1. PICK h \in Guests : gpc[h] \in {"free", "publish"} /\ entry[h] = n
    BY <1>1 DEF Leaving
  <2>2. PICK g \in Guests : Handles(g) \/ Updating(g)
    BY <2>1, OneUpdates, Steps
  <2>3. CASE g = h
    <3>1. FreeFlags(g)
      BY <1>1, <2>1, <2>2, <2>3 DEF Handles, Write, Fault, BeginLookup, FindEntry, Mark, Unprotect,
        Retry, Updating, Register, Unregister, ProtectRange
    <3> QED
      BY <2>1, <2>3, <3>1 DEF FreeFlags, Leaving, TypeOK
  <2>4. CASE g # h
    BY <2>1, <2>2, <2>4, OthersStay DEF Leaving
  <2> QED
    BY <2>3, <2>4
<1>2. \A n \in ToSet(raw') \ ToSet(ranges') : Leaving(n)'
  <2>1. CASE UNCHANGED <<ranges, raw>> /\ ~\E g \in Guests : Publish(g)
    BY <1>1, <2>1 DEF LeavingInv
  <2>2. ASSUME NEW g \in Guests, NEW m \in Registrations, Unregister(g, m)
        PROVE  \A n \in ToSet(raw') \ ToSet(ranges') : Leaving(n)'
    <3>1. raw' = raw /\ ToSet(ranges) \subseteq ToSet(ranges') \cup {m}
      BY <2>2, UnregisterLists
    <3>2. Leaving(m)'
      BY <2>2 DEF Unregister, Leaving, TypeOK
    <3>3. ASSUME NEW h \in Guests, Publish(h) PROVE FALSE
      <4>1. gpc[h] \in Updates
        BY <3>3 DEF Publish
      <4> QED
        BY <2>2, <4>1, OneUpdates
    <3> QED
      BY <1>1, <3>1, <3>2, <3>3 DEF LeavingInv
  <2>3. ASSUME NEW g \in Guests, Publish(g) \/ \E r \in Ranges : Register(g, r)
        PROVE  raw' = ranges'
    BY <2>3 DEF Publish, Register
  <2>4. ASSUME NEW g \in Guests, Publish(g) PROVE raw' = ranges'
    BY <2>3, <2>4
  <2> QED
    BY <2>1, <2>2, <2>3, <2>4, Steps, ListsStay DEF Updating
<1>3. ASSUME NEW n \in Registrations, Leaving(n)'
      PROVE  /\ \A p \in covers'[n] : prot'[p] = "rw"
             /\ \A u \in Guests : quiet'[u] => page'[u] \notin covers'[n]
  <2>1. PICK h \in Guests : gpc'[h] \in {"free", "publish"} /\ entry'[h] = n
    BY <1>3 DEF Leaving
  <2>2. CASE gpc[h] \in {"free", "publish"} /\ entry[h] = n
    <3>1. Leaving(n)
      BY <2>2 DEF Leaving
    <3>2. /\ \A p \in covers[n] : prot[p] = "rw"
          /\ \A u \in Guests : quiet[u] => page[u] \notin covers[n]
      BY <3>1 DEF LeavingInv
    <3>3. PICK g \in Guests : Handles(g) \/ FreeFlags(g) \/ Publish(g)
      <4>1. PICK g \in Guests : Handles(g) \/ Updating(g)
        BY <2>2, OneUpdates, Steps
      <4>2. ~ProtectRange(g)
        BY <2>2, <4>1, OneUpdates DEF ProtectRange
      <4>3. (\A r \in Ranges : ~Register(g, r)) /\ \A m \in Registrations : ~Unregister(g, m)
        BY <2>2, OneUpdates
      <4> QED
        BY <4>1, <4>2, <4>3 DEF Updating
    <3>4. covers' = covers
      BY <3>3, ListsStay DEF Publish
    <3>5. CASE FreeFlags(g) \/ Publish(g)
      <4>1. UNCHANGED <<prot, quiet, page>>
        BY <3>5 DEF FreeFlags, Publish, memVars, histVars
      <4> QED
        BY <3>2, <3>4, <4>1
    <3>6. CASE Handles(g)
      <4>1. covers[n] \in SUBSET Pages
        BY DEF TypeOK
      <4>2. \A p \in Pages : prot'[p] = prot[p] \/ prot'[p] = "rw"
        BY <3>6 DEF Handles, Write, Fault, BeginLookup, FindEntry, Mark, Unprotect, Retry, Protect,
          memVars
      <4>3. ASSUME NEW u \in Guests, quiet'[u]
            PROVE  (quiet[u] /\ page'[u] = page[u]) \/ prot[page'[u]] = "ro"
        <5>1. CASE u = g
          BY <3>6, <4>3, <5>1 DEF Handles, Write, Fault, BeginLookup, FindEntry, Mark, Unprotect,
            Retry, guestVars, histVars, TypeOK
        <5>2. CASE u # g
          BY <3>6, <4>3, <5>2, OthersStay
        <5> QED
          BY <5>1, <5>2
      <4> QED
        BY <3>2, <3>4, <4>1, <4>2, <4>3
    <3> QED
      BY <3>3, <3>5, <3>6
  <2>3. CASE Unregister(h, n)
    <3>1. covers' = covers /\ page' = page
      BY <2>3, UnregisterLists DEF Unregister
    <3>2. covers[n] \in SUBSET Pages
      BY DEF TypeOK
    <3> QED
      BY <2>3, <3>1, <3>2 DEF Unregister, Protect, Forget, TypeOK
  <2>4. Unregister(h, n) \/ (gpc[h] \in {"free", "publish"} /\ entry[h] = n)
    <3>1. CASE Sync
      <4>1. UNCHANGED guestVars
        BY <3>1 DEF Sync, BeginSync, Look, Report, Clear, Reprotect, EndSync, syncFrame
      <4> QED
        BY <2>1, <4>1 DEF guestVars
    <3>2. CASE Handles(h) \/ Updating(h)
      <4>1. CASE Handles(h)
        BY <2>1, <4>1 DEF Handles, Write, Fault, BeginLookup, FindEntry, Mark, Unprotect, Retry,
          guestVars, TypeOK
      <4>2. CASE Updating(h)
        BY <2>1, <4>2 DEF Updating, Register, Unregister, ProtectRange, FreeFlags, Publish, TypeOK
      <4> QED
        BY <3>2, <4>1, <4>2
    <3>3. ASSUME NEW g \in Guests, g # h, Handles(g) \/ Updating(g)
          PROVE  gpc[h] \in {"free", "publish"} /\ entry[h] = n
      BY <2>1, <3>3, OthersStay
    <3> QED
      BY <3>1, <3>2, <3>3, Steps
  <2> QED
    BY <2>2, <2>3, <2>4
<1> QED
  BY <1>2, <1>3 DEF LeavingInv

\* Every step keeps the marks of quiet faults.
LEMMA QuietStep ==
  ASSUME TypeOK, NamesInv, CallsInv, LeavingInv, QuietInv, SyncInv, Next
  PROVE  QuietInv'
<1> USE DEF InCall, Updates, GoTo
<1>1. CASE Sync
  <2>1. UNCHANGED <<gpc, page, entry, ranges>> /\ \A g \in Guests : quiet'[g] => quiet[g]
    BY <1>1 DEF Sync, BeginSync, Look, Report, Clear, Reprotect, EndSync, syncFrame, guestVars,
      listVars, histVars, TypeOK
  <2>2. ASSUME NEW g \in Guests, quiet[g], NEW n \in ToSet(ranges), page[g] \in dirty[n]
        PROVE  page[g] \in dirty'[n]
    <3>1. n \in Registrations
      BY Listed DEF TypeOK
    <3>2. CASE Clear
      <4>1. page[g] # item[2]
        BY <2>2, <3>2 DEF Clear, SyncInv, AtFlag
      <4> QED
        BY <2>2, <3>1, <3>2, <4>1 DEF Clear, TypeOK
    <3>3. CASE ~Clear
      BY <1>1, <2>2, <3>3 DEF Sync, BeginSync, Look, Report, Reprotect, EndSync
    <3> QED
      BY <3>2, <3>3
  <2> QED
    BY <2>1, <2>2 DEF QuietInv, QuietOK
<1>2. ASSUME NEW g \in Guests, Handles(g) PROVE QuietInv'
  <2>1. ranges' = ranges
    BY <1>2, ListsStay
  <2>2. \A n \in ToSet(ranges) : n \in Registrations /\ dirty[n] \subseteq dirty'[n]
    <3>1. \A n \in ToSet(ranges) : n \in Registrations
      BY Listed DEF TypeOK
    <3>2. CASE Mark(g)
      <4>1. dirty' = dirty \/ dirty' = [dirty EXCEPT ![entry[g]] = @ \cup {page[g]}]
        BY <3>2 DEF Mark
      <4> QED
        BY <3>1, <4>1 DEF TypeOK
    <3>3. CASE ~Mark(g)
      <4>1. dirty' = dirty
        BY <1>2, <3>3 DEF Handles, Write, Fault, BeginLookup, FindEntry, Unprotect, Retry
      <4> QED
        BY <3>1, <4>1
    <3> QED
      BY <3>2, <3>3
  <2>3. ASSUME NEW h \in Guests, h # g PROVE QuietOK(h)'
    BY <1>2, <2>1, <2>2, <2>3, OthersStay DEF QuietInv, QuietOK
  <2>4. QuietOK(g)'
    <3>1. QuietOK(g) /\ CallOK(g)
      BY DEF QuietInv, CallsInv
    <3>2. ASSUME NEW p \in Pages, Write(g, p) \/ Fault(g, p) PROVE QuietOK(g)'
      BY <3>1, <3>2 DEF Write, Fault, QuietOK, guestVars, histVars, TypeOK
    <3>3. CASE BeginLookup(g) \/ Unprotect(g) \/ Retry(g)
      <4>1. CASE BeginLookup(g)
        BY <3>1, <4>1 DEF BeginLookup, QuietOK, histVars, TypeOK
      <4>2. CASE Unprotect(g)
        BY <2>1, <3>1, <4>2 DEF Unprotect, QuietOK, histVars, TypeOK
      <4>3. CASE Retry(g)
        BY <4>3 DEF Retry, QuietOK, TypeOK
      <4> QED
        BY <3>3, <4>1, <4>2, <4>3
    <3>4. CASE FindEntry(g)
      <4>1. CASE gpc'[g] # "mark"
        BY <4>1, <3>4 DEF FindEntry, QuietOK, TypeOK
      <4>2. CASE gpc'[g] = "mark" /\ quiet'[g]
        <5>1. PICK k \in DOMAIN raw :
                page[g] \in covers[raw[k]] /\ entry' = [entry EXCEPT ![g] = raw[k]]
          BY <3>4, <4>2 DEF FindEntry, TypeOK
        <5>2. raw[k] \in ToSet(raw) /\ raw[k] \in Registrations
          <6>1. raw \in Seq(Registrations)
            BY DEF TypeOK
          <6> QED
            BY <6>1, Listed DEF ToSet
        <5>3. quiet[g] /\ entry'[g] = raw[k]
          BY <3>4, <4>2, <5>1 DEF FindEntry, histVars, TypeOK
        <5>4. raw[k] \in ToSet(ranges)
          BY <5>1, <5>2, <5>3 DEF LeavingInv
        <5> QED
          BY <2>1, <4>2, <5>3, <5>4 DEF QuietOK
      <4> QED
        BY <4>1, <4>2 DEF QuietOK
    <3>5. CASE Mark(g)
      <4>1. CASE gpc'[g] = "astray"
        BY <4>1 DEF QuietOK
      <4>2. CASE gpc'[g] # "astray" /\ quiet'[g]
        <5>1. /\ quiet[g] /\ entry[g] \in ToSet(ranges) /\ page' = page /\ gpc'[g] = "unprotect"
              /\ dirty' = [dirty EXCEPT ![entry[g]] = @ \cup {page[g]}]
          BY <3>1, <3>5, <4>2 DEF Mark, QuietOK, histVars, TypeOK
        <5>2. page[g] \in dirty'[entry[g]]
          BY <2>2, <5>1 DEF TypeOK
        <5> QED
          BY <2>1, <5>1, <5>2 DEF QuietOK
      <4> QED
        BY <4>1, <4>2 DEF QuietOK
    <3> QED
      BY <1>2, <3>2, <3>3, <3>4, <3>5 DEF Handles
  <2> QED
    BY <2>3, <2>4 DEF QuietInv
<1>3. ASSUME NEW g \in Guests, Updating(g) PROVE QuietInv'
  <2>1. dirty' = dirty
    BY <1>3 DEF Updating, Register, Unregister, ProtectRange, FreeFlags, Publish
  <2>2. ~quiet'[g]
    <3>1. gpc[g] \notin InCall \cup {"killed", "astray"} /\ (quiet'[g] => quiet[g])
      BY <1>3 DEF Updating, Register, Unregister, Forget, ProtectRange, FreeFlags, Publish,
        histVars, TypeOK
    <3> QED
      BY <3>1 DEF QuietInv, QuietOK
  <2>3. ASSUME NEW h \in Guests, h # g, quiet'[h] PROVE QuietOK(h)'
    <3>1. /\ gpc'[h] = gpc[h] /\ page'[h] = page[h] /\ entry'[h] = entry[h]
          /\ quiet[h] /\ QuietOK(h) /\ CallOK(h)
      BY <1>3, <2>3, OthersStay DEF QuietInv, CallsInv
    <3>2. CASE ToSet(ranges) \subseteq ToSet(ranges')
      BY <2>1, <3>1, <3>2 DEF QuietOK
    <3>3. ASSUME NEW n \in Registrations, Unregister(g, n) PROVE QuietOK(h)'
      <4>1. ToSet(ranges) \subseteq ToSet(ranges') \cup {n}
        BY <3>3, UnregisterLists
      <4>2. page[h] \notin covers[n]
        BY <2>3, <3>3 DEF Unregister, Forget
      <4>3. gpc[h] = "mark" => entry[h] # n
        BY <3>1, <4>2 DEF CallOK
      <4>4. \A m \in ToSet(ranges) : page[h] \in dirty[m] => m # n
        BY <4>2 DEF NamesInv
      <4> QED
        BY <2>1, <3>1, <4>1, <4>3, <4>4 DEF QuietOK
    <3>4. ASSUME NEW r \in Ranges, Register(g, r) PROVE ToSet(ranges) \subseteq ToSet(ranges')
      BY <3>4, RegisterLists
    <3>5. ProtectRange(g) \/ FreeFlags(g) \/ Publish(g) => ranges' = ranges
      BY ListsStay DEF Publish
    <3> QED
      BY <1>3, <3>2, <3>3, <3>4, <3>5 DEF Updating
  <2> QED
    BY <2>2, <2>3 DEF QuietInv, QuietOK
<1> QED
  BY <1>1, <1>2, <1>3, Steps
\* Every step keeps the order within a synchronisation.
LEMMA SyncStep ==
  ASSUME TypeOK, LockInv, SyncInv, CaughtInv, CallsInv, Next
  PROVE  SyncInv'
<1> USE DEF AtFlag
<1>1. CASE Sync
  <2>1. CASE BeginSync \/ Reprotect \/ EndSync
    BY <2>1 DEF BeginSync, Reprotect, EndSync, SyncInv
  <2>2. ASSUME NEW f \in Flags, Look(f) PROVE SyncInv'
    <3>1. page' = page
      BY <2>2 DEF Look, syncFrame, guestVars
    <3>2. spc = "looking" /\ (spc' = "looking" \/ spc' = "report")
      BY <2>2 DEF Look
    <3>3. spc' = "report" => item' = f /\ \A g \in Guests : quiet'[g] => page[g] # f[2]
      BY <2>2 DEF Look
    <3> QED
      BY <3>1, <3>2, <3>3 DEF SyncInv
  <2>3. CASE Report
    <3>1. item[2] \in Pages
      <4>1. item \in Flags
        BY <2>3 DEF Report, CallsInv
      <4> QED
        BY <4>1
    <3>2. caught'[item'[2]] <= synced'[item'[2]]
      BY <2>3, <3>1 DEF Report, CaughtInv, TypeOK
    <3>3. UNCHANGED <<quiet, page, item>> /\ spc \in AtFlag
      BY <2>3 DEF Report, syncFrame, guestVars
    <3> QED
      BY <3>2, <3>3 DEF SyncInv
  <2>4. CASE Clear
    BY <2>4 DEF Clear, syncFrame, guestVars, histVars, SyncInv
  <2> QED
    BY <1>1, <2>1, <2>2, <2>3, <2>4 DEF Sync
<1>2. ASSUME NEW g \in Guests, Handles(g) PROVE SyncInv'
  <2>1. UNCHANGED <<spc, item, synced>>
    BY <1>2 DEF Handles, Write, Fault, BeginLookup, FindEntry, Mark, Unprotect, Retry, syncVars,
      histVars
  <2>2. ASSUME spc \in AtFlag, NEW u \in Guests, quiet'[u] PROVE page'[u] # item[2]
    <3>1. CASE u # g
      BY <1>2, <2>2, <3>1, OthersStay DEF SyncInv
    <3>2. CASE u = g
      <4>1. ASSUME NEW p \in Pages, Fault(g, p) PROVE page'[g] # item[2]
        BY <2>2, <3>2, <4>1 DEF Fault, Synchronising, TypeOK
      <4>2. CASE ~\E p \in Pages : Fault(g, p)
        <5>1. quiet[g] /\ page'[g] = page[g]
          BY <1>2, <2>2, <3>2, <4>2 DEF Handles, Write, BeginLookup, FindEntry, Mark, Unprotect,
            Retry, guestVars, histVars, TypeOK
        <5> QED
          BY <2>2, <3>2, <5>1 DEF SyncInv
      <4> QED
        BY <3>2, <4>1, <4>2
    <3> QED
      BY <3>1, <3>2
  <2>3. ASSUME spc \in AtFlag PROVE caught'[item[2]] = caught[item[2]]
    <3>1. CASE Retry(g)
      <4>1. quiet[g] => page[g] # item[2]
        BY <2>3 DEF SyncInv
      <4>2. item[2] \in Pages
        <5>1. item \in Flags
          BY <2>3 DEF CallsInv
        <5> QED
          BY <5>1
      <4> QED
        BY <3>1, <4>1, <4>2 DEF Retry, TypeOK
    <3>2. CASE ~Retry(g)
      BY <1>2, <3>2 DEF Handles, Write, Fault, BeginLookup, FindEntry, Mark, Unprotect, histVars
    <3> QED
      BY <3>1, <3>2
  <2> QED
    BY <2>1, <2>2, <2>3 DEF SyncInv
<1>3. ASSUME NEW g \in Guests, Updating(g) PROVE SyncInv'
  <2>1. spc' = spc /\ (lock = Free \/ gpc[g] \in Updates)
    BY <1>3 DEF Updating, Register, Unregister, ProtectRange, FreeFlags, Publish, syncVars, Updates
  <2>2. spc = "idle"
    BY <2>1, TrackerHolders DEF LockInv
  <2> QED
    BY <2>1, <2>2 DEF SyncInv
<1> QED
  BY <1>1, <1>2, <1>3, Steps

\* No page has more faults caught than writes.
LEMMA CaughtStep ==
  ASSUME TypeOK, CallsInv, CaughtInv, Next
  PROVE  CaughtInv'
<1> SUFFICES ASSUME NEW p \in Pages PROVE caught'[p] <= mem'[p]
  BY DEF CaughtInv
<1>1. caught[p] <= mem[p] /\ caught[p] \in Nat /\ mem[p] \in Nat
  BY DEF CaughtInv, TypeOK
<1>2. ASSUME NEW g \in Guests, NEW q \in Pages, Write(g, q) PROVE caught'[p] <= mem'[p]
  <2>1. mem' = [mem EXCEPT ![q] = @ + 1] /\ caught' = caught /\ mem \in [Pages -> Contents]
    BY <1>2, StoreTyped DEF Write, histVars, TypeOK
  <2>2. mem'[p] = mem[p] \/ mem'[p] = mem[p] + 1
    BY <2>1
  <2> QED
    BY <1>1, <2>1, <2>2
<1>3. ASSUME NEW g \in Guests, Retry(g) PROVE caught'[p] <= mem'[p]
  <2>1. page[g] \in Pages
    BY <1>3 DEF Retry, CallsInv, CallOK, InCall
  <2>2. mem'[p] = mem[p] \/ mem'[p] = mem[p] + 1
    BY <1>3, <2>1, StoreTyped DEF Retry, TypeOK
  <2>3. caught'[p] = caught[p] \/ caught'[p] = mem'[p]
    BY <1>3, <2>1 DEF Retry, TypeOK
  <2> QED
    BY <1>1, <2>2, <2>3
<1>4. ASSUME NEW g \in Guests, NEW n \in Registrations, Unregister(g, n)
      PROVE  caught'[p] <= mem'[p]
  <2>1. mem' = mem /\ (caught'[p] = 0 \/ caught'[p] = caught[p])
    BY <1>4 DEF Unregister, Forget
  <2> QED
    BY <1>1, <2>1
<1>5. CASE UNCHANGED <<mem, caught>>
  BY <1>1, <1>5
<1>6. Sync => UNCHANGED <<mem, caught>>
  BY DEF Sync, BeginSync, Look, Report, Clear, Reprotect, EndSync, memVars, histVars
<1>7. ASSUME NEW g \in Guests, Guest(g), ~Retry(g),
             ~\E q \in Pages : Write(g, q), ~\E n \in Registrations : Unregister(g, n)
      PROVE  UNCHANGED <<mem, caught>>
  BY <1>7 DEF Guest, Fault, BeginLookup, FindEntry, Mark, Unprotect, Register, ProtectRange,
    FreeFlags, Publish, memVars, histVars
<1> QED
  BY <1>2, <1>3, <1>4, <1>5, <1>6, <1>7 DEF Next

\* Every step keeps the reports of quiet writes.
LEMMA ReportedStep ==
  ASSUME TypeOK, NamesInv, CallsInv, QuietInv, SyncInv, CaughtInv, QuietWritesAreReported, Next
  PROVE  QuietWritesAreReported'
<1> SUFFICES ASSUME NEW p \in Pages
             PROVE  caught'[p] <= synced'[p] \/ \E n \in ToSet(ranges') : p \in dirty'[n]
  BY DEF QuietWritesAreReported
<1>1. /\ caught[p] \in Nat /\ synced[p] \in Nat /\ caught[p] <= mem[p]
      /\ caught[p] <= synced[p] \/ \E n \in ToSet(ranges) : p \in dirty[n]
      /\ \A n \in ToSet(ranges) : n \in Registrations
  <2>1. ranges \in Seq(Registrations)
    BY DEF TypeOK
  <2> QED
    <3>1. \A n \in ToSet(ranges) : n \in Registrations
      BY <2>1, Listed
    <3>2. caught[p] \in Nat /\ synced[p] \in Nat
      BY DEF TypeOK
    <3> QED
      BY <3>1, <3>2 DEF CaughtInv, QuietWritesAreReported
<1>2. CASE Sync
  <2>1. UNCHANGED <<ranges, caught>>
    BY <1>2, ListsStay DEF Sync, BeginSync, Look, Report, Clear, Reprotect, EndSync, histVars
  <2>2. CASE Report
    <3>1. synced'[p] = synced[p] \/ synced'[p] = mem[p]
      BY <2>2 DEF Report, TypeOK
    <3> QED
      BY <1>1, <2>1, <2>2, <3>1 DEF Report
  <2>3. CASE Clear
    <3>1. synced' = synced
      BY <2>3 DEF Clear, histVars
    <3>2. CASE p = item[2]
      BY <2>1, <2>3, <3>1, <3>2 DEF Clear, SyncInv
    <3>3. CASE p # item[2]
      <4>1. \A n \in Registrations : p \in dirty[n] => p \in dirty'[n]
        BY <2>3, <3>3 DEF Clear, TypeOK
      <4> QED
        BY <1>1, <2>1, <3>1, <4>1
    <3> QED
      BY <3>2, <3>3
  <2>4. CASE ~Report /\ ~Clear
    <3>1. UNCHANGED <<synced, dirty>>
      BY <1>2, <2>4 DEF Sync, BeginSync, Look, Reprotect, EndSync, histVars
    <3> QED
      BY <1>1, <2>1, <3>1
  <2> QED
    BY <2>2, <2>3, <2>4
<1>3. ASSUME NEW g \in Guests, Handles(g)
      PROVE  caught'[p] <= synced'[p] \/ \E n \in ToSet(ranges') : p \in dirty'[n]
  <2>1. UNCHANGED <<ranges, synced>>
    BY <1>3, ListsStay DEF Handles, Write, Fault, BeginLookup, FindEntry, Mark, Unprotect, Retry,
      histVars
  <2>2. CASE Retry(g) /\ quiet[g] /\ page[g] = p
    <3>1. \E n \in ToSet(ranges) : p \in dirty[n]
      BY <2>2 DEF Retry, QuietInv, QuietOK
    <3> QED
      BY <2>1, <2>2, <3>1 DEF Retry
  <2>3. CASE Retry(g) /\ ~(quiet[g] /\ page[g] = p)
    <3>1. caught'[p] = caught[p] /\ dirty' = dirty
      BY <2>3 DEF Retry, TypeOK
    <3> QED
      BY <1>1, <2>1, <3>1
  <2>4. CASE Mark(g)
    <3>1. caught' = caught
      BY <2>4 DEF Mark, histVars
    <3>2. dirty' = dirty \/ dirty' = [dirty EXCEPT ![entry[g]] = @ \cup {page[g]}]
      BY <2>4 DEF Mark
    <3>3. \A n \in Registrations : p \in dirty[n] => p \in dirty'[n]
      BY <3>2 DEF TypeOK
    <3> QED
      BY <1>1, <2>1, <3>1, <3>3
  <2>5. CASE ~Retry(g) /\ ~Mark(g)
    <3>1. UNCHANGED <<caught, dirty>>
      BY <1>3, <2>5 DEF Handles, Write, Fault, BeginLookup, FindEntry, Unprotect, histVars
    <3> QED
      BY <1>1, <2>1, <3>1
  <2> QED
    BY <2>2, <2>3, <2>4, <2>5
<1>4. ASSUME NEW g \in Guests, Updating(g)
      PROVE  caught'[p] <= synced'[p] \/ \E n \in ToSet(ranges') : p \in dirty'[n]
  <2>1. dirty' = dirty
    BY <1>4 DEF Updating, Register, Unregister, ProtectRange, FreeFlags, Publish
  <2>2. ASSUME NEW n \in Registrations, Unregister(g, n)
        PROVE  caught'[p] <= synced'[p] \/ \E m \in ToSet(ranges') : p \in dirty'[m]
    <3>1. synced' = synced /\ ToSet(ranges) \subseteq ToSet(ranges') \cup {n}
      BY <2>2, UnregisterLists DEF Unregister
    <3>2. CASE p \in covers[n]
      <4>1. caught'[p] = 0
        BY <2>2, <3>2 DEF Unregister, Forget
      <4> QED
        BY <1>1, <3>1, <4>1
    <3>3. CASE p \notin covers[n]
      <4>1. caught'[p] = caught[p] /\ p \notin dirty[n]
        BY <2>2, <3>3 DEF Unregister, Forget, NamesInv
      <4> QED
        BY <1>1, <2>1, <3>1, <4>1
    <3> QED
      BY <3>2, <3>3
  <2>3. CASE ~\E n \in Registrations : Unregister(g, n)
    <3>1. caught' = caught
      BY <1>4, <2>3 DEF Updating, Register, ProtectRange, FreeFlags, Publish, histVars
    <3>2. synced'[p] = synced[p] \/ synced'[p] = mem[p]
      BY <1>4, <2>3 DEF Updating, Register, ProtectRange, FreeFlags, Publish, histVars
    <3>3. ToSet(ranges) \subseteq ToSet(ranges')
      BY <1>4, <2>3, ListsStay, RegisterLists DEF Updating, Publish
    <3> QED
      BY <1>1, <2>1, <3>1, <3>2, <3>3
  <2> QED
    BY <2>2, <2>3
<1> QED
  BY <1>2, <1>3, <1>4, Steps

\* Nothing is promised once a thread was killed; the steps that are still possible change
\* neither what is watched nor the page of its fault.
LEMMA KilledStep ==
  ASSUME TypeOK, NamesInv, FaultsAreHandled, Next
  PROVE  FaultsAreHandled'
<1> SUFFICES ASSUME NEW g \in Guests, gpc'[g] = "killed" PROVE ~Watched(page[g])'
  BY DEF FaultsAreHandled
<1> USE DEF GoTo
<1>1. CASE gpc[g] = "killed"
  <2>1. ~Runs /\ ~Watched(page[g])
    BY <1>1 DEF Runs, FaultsAreHandled
  <2>2. UNCHANGED <<ranges, covers, page>>
    <3>1. CASE Sync
      BY <2>1, <3>1, ListsStay DEF Sync, BeginSync, Look, Report, Clear, Reprotect, EndSync,
        syncFrame, guestVars
    <3>2. ASSUME NEW h \in Guests, Handles(h) \/ Updating(h) PROVE UNCHANGED <<ranges, covers, page>>
      <4>1. Unprotect(h) \/ ProtectRange(h) \/ FreeFlags(h) \/ Publish(h)
        BY <2>1, <3>2 DEF Handles, Write, Fault, BeginLookup, FindEntry, Mark, Retry, Updating,
          Register, Unregister
      <4> QED
        BY <4>1 DEF Unprotect, ProtectRange, FreeFlags, Publish, listVars
    <3> QED
      BY <3>1, <3>2, Steps
  <2> QED
    BY <2>1, <2>2 DEF Watched
<1>2. CASE gpc[g] # "killed"
  <2>1. FindEntry(g)
    <3>1. ~Sync
      BY <1>2 DEF Sync, BeginSync, Look, Report, Clear, Reprotect, EndSync, syncFrame, guestVars
    <3>2. ASSUME NEW h \in Guests, Handles(h) \/ Updating(h) PROVE FindEntry(g)
      <4>1. h = g
        BY <1>2, <3>2, OthersStay
      <4> QED
        BY <1>2, <3>2, <4>1 DEF Handles, Write, Fault, BeginLookup, Mark, Unprotect, Retry,
          Updating, Register, Unregister, ProtectRange, FreeFlags, Publish, guestVars, TypeOK
    <3> QED
      BY <3>1, <3>2, Steps
  <2>2. \A n \in ToSet(raw) : page[g] \notin covers[n]
    BY <2>1 DEF FindEntry, TypeOK
  <2>3. UNCHANGED <<ranges, covers, page>>
    BY <2>1 DEF FindEntry, listVars
  <2> QED
    BY <2>2, <2>3 DEF Watched, NamesInv
<1> QED
  BY <1>1, <1>2

\* Every step keeps the invariant.
LEMMA InvStep ==
  ASSUME Inv, FaultsAreHandled, [Next]_vars
  PROVE  Inv' /\ FaultsAreHandled'
<1>1. CASE Next
  BY <1>1, TypeStep, LockStep, NamesStep, CallsStep, LeavingStep, QuietStep, SyncStep, CaughtStep,
    ReportedStep, KilledStep DEF Inv
<1>2. CASE UNCHANGED vars
  <2>1. /\ UNCHANGED <<mem, prot, lock, ranges, raw, buffer, made, covers, dirty, freed, gpc>>
        /\ UNCHANGED <<page, entry, seen, spc, todo, item, synced, quiet, caught>>
    BY <1>2 DEF vars, memVars, listVars, guestVars, syncVars, histVars
  <2>2. TypeOK' /\ LockInv' /\ NamesInv' /\ CallsInv'
    BY <2>1 DEF Inv, TypeOK, LockInv, NamesInv, CallsInv, CallOK
  <2>3. LeavingInv' /\ QuietInv' /\ SyncInv' /\ CaughtInv'
    BY <2>1 DEF Inv, LeavingInv, Leaving, QuietInv, QuietOK, SyncInv, CaughtInv
  <2>4. QuietWritesAreReported' /\ FaultsAreHandled'
    BY <2>1 DEF Inv, QuietWritesAreReported, FaultsAreHandled, Watched
  <2> QED
    BY <2>2, <2>3, <2>4 DEF Inv
<1> QED
  BY <1>1, <1>2

\* It holds at first.
LEMMA InvInit == Init => Inv /\ FaultsAreHandled
<1> SUFFICES ASSUME Init PROVE Inv /\ FaultsAreHandled
  OBVIOUS
<1>1. << >> \in Seq(Registrations) /\ ToSet(<< >>) = {}
  BY EmptySeq DEF ToSet
<1>2. TypeOK
  BY <1>1, TrackerBounds DEF Init, TypeOK
<1>3. LockInv /\ NamesInv /\ CallsInv
  BY <1>1, TrackerHolders DEF Init, LockInv, NamesInv, CallsInv, CallOK, InCall, Updates, AtFlag
<1>4. LeavingInv /\ QuietInv /\ SyncInv /\ CaughtInv
  BY <1>1 DEF Init, LeavingInv, Leaving, QuietInv, QuietOK, SyncInv, CaughtInv, AtFlag
<1>5. QuietWritesAreReported /\ FaultsAreHandled
  BY DEF Init, QuietWritesAreReported, FaultsAreHandled
<1> QED
  BY <1>2, <1>3, <1>4, <1>5 DEF Inv

\* It holds always.
LEMMA Invariant == Spec => [](Inv /\ FaultsAreHandled)
BY InvInit, InvStep, PTL DEF Spec

\* The types of MemoryTracker's variables.
THEOREM TypeCorrect == Spec => []TypeOK
<1>1. Inv => TypeOK
  BY DEF Inv
<1> QED
  BY <1>1, Invariant, PTL

\* The default action of SIGSEGV meets no thread whose page is watched: each registration
\* is in the handler's list before its memory is protected, and leaves it after its memory is
\* writable again (sigsegv_handler, register_range, unregister_range).
THEOREM WatchedFaultsAreHandled == Spec => []FaultsAreHandled
BY Invariant, PTL

\* A write whose fault met no synchronisation of its page is reported by the next one
\* (sigsegv_handler, sync_dirty_ranges).
THEOREM QuietWritesAreKept == Spec => []QuietWritesAreReported
<1>1. Inv => QuietWritesAreReported
  BY DEF Inv
<1> QED
  BY <1>1, Invariant, PTL
===============================================================================
