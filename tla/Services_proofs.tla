--------------------------- MODULE Services_proofs ---------------------------
(***************************************************************************)
(* Proofs about Services, for any game: guest threads and their joins      *)
(* (GuestThreads), files (FileTable), sockets (Sockets), sound and the pad *)
(* (Devices).                                                              *)
(*                                                                         *)
(* The parts share no state but the calls a game has left, so that each    *)
(* has an invariant of its own, and a step of Services is for each part    *)
(* one of its own steps or none.                                           *)
(***************************************************************************)
EXTENDS Services, TLAPS, SequenceTheorems

(***************************************************************************)
(* Guest threads.                                                          *)
(***************************************************************************)

Creating(t) == pc[t] \in {"spawn", "register"}

\* A call is about a thread; ids beyond the last one are unused.
CallInv ==
  /\ \A t \in Tids : pc[t] # "idle" => other[t] \in 1 .. next
  /\ \A t \in Tids : pc[t] \in {"register", "joining"} => life[other[t]] # "none"
  /\ \A u \in Tids : u > next => life[u] = "none"

\* A thread in creation is known to its creator only.
CreationInv ==
  /\ \A t \in Tids : Creating(t) => other[t] \notin registry \cup taken
  /\ \A t, u \in Tids : Creating(t) /\ Creating(u) /\ other[t] = other[u] => t = u

\* A handle is in the registry or with the one join that took it.
HandleInv ==
  /\ registry \cup taken \subseteq 1 .. next
  /\ registry \cap taken = {}
  /\ created \subseteq registry \cup taken
  /\ \A t \in Tids : pc[t] = "joining" => other[t] \in taken
  /\ \A t, u \in Tids :
       pc[t] = "joining" /\ pc[u] = "joining" /\ other[t] = other[u] => t = u

ThreadInv == TypeOK /\ CallInv /\ CreationInv /\ HandleInv /\ FirstJoinWaits

\* The threads at the start are unknown to anybody.
LEMMA InitThreadInv == Init => ThreadInv
  BY ThreadsAssumption
  DEF Init, ThreadInv, TypeOK, CallInv, CreationInv, Creating, HandleInv, FirstJoinWaits, Tids

\* Types.
LEMMA ThreadTypes ==
  ASSUME TypeOK, CallInv, [Next]_vars
  PROVE  TypeOK'
<1>1. ASSUME NEW t \in Tids, BeginCreate(t) PROVE TypeOK'
  BY ThreadsAssumption, <1>1 DEF BeginCreate, TypeOK, Tids, Enter, Leave, Ready, Joinable
<1>2. ASSUME NEW t \in Tids, Spawn(t) PROVE TypeOK'
  BY ThreadsAssumption, <1>2 DEF Spawn, TypeOK, Tids, Enter, Leave, Ready, Joinable
<1>3. ASSUME NEW t \in Tids, Register(t) PROVE TypeOK'
  <2>1. other[t] \in Tids
    BY <1>3 DEF Register, CallInv, TypeOK, Tids
  <2> QED
    BY ThreadsAssumption, <1>3, <2>1 DEF Register, TypeOK, Tids, Enter, Leave
<1>4. ASSUME NEW t \in Tids, NEW u \in Tids, BeginJoin(t, u) PROVE TypeOK'
  BY ThreadsAssumption, <1>4 DEF BeginJoin, TypeOK, Tids, Enter, Leave, Ready, Joinable
<1>5. ASSUME NEW t \in Tids, NEW u \in Tids, JoinMissing(t, u) PROVE TypeOK'
  <2> DEFINE j == [thread |-> u, created |-> u \in created, taken |-> u \in taken]
  <2>1. j \in [thread : Tids, created : BOOLEAN, taken : BOOLEAN]
    OBVIOUS
  <2>2. early' = early \/ early' = early \cup {j}
    BY <1>5 DEF JoinMissing
  <2> HIDE DEF j
  <2>3. early' \subseteq [thread : Tids, created : BOOLEAN, taken : BOOLEAN]
    BY <2>1, <2>2 DEF TypeOK
  <2> QED
    BY <1>5, <2>3 DEF JoinMissing, TypeOK
<1>6. ASSUME NEW t \in Tids, EndJoin(t) PROVE TypeOK'
  BY ThreadsAssumption, <1>6 DEF EndJoin, TypeOK, Tids, Enter, Leave, Ready, Joinable
<1>7. ASSUME NEW t \in Tids, ThrNew(t) PROVE TypeOK'
  BY ThreadsAssumption, <1>7 DEF ThrNew, TypeOK, Tids, Enter, Leave, Ready, Joinable
<1>8. ASSUME NEW t \in Tids, ExitProcess(t) PROVE TypeOK'
  BY ThreadsAssumption, <1>8 DEF ExitProcess, TypeOK, Tids, Enter, Leave, Ready, Joinable
<1>9. ASSUME NEW t \in Tids, End(t) PROVE TypeOK'
  BY ThreadsAssumption, <1>9 DEF End, TypeOK, Tids, Enter, Leave, Ready, Joinable
<1>10. CASE UNCHANGED vars
  BY <1>10 DEF vars, TypeOK, Tids
<1> QED
  BY <1>1, <1>2, <1>3, <1>4, <1>5, <1>6, <1>7, <1>8, <1>9, <1>10 DEF Next, Thread

\* What a call is about.
LEMMA CallsStep ==
  ASSUME TypeOK, CallInv, [Next]_vars
  PROVE  CallInv'
<1>1. ASSUME NEW t \in Tids, BeginCreate(t) PROVE CallInv'
  BY ThreadsAssumption, <1>1 DEF BeginCreate, TypeOK, CallInv, Tids, Enter, Leave, Ready, Joinable
<1>2. ASSUME NEW t \in Tids, Spawn(t) PROVE CallInv'
  BY ThreadsAssumption, <1>2 DEF Spawn, TypeOK, CallInv, Tids, Enter, Leave, Ready, Joinable
<1>3. ASSUME NEW t \in Tids, Register(t) PROVE CallInv'
  BY ThreadsAssumption, <1>3 DEF Register, TypeOK, CallInv, Tids, Enter, Leave, Ready, Joinable
<1>4. ASSUME NEW t \in Tids, NEW u \in Tids, BeginJoin(t, u) PROVE CallInv'
  BY ThreadsAssumption, <1>4 DEF BeginJoin, TypeOK, CallInv, Tids, Enter, Leave, Ready, Joinable
<1>5. ASSUME NEW t \in Tids, NEW u \in Tids, JoinMissing(t, u) PROVE CallInv'
  BY ThreadsAssumption, <1>5 DEF JoinMissing, TypeOK, CallInv, Tids, Enter, Leave, Ready, Joinable
<1>6. ASSUME NEW t \in Tids, EndJoin(t) PROVE CallInv'
  BY ThreadsAssumption, <1>6 DEF EndJoin, TypeOK, CallInv, Tids, Enter, Leave, Ready, Joinable
<1>7. ASSUME NEW t \in Tids, ThrNew(t) PROVE CallInv'
  BY ThreadsAssumption, <1>7 DEF ThrNew, TypeOK, CallInv, Tids, Enter, Leave, Ready, Joinable
<1>8. ASSUME NEW t \in Tids, ExitProcess(t) PROVE CallInv'
  BY ThreadsAssumption, <1>8 DEF ExitProcess, TypeOK, CallInv, Tids, Enter, Leave, Ready, Joinable
<1>9. ASSUME NEW t \in Tids, End(t) PROVE CallInv'
  BY ThreadsAssumption, <1>9 DEF End, TypeOK, CallInv, Tids, Enter, Leave, Ready, Joinable
<1>10. CASE UNCHANGED vars
  BY <1>10 DEF vars, TypeOK, CallInv, Tids
<1> QED
  BY <1>1, <1>2, <1>3, <1>4, <1>5, <1>6, <1>7, <1>8, <1>9, <1>10 DEF Next, Thread

\* Creations are private.
LEMMA CreationStep ==
  ASSUME TypeOK, CallInv, CreationInv, HandleInv, [Next]_vars
  PROVE  CreationInv'
<1>1. ASSUME NEW t \in Tids, BeginCreate(t) PROVE CreationInv'
  BY ThreadsAssumption, <1>1 DEF BeginCreate, TypeOK, CallInv, CreationInv, Creating, HandleInv, Tids, Enter, Leave, Ready, Joinable
<1>2. ASSUME NEW t \in Tids, Spawn(t) PROVE CreationInv'
  BY ThreadsAssumption, <1>2 DEF Spawn, TypeOK, CallInv, CreationInv, Creating, HandleInv, Tids, Enter, Leave, Ready, Joinable
<1>3. ASSUME NEW t \in Tids, Register(t) PROVE CreationInv'
  BY ThreadsAssumption, <1>3 DEF Register, TypeOK, CallInv, CreationInv, Creating, HandleInv, Tids, Enter, Leave, Ready, Joinable
<1>4. ASSUME NEW t \in Tids, NEW u \in Tids, BeginJoin(t, u) PROVE CreationInv'
  BY ThreadsAssumption, <1>4 DEF BeginJoin, TypeOK, CallInv, CreationInv, Creating, HandleInv, Tids, Enter, Leave, Ready, Joinable
<1>5. ASSUME NEW t \in Tids, NEW u \in Tids, JoinMissing(t, u) PROVE CreationInv'
  BY ThreadsAssumption, <1>5 DEF JoinMissing, TypeOK, CallInv, CreationInv, Creating, HandleInv, Tids, Enter, Leave, Ready, Joinable
<1>6. ASSUME NEW t \in Tids, EndJoin(t) PROVE CreationInv'
  BY ThreadsAssumption, <1>6 DEF EndJoin, TypeOK, CallInv, CreationInv, Creating, HandleInv, Tids, Enter, Leave, Ready, Joinable
<1>7. ASSUME NEW t \in Tids, ThrNew(t) PROVE CreationInv'
  BY ThreadsAssumption, <1>7 DEF ThrNew, TypeOK, CallInv, CreationInv, Creating, HandleInv, Tids, Enter, Leave, Ready, Joinable
<1>8. ASSUME NEW t \in Tids, ExitProcess(t) PROVE CreationInv'
  BY ThreadsAssumption, <1>8 DEF ExitProcess, TypeOK, CallInv, CreationInv, Creating, HandleInv, Tids, Enter, Leave, Ready, Joinable
<1>9. ASSUME NEW t \in Tids, End(t) PROVE CreationInv'
  BY ThreadsAssumption, <1>9 DEF End, TypeOK, CallInv, CreationInv, Creating, HandleInv, Tids, Enter, Leave, Ready, Joinable
<1>10. CASE UNCHANGED vars
  BY <1>10 DEF vars, TypeOK, CallInv, CreationInv, Creating, HandleInv, Tids
<1> QED
  BY <1>1, <1>2, <1>3, <1>4, <1>5, <1>6, <1>7, <1>8, <1>9, <1>10 DEF Next, Thread

\* Handles are given away once.
LEMMA HandleStep ==
  ASSUME TypeOK, CallInv, CreationInv, HandleInv, [Next]_vars
  PROVE  HandleInv'
<1>1. ASSUME NEW t \in Tids, BeginCreate(t) PROVE HandleInv'
  BY ThreadsAssumption, <1>1 DEF BeginCreate, TypeOK, CallInv, CreationInv, Creating, HandleInv, Tids, Enter, Leave, Ready, Joinable
<1>2. ASSUME NEW t \in Tids, Spawn(t) PROVE HandleInv'
  BY ThreadsAssumption, <1>2 DEF Spawn, TypeOK, CallInv, CreationInv, Creating, HandleInv, Tids, Enter, Leave, Ready, Joinable
<1>3. ASSUME NEW t \in Tids, Register(t) PROVE HandleInv'
  <2>1. other[t] \in 1 .. next /\ other[t] \notin registry \cup taken
    BY <1>3 DEF Register, CallInv, CreationInv, Creating, TypeOK
  <2>2. /\ registry' = registry \cup {other[t]} /\ created' = created \cup {other[t]}
        /\ next' = next /\ taken' = taken
    BY <1>3 DEF Register
  <2>3. \A u \in Tids : pc'[u] = "joining" => pc[u] = "joining" /\ other'[u] = other[u]
    BY <1>3 DEF Register, Leave, Enter, TypeOK
  <2> QED
    BY <2>1, <2>2, <2>3 DEF HandleInv
<1>4. ASSUME NEW t \in Tids, NEW u \in Tids, BeginJoin(t, u) PROVE HandleInv'
  BY ThreadsAssumption, <1>4 DEF BeginJoin, TypeOK, CallInv, CreationInv, Creating, HandleInv, Tids, Enter, Leave, Ready, Joinable
<1>5. ASSUME NEW t \in Tids, NEW u \in Tids, JoinMissing(t, u) PROVE HandleInv'
  BY ThreadsAssumption, <1>5 DEF JoinMissing, TypeOK, CallInv, CreationInv, Creating, HandleInv, Tids, Enter, Leave, Ready, Joinable
<1>6. ASSUME NEW t \in Tids, EndJoin(t) PROVE HandleInv'
  BY ThreadsAssumption, <1>6 DEF EndJoin, TypeOK, CallInv, CreationInv, Creating, HandleInv, Tids, Enter, Leave, Ready, Joinable
<1>7. ASSUME NEW t \in Tids, ThrNew(t) PROVE HandleInv'
  BY ThreadsAssumption, <1>7 DEF ThrNew, TypeOK, CallInv, CreationInv, Creating, HandleInv, Tids, Enter, Leave, Ready, Joinable
<1>8. ASSUME NEW t \in Tids, ExitProcess(t) PROVE HandleInv'
  BY ThreadsAssumption, <1>8 DEF ExitProcess, TypeOK, CallInv, CreationInv, Creating, HandleInv, Tids, Enter, Leave, Ready, Joinable
<1>9. ASSUME NEW t \in Tids, End(t) PROVE HandleInv'
  BY ThreadsAssumption, <1>9 DEF End, TypeOK, CallInv, CreationInv, Creating, HandleInv, Tids, Enter, Leave, Ready, Joinable
<1>10. CASE UNCHANGED vars
  BY <1>10 DEF vars, TypeOK, CallInv, CreationInv, Creating, HandleInv, Tids
<1> QED
  BY <1>1, <1>2, <1>3, <1>4, <1>5, <1>6, <1>7, <1>8, <1>9, <1>10 DEF Next, Thread

\* Early answers.
LEMMA EarlyStep ==
  ASSUME TypeOK, HandleInv, FirstJoinWaits, [Next]_vars
  PROVE  FirstJoinWaits'
<1>1. ASSUME NEW t \in Tids, BeginCreate(t) PROVE FirstJoinWaits'
  BY <1>1 DEF BeginCreate, TypeOK, HandleInv, FirstJoinWaits, Enter, Leave, Ready, Joinable
<1>2. ASSUME NEW t \in Tids, Spawn(t) PROVE FirstJoinWaits'
  BY <1>2 DEF Spawn, TypeOK, HandleInv, FirstJoinWaits, Enter, Leave, Ready, Joinable
<1>3. ASSUME NEW t \in Tids, Register(t) PROVE FirstJoinWaits'
  BY <1>3 DEF Register, TypeOK, HandleInv, FirstJoinWaits, Enter, Leave, Ready, Joinable
<1>4. ASSUME NEW t \in Tids, NEW u \in Tids, BeginJoin(t, u) PROVE FirstJoinWaits'
  BY <1>4 DEF BeginJoin, TypeOK, HandleInv, FirstJoinWaits, Enter, Leave, Ready, Joinable
<1>5. ASSUME NEW t \in Tids, NEW u \in Tids, JoinMissing(t, u) PROVE FirstJoinWaits'
  <2> DEFINE j == [thread |-> u, created |-> u \in created, taken |-> u \in taken]
  <2>1. u \in created => u \in taken
    BY <1>5 DEF JoinMissing, HandleInv
  <2>2. j.created => j.taken
    BY <2>1
  <2>3. early' = early \/ early' = early \cup {j}
    BY <1>5 DEF JoinMissing
  <2> HIDE DEF j
  <2> QED
    BY <2>2, <2>3 DEF FirstJoinWaits
<1>6. ASSUME NEW t \in Tids, EndJoin(t) PROVE FirstJoinWaits'
  BY <1>6 DEF EndJoin, TypeOK, HandleInv, FirstJoinWaits, Enter, Leave, Ready, Joinable
<1>7. ASSUME NEW t \in Tids, ThrNew(t) PROVE FirstJoinWaits'
  BY <1>7 DEF ThrNew, TypeOK, HandleInv, FirstJoinWaits, Enter, Leave, Ready, Joinable
<1>8. ASSUME NEW t \in Tids, ExitProcess(t) PROVE FirstJoinWaits'
  BY <1>8 DEF ExitProcess, TypeOK, HandleInv, FirstJoinWaits, Enter, Leave, Ready, Joinable
<1>9. ASSUME NEW t \in Tids, End(t) PROVE FirstJoinWaits'
  BY <1>9 DEF End, TypeOK, HandleInv, FirstJoinWaits, Enter, Leave, Ready, Joinable
<1>10. CASE UNCHANGED vars
  BY <1>10 DEF vars, TypeOK, HandleInv, FirstJoinWaits
<1> QED
  BY <1>1, <1>2, <1>3, <1>4, <1>5, <1>6, <1>7, <1>8, <1>9, <1>10 DEF Next, Thread

\* The invariant of the threads is inductive.
LEMMA ThreadInvNext == ThreadInv /\ [Next]_vars => ThreadInv'
  BY ThreadTypes, CallsStep, CreationStep, HandleStep, EarlyStep DEF ThreadInv

\* The inductive invariant of threads on their own holds in every reachable state.
THEOREM Invariance == Spec => []ThreadInv
  BY InitThreadInv, ThreadInvNext, PTL DEF Spec

\* Of the joins of a thread whose creation has returned, the first one waits
\* for it, with any number of threads (hle_pthread_join).
THEOREM FirstJoinAlwaysWaits == Spec => []FirstJoinWaits
<1>1. ThreadInv => FirstJoinWaits
  BY DEF ThreadInv
<1> QED
  BY Invariance, <1>1, PTL

\* Each handle is given to one join: two threads never wait for the same one.
THEOREM HandlesAreGivenOnce == Spec => []OneWaiter
<1>1. ThreadInv => OneWaiter
  BY DEF ThreadInv, CallInv, HandleInv, OneWaiter
<1> QED
  BY Invariance, <1>1, PTL

\* A game that starts no threads of its own has two from the start.
LEMMA ThreadsOfTheGame == ServicesInit => ThreadInv
<1> SUFFICES ASSUME ServicesInit PROVE ThreadInv
  OBVIOUS
<1>1. CASE Init
  BY <1>1, InitThreadInv
<1>2. CASE ~Init
  <2>1. /\ next = 2
        /\ life = [t \in Tids |-> IF t <= 2 THEN "running" ELSE "none"]
        /\ registry = {2} /\ created = {2} /\ taken = {} /\ early = {}
        /\ pc = [t \in Tids |-> "idle"] /\ other = [t \in Tids |-> 0]
    BY <1>2 DEF ServicesInit, ThreadsAtStart
  <2>2. 2 \in Tids /\ Tids \subseteq Nat
    BY ThreadsAssumption, ServicesAssumption DEF Tids
  <2>3. TypeOK
    BY <2>1, <2>2 DEF TypeOK
  <2>4. CallInv /\ CreationInv /\ HandleInv /\ FirstJoinWaits
    BY <2>1, <2>2 DEF CallInv, CreationInv, Creating, HandleInv, FirstJoinWaits
  <2> QED
    BY <2>3, <2>4 DEF ThreadInv
<1> QED
  BY <1>1, <1>2

\* Every step of a game is one of its threads', or none of theirs.
LEMMA ThreadsOfServices == [ServicesNext]_serviceVars => [Next]_vars
<1> SUFFICES ASSUME [ServicesNext]_serviceVars, ~UNCHANGED vars
             PROVE  Next
  OBVIOUS
<1>1. CASE \E t \in Callers : GuestCall(t)
  BY <1>1 DEF GuestCall, threadVars
<1>2. CASE \E t \in Callers : ThreadStep(t)
  BY <1>2, ServicesAssumption DEF ThreadStep, Next
<1>3. CASE FileStep \/ LibraryStep \/ CallStep \/ StartStep \/ UserStep \/ LoopStep
  BY <1>3 DEF FileStep, LibraryStep, CallStep, StartStep, UserStep, LoopStep, Others, threadVars
<1>4. CASE \E t \in Callers : NetStep(t)
  BY <1>4 DEF NetStep, Others, threadVars
<1>5. CASE \E c \in DOMAIN conns : ServerStep(c)
  BY <1>5 DEF ServerStep, Others, threadVars
<1>6. CASE UNCHANGED serviceVars
  BY <1>6 DEF serviceVars, threadVars
<1> QED
  BY <1>1, <1>2, <1>3, <1>4, <1>5, <1>6 DEF ServicesNext

\* A thread is waited for by its first join and by no other, however many threads
\* create and join each other, whatever else the game does with the program's
\* services (hle_pthread_create, hle_pthread_join).
THEOREM JoinsAlwaysWaitOnce == ServicesSpec => []JoinsWaitOnce
<1>1. ThreadInv /\ [ServicesNext]_serviceVars => ThreadInv'
  BY ThreadsOfServices, ThreadInvNext
<1>2. ThreadInv => JoinsWaitOnce
  BY DEF ThreadInv, CallInv, HandleInv, JoinsWaitOnce, OneWaiter
<1>3. ServicesInit /\ [][ServicesNext]_serviceVars => []JoinsWaitOnce
  BY ThreadsOfTheGame, <1>1, <1>2, PTL
<1> QED
  BY <1>3, PTL DEF ServicesSpec

(***************************************************************************)
(* Files and streams.                                                      *)
(***************************************************************************)

OpenFiles ==
  [path : DOMAIN disk, pos : Nat, reads : BOOLEAN, writes : BOOLEAN, appends : BOOLEAN]

OpenStreams == [path : DOMAIN disk, mode : Modes, pos : Nat, held : Nat, open : BOOLEAN]

\* What is in a file was written to it.
DiskInv == \A p \in DOMAIN disk : disk[p] \in Seq({p, Hole})

\* What is open is a file of the disk; numbers are below the next one.
TableInv ==
  /\ nextFile \in Nat
  /\ \A d \in DOMAIN files : d \in Nat /\ d < nextFile /\ files[d] \in OpenFiles
  /\ opening \in [Callers -> OpenFiles \cup {None}]
  /\ streams \in Seq(OpenStreams)

\* A number stands for one file, for good: one that an open has answered is in the table
\* with that open's file, or not at all.
KnownInv ==
  \A k \in known :
    k.fd \in Nat /\ k.fd < nextFile /\ (k.fd \in DOMAIN files => files[k.fd].path = k.path)

GotInv == \A g \in got : g.byte \in {g.named, Hole}

FileInv == DiskInv /\ TableInv /\ KnownInv /\ GotInv

FileNext ==
  \/ \E t \in Callers : EndOpen(t) \/ \E s \in Spellings, f \in OpenFlags : BeginOpen(t, s, f)
  \/ \E k \in known, n \in Counts : Read(k, n) \/ Write(k, n)
  \/ \E k \in known, whence \in 0 .. 2, offset \in Offsets : Lseek(k, whence, offset)
  \/ \E fd : CloseFile(fd)
  \/ \E name : Mount(name)
  \/ \E s \in Spellings, mode \in Modes : Fopen(s, mode)
  \/ \E i \in DOMAIN streams, n \in Counts : Fread(i, n) \/ Fwrite(i, n)
  \/ \E i \in DOMAIN streams : Fflush(i) \/ Fclose(i) \/ \E offset \in Offsets : Fseek(i, offset)

\* Every step of a game is one of these, or none of the files' and streams'.
LEMMA FilesOfServices == [ServicesNext]_serviceVars => [FileNext]_fileVars
<1> SUFFICES ASSUME [ServicesNext]_serviceVars, ~UNCHANGED fileVars
             PROVE  FileNext
  OBVIOUS
<1>1. CASE \E t \in Callers : GuestCall(t)
  <2>1. PICK t \in Callers : GuestCall(t)
    BY <1>1
  <2>2. CASE FileCall(t)
    BY <2>2 DEF FileCall, FileNext
  <2>3. CASE StreamCall
    BY <2>3 DEF StreamCall, FileNext, Freopen
  <2>4. CASE \E fd \in {k.fd : k \in known} \cup Numbers : CloseByNumber(t, fd)
    BY <2>4 DEF CloseByNumber, FileNext
  <2> QED
    BY <2>1, <2>2, <2>3, <2>4 DEF GuestCall
<1>2. CASE FileStep
  <2>1. (\E t \in Callers : EndOpen(t)) \/ \E i \in DOMAIN streams : Fflush(i)
    BY <1>2 DEF FileStep
  <2> QED
    BY <2>1 DEF FileNext
<1>3. CASE LibraryStep \/ CallStep \/ StartStep \/ UserStep \/ LoopStep
  BY <1>3 DEF LibraryStep, CallStep, StartStep, UserStep, LoopStep, Others
<1>4. CASE \E t \in Callers : NetStep(t) \/ ThreadStep(t)
  BY <1>4 DEF NetStep, ThreadStep, Others
<1>5. CASE \E c \in DOMAIN conns : ServerStep(c)
  BY <1>5 DEF ServerStep, Others
<1>6. CASE UNCHANGED serviceVars
  BY <1>6 DEF serviceVars
<1> QED
  BY <1>1, <1>2, <1>3, <1>4, <1>5, <1>6 DEF ServicesNext

\* Files stay on the disk.
LEMMA DiskGrows ==
  ASSUME DOMAIN disk \subseteq DOMAIN disk'
  PROVE  OpenFiles \subseteq OpenFiles' /\ OpenStreams \subseteq OpenStreams'
BY DEF OpenFiles, OpenStreams

\* What is read of a file is in it.
LEMMA SliceOfFile ==
  ASSUME DiskInv, NEW path \in DOMAIN disk, NEW pos \in Nat, NEW n \in Nat
  PROVE  /\ Slice(path, pos, n) \in Seq({path, Hole})
         /\ Range(Slice(path, pos, n)) \subseteq {path, Hole}
<1> DEFINE s == disk[path]
           to == Least(pos + n, Len(s))
<1>1. s \in Seq({path, Hole})
  BY DEF DiskInv
<1>2. Len(s) \in Nat
  BY <1>1, LenProperties
<1>3. to \in Int /\ to <= Len(s)
  BY <1>2 DEF Least
<1> HIDE DEF s, to
<1>4. \A i \in pos + 1 .. to : i \in 1 .. Len(s)
  BY <1>2, <1>3
<1>5. \A i \in pos + 1 .. to : s[i] \in {path, Hole}
  BY <1>1, <1>4, ElementOfSeq
<1>6. SubSeq(s, pos + 1, to) \in Seq({path, Hole})
  BY <1>3, <1>5, SubSeqProperties
<1>7. Slice(path, pos, n) = SubSeq(s, pos + 1, to)
  BY DEF Slice, s, to
<1>8. \A t \in Seq({path, Hole}) : Range(t) \subseteq {path, Hole}
  BY LenProperties, ElementOfSeq DEF Range
<1> QED
  BY <1>6, <1>7, <1>8

\* A write leaves the file's own bytes, the new ones and holes.
LEMMA WrittenToFile ==
  ASSUME DiskInv, NEW path \in DOMAIN disk, NEW pos \in Int, NEW n \in Nat,
         disk' = [disk EXCEPT ![path] = Written(path, pos, n, path)]
  PROVE  DiskInv' /\ DOMAIN disk' = DOMAIN disk
<1> DEFINE s == disk[path]
           len == IF pos + n > Len(s) THEN pos + n ELSE Len(s)
           w == Written(path, pos, n, path)
<1>1. s \in Seq({path, Hole})
  BY DEF DiskInv
<1>2. Len(s) \in Nat
  BY <1>1, LenProperties
<1>3. len \in Nat
  BY <1>2
<1>4. \A i \in 1 .. len : i <= Len(s) => s[i] \in {path, Hole}
  <2>1. \A i \in 1 .. Len(s) : s[i] \in {path, Hole}
    BY <1>1, ElementOfSeq
  <2> HIDE DEF s
  <2> QED
    BY <1>2, <1>3, <2>1
<1>5. w = [i \in 1 .. len |-> IF i > pos /\ i <= pos + n THEN path
                              ELSE IF i <= Len(s) THEN s[i] ELSE Hole]
  BY DEF Written
<1> HIDE DEF s, len, w
<1>6. w \in [1 .. len -> {path, Hole}]
  BY <1>4, <1>5
<1>7. w \in Seq({path, Hole})
  BY <1>3, <1>6, SeqDef
<1>8. disk' = [disk EXCEPT ![path] = w]
  BY DEF w
<1> QED
  BY <1>7, <1>8 DEF DiskInv

\* A file that is opened is there, empty if it is new or truncated.
LEMMA MadeFile ==
  ASSUME DiskInv, NEW path,
         \/ path \in DOMAIN disk /\ disk' = disk
         \/ disk' = [p \in DOMAIN disk \cup {path} |-> IF p = path THEN << >> ELSE disk[p]]
  PROVE  DiskInv' /\ DOMAIN disk \subseteq DOMAIN disk' /\ path \in DOMAIN disk'
<1>1. \A S : << >> \in Seq(S)
  BY EmptySeq
<1> QED
  BY <1>1 DEF DiskInv

\* A descriptor that is moved stays its file's.
LEMMA MovedFile ==
  ASSUME TableInv, KnownInv, NEW d \in DOMAIN files, NEW pos \in Nat,
         files' = [files EXCEPT ![d].pos = pos], DOMAIN disk' = DOMAIN disk,
         UNCHANGED <<nextFile, opening, streams, known>>
  PROVE  TableInv' /\ KnownInv'
<1>1. OpenFiles' = OpenFiles /\ OpenStreams' = OpenStreams
  BY DEF OpenFiles, OpenStreams
<1>2. files[d] \in OpenFiles
  BY DEF TableInv
<1> DEFINE f == [files[d] EXCEPT !.pos = pos]
<1>3. f \in OpenFiles /\ f.path = files[d].path
  BY <1>2 DEF OpenFiles
<1>4. files' = [files EXCEPT ![d] = f]
  OBVIOUS
<1> HIDE DEF f
<1>5. DOMAIN files' = DOMAIN files /\ \A e \in DOMAIN files : files'[e] = IF e = d THEN f ELSE files[e]
  BY <1>4
<1>6. \A e \in DOMAIN files : files'[e] \in OpenFiles /\ files'[e].path = files[e].path
  BY <1>3, <1>5 DEF TableInv
<1>7. TableInv'
  BY <1>1, <1>5, <1>6 DEF TableInv
<1>8. KnownInv'
  BY <1>5, <1>6 DEF KnownInv
<1> QED
  BY <1>7, <1>8

\* So does a stream.
LEMMA MovedStream ==
  ASSUME TableInv, NEW i \in DOMAIN streams, NEW s \in OpenStreams,
         streams' = [streams EXCEPT ![i] = s], DOMAIN disk' = DOMAIN disk,
         UNCHANGED <<nextFile, files, opening>>
  PROVE  TableInv'
<1>1. OpenFiles' = OpenFiles /\ OpenStreams' = OpenStreams
  BY DEF OpenFiles, OpenStreams
<1>2. streams \in Seq(OpenStreams) /\ i \in 1 .. Len(streams)
  BY LenProperties DEF TableInv
<1>3. streams' \in Seq(OpenStreams)
  BY <1>2, ExceptSeq
<1> QED
  BY <1>1, <1>3 DEF TableInv

\* Opening a file takes a number nobody has.
LEMMA OpenSteps ==
  ASSUME FileInv, NEW t \in Callers,
         EndOpen(t) \/ \E s \in Spellings, f \in OpenFlags : BeginOpen(t, s, f)
  PROVE  FileInv'
<1>1. ASSUME NEW s \in Spellings, NEW f \in OpenFlags, BeginOpen(t, s, f) PROVE FileInv'
  <2> DEFINE path == HostPath(s)
             r == [path |-> path, pos |-> 0, reads |-> Reads(f), writes |-> Writes(f),
                   appends |-> f.append]
  <2>1. UNCHANGED <<files, nextFile, streams, known, got>>
    BY <1>1 DEF BeginOpen
  <2>2. CASE Refused(path, f)
    <3>1. UNCHANGED <<disk, opening>>
      BY <1>1, <2>2 DEF BeginOpen
    <3> QED
      BY <2>1, <3>1 DEF FileInv, DiskInv, TableInv, KnownInv, GotInv, OpenFiles, OpenStreams
  <2>3. CASE ~Refused(path, f)
    <3>1. \/ path \in DOMAIN disk /\ disk' = disk
          \/ disk' = [p \in DOMAIN disk \cup {path} |-> IF p = path THEN << >> ELSE disk[p]]
      BY <1>1, <2>3 DEF BeginOpen
    <3>2. DiskInv' /\ DOMAIN disk \subseteq DOMAIN disk' /\ path \in DOMAIN disk'
      BY <3>1, MadeFile DEF FileInv
    <3>3. opening' = [opening EXCEPT ![t] = r]
      BY <1>1, <2>3 DEF BeginOpen
    <3>4. f \in [access : 0 .. 3, creat : BOOLEAN, trunc : BOOLEAN, append : BOOLEAN]
      BY FilesAssumption
    <3>5. Reads(f) \in BOOLEAN /\ Writes(f) \in BOOLEAN /\ f.append \in BOOLEAN
      BY <3>4 DEF Reads, Writes
    <3>6. r \in OpenFiles'
      BY <3>2, <3>5 DEF OpenFiles
    <3>7. OpenFiles \subseteq OpenFiles' /\ OpenStreams \subseteq OpenStreams'
      BY <3>2, DiskGrows
    <3> HIDE DEF r, path
    <3>8. opening' \in [Callers -> OpenFiles' \cup {None}]
      BY <3>3, <3>6, <3>7 DEF FileInv, TableInv
    <3>9. streams' \in Seq(OpenStreams')
      BY <2>1, <3>7, SeqMonotonic DEF FileInv, TableInv
    <3> QED
      BY <2>1, <3>2, <3>7, <3>8, <3>9 DEF FileInv, TableInv, KnownInv, GotInv
  <2> QED
    BY <2>2, <2>3
<1>2. CASE EndOpen(t)
  <2> DEFINE r == opening[t]
             k == [fd |-> nextFile, path |-> r.path]
  <2>1. /\ files' = [d \in DOMAIN files \cup {nextFile} |-> IF d = nextFile THEN r ELSE files[d]]
        /\ known' = known \cup {k}
        /\ opening' = [opening EXCEPT ![t] = None]
        /\ nextFile' = nextFile + 1
        /\ UNCHANGED <<disk, streams, got>>
    BY <1>2 DEF EndOpen, Insert
  <2>2. r \in OpenFiles
    BY <1>2 DEF EndOpen, FileInv, TableInv
  <2>3. OpenFiles' = OpenFiles /\ OpenStreams' = OpenStreams
    BY <2>1 DEF OpenFiles, OpenStreams
  <2>4. k.fd = nextFile /\ k.path = r.path
    OBVIOUS
  <2> HIDE DEF r, k
  <2>5. /\ nextFile \in Nat /\ nextFile \notin DOMAIN files
        /\ \A d \in DOMAIN files : d \in Nat /\ d < nextFile /\ files[d] \in OpenFiles
    BY DEF FileInv, TableInv
  <2>6. opening' \in [Callers -> OpenFiles \cup {None}]
    BY <2>1 DEF FileInv, TableInv
  <2>7. TableInv'
    BY <2>1, <2>2, <2>3, <2>5, <2>6 DEF FileInv, TableInv
  <2>8. \A j \in known : /\ j.fd \in Nat /\ j.fd < nextFile
                         /\ j.fd \in DOMAIN files => files[j.fd].path = j.path
    BY DEF FileInv, KnownInv
  <2>9. files'[nextFile] = r /\ \A d \in DOMAIN files : files'[d] = files[d]
    BY <2>1, <2>5
  <2>10. KnownInv'
    <3>1. ASSUME NEW j \in known'
          PROVE  j.fd \in Nat /\ j.fd < nextFile' /\ (j.fd \in DOMAIN files' => files'[j.fd].path = j.path)
      <4>1. CASE j = k
        BY <2>1, <2>4, <2>5, <2>9, <4>1
      <4>2. CASE j \in known
        <5>1. j.fd \in Nat /\ j.fd < nextFile /\ (j.fd \in DOMAIN files => files[j.fd].path = j.path)
          BY <2>8, <4>2
        <5>2. j.fd # nextFile /\ j.fd < nextFile + 1
          BY <2>5, <5>1
        <5> QED
          BY <2>1, <2>9, <5>1, <5>2
      <4> QED
        BY <2>1, <3>1, <4>1, <4>2
    <3> QED
      BY <3>1 DEF KnownInv
  <2> QED
    BY <2>1, <2>7, <2>10 DEF FileInv, DiskInv, GotInv
<1> QED
  BY <1>1, <1>2

\* Calls on an open file.
LEMMA CallSteps ==
  ASSUME FileInv, NEW k \in known,
         \/ \E n \in Counts : Read(k, n) \/ Write(k, n)
         \/ \E whence \in 0 .. 2, offset \in Offsets : Lseek(k, whence, offset)
  PROVE  FileInv'
<1> DEFINE f == files[k.fd]
<1>1. /\ k.fd \in DOMAIN files
      /\ UNCHANGED <<nextFile, opening, streams, known>>
  BY DEF Read, Write, Lseek
<1>2. f \in OpenFiles /\ f.path = k.path
  BY <1>1 DEF FileInv, TableInv, KnownInv
<1>3. f.path \in DOMAIN disk /\ f.pos \in Nat
  BY <1>2 DEF OpenFiles
<1>4. Len(disk[f.path]) \in Nat
  BY <1>3, LenProperties DEF FileInv, DiskInv
<1>5. ASSUME NEW n \in Counts, Read(k, n) PROVE FileInv'
  <2> DEFINE data == Slice(f.path, f.pos, n)
  <2>1. n \in Nat
    BY FilesAssumption
  <2>2. data \in Seq({f.path, Hole}) /\ Range(data) \subseteq {f.path, Hole}
    BY <1>3, <2>1, SliceOfFile DEF FileInv
  <2>3. Len(data) \in Nat
    BY <2>2, LenProperties
  <2>4. f.pos + Len(data) \in Nat
    BY <1>3, <2>3
  <2>5. files' = [files EXCEPT ![k.fd].pos = f.pos + Len(data)] /\ disk' = disk
        /\ got' = got \cup {[named |-> k.path, byte |-> b] : b \in Range(data)}
    BY <1>5 DEF Read
  <2> HIDE DEF data
  <2>6. TableInv' /\ KnownInv'
    BY <1>1, <2>4, <2>5, MovedFile DEF FileInv
  <2>7. GotInv'
    BY <1>2, <2>2, <2>5 DEF FileInv, GotInv
  <2> QED
    BY <2>5, <2>6, <2>7 DEF FileInv, DiskInv
<1>6. ASSUME NEW n \in Counts, Write(k, n) PROVE FileInv'
  <2> DEFINE pos == IF f.appends THEN Len(disk[f.path]) ELSE f.pos
  <2>1. n \in Nat
    BY FilesAssumption
  <2>2. pos \in Nat
    BY <1>3, <1>4
  <2>3. disk' = [disk EXCEPT ![f.path] = Written(f.path, pos, n, k.path)]
        /\ files' = [files EXCEPT ![k.fd].pos = pos + n] /\ got' = got
    BY <1>6 DEF Write
  <2> HIDE DEF pos, f
  <2>4. disk' = [disk EXCEPT ![f.path] = Written(f.path, pos, n, f.path)]
    BY <1>2, <2>3
  <2>5. pos \in Int /\ pos + n \in Nat
    BY <2>1, <2>2
  <2>6. DiskInv' /\ DOMAIN disk' = DOMAIN disk
    BY <1>3, <2>1, <2>4, <2>5, WrittenToFile DEF FileInv
  <2>7. TableInv' /\ KnownInv'
    BY <1>1, <2>3, <2>5, <2>6, MovedFile DEF FileInv
  <2> QED
    BY <2>3, <2>6, <2>7 DEF FileInv, GotInv
<1>7. ASSUME NEW whence \in 0 .. 2, NEW offset \in Offsets, Lseek(k, whence, offset) PROVE FileInv'
  <2>1. PICK pos \in 0 .. MaxLength : files' = [files EXCEPT ![k.fd].pos = pos]
    BY <1>7 DEF Lseek
  <2>2. UNCHANGED <<disk, got>>
    BY <1>7 DEF Lseek
  <2>3. pos \in Nat
    BY FilesAssumption
  <2>4. TableInv' /\ KnownInv'
    BY <1>1, <2>1, <2>2, <2>3, MovedFile DEF FileInv
  <2> QED
    BY <2>2, <2>4 DEF FileInv, DiskInv, GotInv
<1> QED
  BY <1>5, <1>6, <1>7

\* Closing, by number or by stream.
LEMMA CloseSteps ==
  ASSUME FileInv, (\E fd : CloseFile(fd)) \/ \E name : Mount(name)
  PROVE  FileInv'
<1>1. UNCHANGED <<disk, nextFile, opening, streams, known, got>>
  BY DEF CloseFile, Mount
<1>2. DOMAIN files' \subseteq DOMAIN files /\ \A d \in DOMAIN files' : files'[d] = files[d]
  BY DEF CloseFile, Mount
<1> QED
  BY <1>1, <1>2 DEF FileInv, DiskInv, TableInv, KnownInv, GotInv, OpenFiles, OpenStreams

\* What a flush leaves in the stream's file.
LEMMA FlushedFile ==
  ASSUME FileInv, NEW s \in OpenStreams, disk' = Flushed(s)
  PROVE  DiskInv' /\ DOMAIN disk' = DOMAIN disk
<1> DEFINE at == IF s.mode = "a" THEN Len(disk[s.path]) ELSE s.pos - s.held
<1>1. s.path \in DOMAIN disk /\ s.pos \in Nat /\ s.held \in Nat
  BY DEF OpenStreams
<1>2. Len(disk[s.path]) \in Nat
  BY <1>1, LenProperties DEF FileInv, DiskInv
<1>3. at \in Int
  BY <1>1, <1>2
<1>4. disk' = [disk EXCEPT ![s.path] = Written(s.path, at, s.held, s.path)]
  BY DEF Flushed
<1> HIDE DEF at
<1> QED
  BY <1>1, <1>3, <1>4, WrittenToFile DEF FileInv

\* A stream comes with its file.
LEMMA FopenStep ==
  ASSUME FileInv, NEW s \in Spellings, NEW mode \in Modes, Fopen(s, mode)
  PROVE  FileInv'
<1> DEFINE path == HostPath(s)
<1>1. UNCHANGED <<files, nextFile, opening, known, got>>
  BY DEF Fopen
<1>2. CASE mode = "r" /\ path \notin DOMAIN disk
  BY <1>1, <1>2 DEF Fopen, FileInv, DiskInv, TableInv, KnownInv, GotInv, OpenFiles, OpenStreams
<1>3. CASE ~(mode = "r" /\ path \notin DOMAIN disk)
  <2>1. \/ path \in DOMAIN disk /\ disk' = disk
        \/ disk' = [p \in DOMAIN disk \cup {path} |-> IF p = path THEN << >> ELSE disk[p]]
    BY <1>3 DEF Fopen
  <2>2. DiskInv' /\ DOMAIN disk \subseteq DOMAIN disk' /\ path \in DOMAIN disk'
    BY <2>1, MadeFile DEF FileInv
  <2>3. streams' = Append(streams, Stream(path, mode))
    BY <1>3 DEF Fopen
  <2>4. Stream(path, mode) \in OpenStreams'
    BY <2>2 DEF Stream, OpenStreams
  <2>5. OpenFiles \subseteq OpenFiles' /\ OpenStreams \subseteq OpenStreams'
    BY <2>2, DiskGrows
  <2> DEFINE all == OpenStreams'
  <2>6. streams \in Seq(all)
    BY <2>5, SeqMonotonic DEF FileInv, TableInv
  <2> HIDE DEF path, all
  <2>7. streams' \in Seq(all)
    BY <2>3, <2>4, <2>6, AppendProperties DEF all
  <2> QED
    BY <1>1, <2>2, <2>5, <2>7 DEF FileInv, TableInv, KnownInv, GotInv, all
<1> QED
  BY <1>2, <1>3

\* Calls on a stream.
LEMMA StreamSteps ==
  ASSUME FileInv, NEW i \in DOMAIN streams,
         \/ \E n \in Counts : Fread(i, n) \/ Fwrite(i, n)
         \/ Fflush(i) \/ Fclose(i) \/ \E offset \in Offsets : Fseek(i, offset)
  PROVE  FileInv'
<1> DEFINE s == streams[i]
           Like(at, unwritten, opened) ==
             [path |-> s.path, mode |-> s.mode, pos |-> at, held |-> unwritten, open |-> opened]
<1>1. UNCHANGED <<files, nextFile, opening, known>>
  BY DEF Fread, Fwrite, Fflush, Fclose, Fseek
<1>2. s \in OpenStreams
  BY LenProperties, ElementOfSeq DEF FileInv, TableInv
<1>3. s = Like(s.pos, s.held, s.open)
      /\ s.path \in DOMAIN disk /\ s.mode \in Modes /\ s.pos \in Nat /\ s.held \in Nat /\ s.open \in BOOLEAN
  BY <1>2 DEF OpenStreams
<1>4. ASSUME NEW at \in Nat, NEW unwritten \in Nat, NEW opened \in BOOLEAN
      PROVE  Like(at, unwritten, opened) \in OpenStreams
  BY <1>3 DEF OpenStreams
<1>5. ASSUME NEW r \in OpenStreams, streams' = [streams EXCEPT ![i] = r], DOMAIN disk' = DOMAIN disk
      PROVE  TableInv' /\ KnownInv'
  <2>1. TableInv'
    BY <1>1, <1>5, MovedStream DEF FileInv
  <2> QED
    BY <1>1, <2>1 DEF FileInv, KnownInv
<1>6. ASSUME NEW at
      PROVE  [s EXCEPT !.pos = at] = Like(at, s.held, s.open)
  <2> HIDE DEF s
  <2> QED
    BY <1>3
<1>7. ASSUME NEW unwritten
      PROVE  [s EXCEPT !.held = unwritten] = Like(s.pos, unwritten, s.open)
  <2> HIDE DEF s
  <2> QED
    BY <1>3
<1>8. ASSUME NEW unwritten, NEW at
      PROVE  [s EXCEPT !.held = unwritten, !.pos = at] = Like(at, unwritten, s.open)
  <2> DEFINE a == [s EXCEPT !.held = unwritten]
  <2>1. a = Like(s.pos, unwritten, s.open)
    BY <1>7
  <2> HIDE DEF a, s
  <2>2. [a EXCEPT !.pos = at] = Like(at, unwritten, s.open)
    BY <2>1
  <2> QED
    BY <2>2 DEF a
<1>9. ASSUME NEW unwritten, NEW opened
      PROVE  [s EXCEPT !.held = unwritten, !.open = opened] = Like(s.pos, unwritten, opened)
  <2> DEFINE a == [s EXCEPT !.held = unwritten]
  <2>1. a = Like(s.pos, unwritten, s.open)
    BY <1>7
  <2> HIDE DEF a, s
  <2>2. [a EXCEPT !.open = opened] = Like(s.pos, unwritten, opened)
    BY <2>1
  <2> QED
    BY <2>2 DEF a
<1>10. ASSUME NEW n \in Counts, Fread(i, n) PROVE FileInv'
  <2> DEFINE data == Slice(s.path, s.pos, n)
  <2>1. n \in Nat
    BY FilesAssumption
  <2>2. data \in Seq({s.path, Hole}) /\ Range(data) \subseteq {s.path, Hole}
    BY <1>3, <2>1, SliceOfFile DEF FileInv
  <2>3. Len(data) \in Nat
    BY <2>2, LenProperties
  <2>4. s.pos + Len(data) \in Nat
    BY <1>3, <2>3
  <2>5. streams' = [streams EXCEPT ![i] = [s EXCEPT !.pos = s.pos + Len(data)]] /\ disk' = disk
        /\ got' = got \cup {[named |-> s.path, byte |-> b] : b \in Range(data)}
    BY <1>10 DEF Fread
  <2> DEFINE at == s.pos + Len(data)
             r == Like(at, s.held, s.open)
  <2>6. r \in OpenStreams
    <3>1. at \in Nat
      BY <2>4
    <3> HIDE DEF at
    <3> QED
      BY <1>3, <1>4, <3>1
  <2>7. streams' = [streams EXCEPT ![i] = r]
    <3>1. streams' = [streams EXCEPT ![i] = [s EXCEPT !.pos = at]]
      BY <2>5
    <3> HIDE DEF s, at
    <3> QED
      BY <1>6, <3>1
  <2>8. DOMAIN disk' = DOMAIN disk
    BY <2>5
  <2>9. TableInv' /\ KnownInv'
    <3> HIDE DEF r
    <3> QED
      BY <1>5, <2>6, <2>7, <2>8
  <2> HIDE DEF data, s
  <2>10. GotInv'
    BY <2>2, <2>5 DEF FileInv, GotInv
  <2> QED
    BY <2>5, <2>9, <2>10 DEF FileInv, DiskInv
<1>11. ASSUME NEW n \in Counts, Fwrite(i, n) PROVE FileInv'
  <2> DEFINE r == Like(s.pos + n, s.held + n, s.open)
  <2>1. n \in Nat
    BY FilesAssumption
  <2>2. s.pos + n \in Nat /\ s.held + n \in Nat
    BY <1>3, <2>1
  <2>3. streams' = [streams EXCEPT ![i] = [s EXCEPT !.held = s.held + n, !.pos = s.pos + n]]
        /\ UNCHANGED <<disk, got>>
    BY <1>11 DEF Fwrite
  <2>4. r \in OpenStreams
    BY <1>3, <1>4, <2>2
  <2>5. streams' = [streams EXCEPT ![i] = r]
    BY <1>8, <2>3
  <2>6. DOMAIN disk' = DOMAIN disk
    BY <2>3
  <2>7. TableInv' /\ KnownInv'
    <3> HIDE DEF r
    <3> QED
      BY <1>5, <2>4, <2>5, <2>6
  <2> QED
    BY <2>3, <2>7 DEF FileInv, DiskInv, GotInv
<1>12. CASE Fflush(i) \/ Fclose(i) \/ \E offset \in Offsets : Fseek(i, offset)
  <2>1. disk' = Flushed(s) /\ got' = got
    BY <1>12 DEF Fflush, Fclose, Fseek
  <2>2. DiskInv' /\ DOMAIN disk' = DOMAIN disk
    BY <1>2, <2>1, FlushedFile
  <2>3. \E r \in OpenStreams : streams' = [streams EXCEPT ![i] = r]
    <3>1. CASE Fflush(i)
      <4>1. streams' = [streams EXCEPT ![i] = [s EXCEPT !.held = 0]]
        BY <3>1 DEF Fflush
      <4>2. streams' = [streams EXCEPT ![i] = Like(s.pos, 0, s.open)]
        BY <1>7, <4>1
      <4>3. Like(s.pos, 0, s.open) \in OpenStreams
        BY <1>3, <1>4
      <4> QED
        BY <4>2, <4>3
    <3>2. CASE Fclose(i)
      <4>1. streams' = [streams EXCEPT ![i] = [s EXCEPT !.held = 0, !.open = FALSE]]
        BY <3>2 DEF Fclose
      <4>2. streams' = [streams EXCEPT ![i] = Like(s.pos, 0, FALSE)]
        BY <1>9, <4>1
      <4>3. Like(s.pos, 0, FALSE) \in OpenStreams
        BY <1>3, <1>4
      <4> QED
        BY <4>2, <4>3
    <3>3. CASE \E offset \in Offsets : Fseek(i, offset)
      <4>1. PICK offset \in 0 .. MaxLength :
              streams' = [streams EXCEPT ![i] = [s EXCEPT !.held = 0, !.pos = offset]]
        BY <3>3 DEF Fseek
      <4>2. offset \in Nat
        BY FilesAssumption
      <4>3. streams' = [streams EXCEPT ![i] = Like(offset, 0, s.open)]
        BY <1>8, <4>1
      <4>4. Like(offset, 0, s.open) \in OpenStreams
        BY <1>3, <1>4, <4>2
      <4> QED
        BY <4>3, <4>4
    <3> QED
      BY <1>12, <3>1, <3>2, <3>3
  <2>4. TableInv' /\ KnownInv'
    BY <1>5, <2>2, <2>3
  <2> QED
    BY <2>1, <2>2, <2>4 DEF FileInv, GotInv
<1> QED
  BY <1>10, <1>11, <1>12

\* No file is open at the start.
LEMMA FileInvInit == ServicesInit => FileInv
<1> SUFFICES ASSUME ServicesInit PROVE FileInv
  OBVIOUS
<1>1. InitFiles
  BY DEF ServicesInit
<1>2. << >> \in Seq(OpenStreams)
  BY EmptySeq
<1>3. DiskInv
  BY <1>1, FilesAssumption DEF InitFiles, DiskInv
<1>4. DOMAIN files = {}
  BY <1>1 DEF InitFiles
<1> QED
  BY <1>1, <1>2, <1>3, <1>4, FilesAssumption DEF InitFiles, FileInv, TableInv, KnownInv, GotInv

\* The invariant of the files is inductive.
LEMMA FileInvNext == FileInv /\ [ServicesNext]_serviceVars => FileInv'
<1> SUFFICES ASSUME FileInv, [FileNext]_fileVars
             PROVE  FileInv'
  BY FilesOfServices
<1>1. CASE UNCHANGED fileVars
  BY <1>1 DEF fileVars, FileInv, DiskInv, TableInv, KnownInv, GotInv, OpenFiles, OpenStreams
<1>2. CASE FileNext
  BY <1>2, OpenSteps, CallSteps, CloseSteps, FopenStep, StreamSteps DEF FileNext
<1> QED
  BY <1>1, <1>2

\* Every byte of a file was written through a descriptor or a stream that was opened by
\* that file's path, and is read through such only, for any threads and calls: numbers
\* are never used again, so a descriptor that was closed reaches no other file
\* (sceKernelOpen, sceKernelRead, sceKernelWrite, fwrite and the rest).
THEOREM BytesAlwaysStay == ServicesSpec => []BytesStayInTheirFile
<1>1. FileInv => BytesStayInTheirFile
  <2>1. ASSUME NEW S, NEW t \in Seq(S) PROVE Range(t) \subseteq S
    BY LenProperties, ElementOfSeq DEF Range
  <2> QED
    BY <2>1 DEF FileInv, DiskInv, GotInv, BytesStayInTheirFile
<1>2. ServicesInit /\ [][ServicesNext]_serviceVars => []FileInv
  BY FileInvInit, FileInvNext, PTL
<1> QED
  BY <1>1, <1>2, PTL DEF ServicesSpec
(***************************************************************************)
(* Sockets.                                                                *)
(***************************************************************************)

ConnRecords ==
  [peer : {"silent", "echo"}, open : BOOLEAN, up : Seq(Nat), down : Seq(Nat), sent : Nat,
   received : Seq(Nat)]

\* Without the marks, a stream carries the first n bytes in their order, each once.
Data(s) == {i \in DOMAIN s : s[i] # Mark}

Carries(s, n) ==
  /\ {s[i] : i \in Data(s)} = 1 .. n
  /\ \A i, j \in Data(s) : i < j => s[i] < s[j]

\* The server has yet to read the last bytes that were sent, and while the
\* connection is open it has sent back all the others.
UpInv(x) ==
  /\ Len(x.up) <= x.sent
  /\ \A i \in 1 .. Len(x.up) : x.up[i] = x.sent - Len(x.up) + i

DownInv(x) ==
  \E n \in 0 .. x.sent - Len(x.up) :
    /\ x.open => n = x.sent - Len(x.up)
    /\ Carries(x.received \o x.down, n)

Faithful == {x \in ConnRecords : UpInv(x) /\ DownInv(x)}

ConnInv == conns \in Seq(Faithful)

ConnNext == (\E t \in Callers : Continue(t)) \/ \E c \in DOMAIN conns : Serve(c)

\* Every step of a game is one of these, or leaves the connections alone.
LEMMA ConnsOfServices == [ServicesNext]_serviceVars => conns' = conns \/ ConnNext
<1> SUFFICES ASSUME [ServicesNext]_serviceVars, conns' # conns
             PROVE  ConnNext
  OBVIOUS
<1>1. CASE \E t \in Callers : GuestCall(t)
  <2>1. PICK t \in Callers : GuestCall(t)
    BY <1>1
  <2>2. CASE FileCall(t)
    BY <2>2 DEF FileCall, socketVars
  <2>3. CASE SocketCall(t)
    BY <2>3 DEF SocketCall, Socket, Call
  <2>4. CASE \E fd \in {k.fd : k \in known} \cup Numbers : CloseByNumber(t, fd)
    BY <2>4 DEF CloseByNumber, Call, socketVars
  <2> QED
    BY <2>1, <2>2, <2>3, <2>4 DEF GuestCall, socketVars
<1>2. CASE \E t \in Callers : NetStep(t)
  BY <1>2 DEF NetStep, ConnNext
<1>3. CASE \E c \in DOMAIN conns : ServerStep(c)
  BY <1>3 DEF ServerStep, ConnNext
<1>4. CASE FileStep \/ LibraryStep \/ CallStep \/ StartStep \/ UserStep \/ LoopStep
  BY <1>4 DEF FileStep, LibraryStep, CallStep, StartStep, UserStep, LoopStep, Others, socketVars
<1>5. CASE \E t \in Callers : ThreadStep(t)
  BY <1>5 DEF ThreadStep, Others, socketVars
<1>6. CASE UNCHANGED serviceVars
  BY <1>6 DEF serviceVars, socketVars
<1> QED
  BY <1>1, <1>2, <1>3, <1>4, <1>5, <1>6 DEF ServicesNext

\* Nothing has been sent over a new connection.
LEMMA EmptyCarries == Carries(<< >>, 0)
  BY DEF Carries, Data

\* Concatenation is associative.
LEMMA Regrouped ==
  ASSUME NEW s \in Seq(Nat), NEW t \in Seq(Nat), NEW u \in Seq(Nat)
  PROVE  (s \o t) \o u = s \o (t \o u)
BY ConcatAssociative

\* A mark adds nothing to what a stream carries.
LEMMA MarkCarries ==
  ASSUME NEW s \in Seq(Nat), NEW n \in Nat, Carries(s, n)
  PROVE  Carries(s \o <<Mark>>, n)
<1> DEFINE mark == <<Mark>>
           e == s \o mark
           len == Len(s)
<1>1. mark \in Seq(Nat) /\ Len(mark) = 1 /\ mark[1] = Mark
  BY DEF Mark
<1>2. len \in Nat /\ DOMAIN s = 1 .. len
  BY LenProperties
<1>3. e \in Seq(Nat) /\ Len(e) = len + 1
      /\ \A i \in 1 .. len + 1 : e[i] = IF i <= len THEN s[i] ELSE mark[i - len]
  BY <1>1, ConcatProperties
<1>4. DOMAIN e = 1 .. len + 1
  BY <1>3, LenProperties
<1> HIDE DEF e, len, mark
<1>5. \A i \in 1 .. len : e[i] = s[i]
  BY <1>2, <1>3
<1>6. e[len + 1] = Mark
  <2>1. len + 1 \in 1 .. len + 1 /\ ~(len + 1 <= len) /\ (len + 1) - len = 1
    BY <1>2
  <2>2. e[len + 1] = mark[(len + 1) - len]
    BY <1>3, <2>1
  <2> QED
    BY <1>1, <2>1, <2>2
<1>7. Data(e) = Data(s)
  <2>1. \A i : i \in 1 .. len + 1 <=> (i \in 1 .. len \/ i = len + 1)
    BY <1>2
  <2> QED
    BY <1>2, <1>4, <1>5, <1>6, <2>1 DEF Data
<1>8. \A i \in Data(s) : e[i] = s[i]
  BY <1>2, <1>5 DEF Data
<1> QED
  BY <1>7, <1>8 DEF Carries, e, mark

\* The bytes that come next are added to what a stream carries.
LEMMA PartCarries ==
  ASSUME NEW s \in Seq(Nat), NEW n \in Nat, Carries(s, n),
         NEW part \in Seq(Nat), \A i \in 1 .. Len(part) : part[i] = n + i
  PROVE  Carries(s \o part, n + Len(part))
<1> DEFINE e == s \o part
           len == Len(s)
           m == Len(part)
<1>1. len \in Nat /\ m \in Nat /\ DOMAIN s = 1 .. len
  BY LenProperties
<1>2. e \in Seq(Nat) /\ Len(e) = len + m
      /\ \A i \in 1 .. len + m : e[i] = IF i <= len THEN s[i] ELSE part[i - len]
  BY ConcatProperties
<1>3. DOMAIN e = 1 .. len + m
  BY <1>2, LenProperties
<1>4. \A i \in 1 .. m : part[i] = n + i
  OBVIOUS
<1> HIDE DEF e, len, m
<1>5. \A i \in 1 .. len : e[i] = s[i]
  BY <1>1, <1>2
<1>6. \A i \in len + 1 .. len + m : e[i] = n + (i - len)
  <2> TAKE i \in len + 1 .. len + m
  <2>1. i \in 1 .. len + m /\ ~(i <= len) /\ i - len \in 1 .. m
    BY <1>1
  <2>2. e[i] = part[i - len]
    BY <1>2, <2>1
  <2> QED
    BY <1>4, <2>1, <2>2
<1>7. \A i \in Data(s) : i \in 1 .. len /\ s[i] \in 1 .. n
  BY <1>1 DEF Data, Carries
<1>8. \A i : i \in Data(e) <=> (i \in Data(s) \/ i \in len + 1 .. len + m)
  <2>1. \A i : i \in 1 .. len + m <=> (i \in 1 .. len \/ i \in len + 1 .. len + m)
    BY <1>1
  <2>2. \A i \in len + 1 .. len + m : e[i] # Mark
    BY <1>1, <1>6 DEF Mark
  <2> QED
    BY <1>1, <1>3, <1>5, <2>1, <2>2 DEF Data
<1>9. \A i \in Data(s) : e[i] = s[i]
  BY <1>5, <1>7
<1>10. {e[i] : i \in Data(e)} = 1 .. n + m
  <2>1. ASSUME NEW i \in Data(e) PROVE e[i] \in 1 .. n + m
    BY <1>1, <1>6, <1>7, <1>8, <1>9
  <2>2. ASSUME NEW v \in 1 .. n + m PROVE \E i \in Data(e) : e[i] = v
    <3>1. CASE v <= n
      <4>1. v \in 1 .. n
        BY <1>1, <3>1
      <4>2. v \in {s[i] : i \in Data(s)}
        BY <4>1 DEF Carries
      <4> QED
        BY <1>8, <1>9, <4>2
    <3>2. CASE ~(v <= n)
      <4>1. len + (v - n) \in len + 1 .. len + m /\ n + ((len + (v - n)) - len) = v
        BY <1>1, <3>2
      <4>2. e[len + (v - n)] = v
        BY <1>6, <4>1
      <4> QED
        BY <1>8, <4>1, <4>2
    <3> QED
      BY <3>1, <3>2
  <2> QED
    BY <2>1, <2>2
<1>11. ASSUME NEW i \in Data(e), NEW j \in Data(e), i < j PROVE e[i] < e[j]
  <2>1. CASE i \in Data(s) /\ j \in Data(s)
    BY <1>9, <1>11, <2>1 DEF Carries
  <2>2. CASE i \in Data(s) /\ j \in len + 1 .. len + m
    <3>1. e[i] \in 1 .. n
      BY <1>7, <1>9, <2>2
    <3>2. e[j] = n + (j - len)
      BY <1>6, <2>2
    <3> QED
      BY <1>1, <2>2, <3>1, <3>2
  <2>3. CASE i \in len + 1 .. len + m /\ j \in Data(s)
    BY <1>1, <1>7, <1>11, <2>3
  <2>4. CASE i \in len + 1 .. len + m /\ j \in len + 1 .. len + m
    <3>1. e[i] = n + (i - len) /\ e[j] = n + (j - len)
      BY <1>6, <2>4
    <3> QED
      BY <1>1, <1>11, <2>4, <3>1
  <2> QED
    BY <1>8, <2>1, <2>2, <2>3, <2>4
<1> QED
  BY <1>10, <1>11 DEF Carries, e, m

\* A step of one connection leaves the others as they are.
LEMMA MovedConn ==
  ASSUME ConnInv, NEW c, NEW r, c \in DOMAIN conns => r \in Faithful,
         conns' = [conns EXCEPT ![c] = r]
  PROVE  ConnInv'
<1> DEFINE all == Faithful
<1>1. conns \in Seq(all)
  BY DEF ConnInv
<1>2. DOMAIN conns = 1 .. Len(conns)
  BY <1>1, LenProperties
<1> HIDE DEF all
<1>3. conns' \in Seq(all)
  <2>1. CASE c \in DOMAIN conns
    BY <1>1, <1>2, <2>1, ExceptSeq DEF all
  <2>2. CASE c \notin DOMAIN conns
    <3>1. conns' = conns
      BY <1>1, <2>2
    <3> QED
      BY <1>1, <3>1
  <2> QED
    BY <2>1, <2>2
<1> QED
  BY <1>3 DEF ConnInv, all, Faithful, ConnRecords, UpInv, DownInv, Carries, Data

\* A connection that is closed keeps what it carries.
LEMMA DroppedConn ==
  ASSUME ConnInv, NEW c, conns' = Dropped(c)
  PROVE  ConnInv'
<1>1. CASE c = Nobody
  BY <1>1 DEF Dropped, ConnInv, Faithful, ConnRecords, UpInv, DownInv, Carries, Data
<1>2. CASE c # Nobody
  <2> DEFINE x == conns[c]
             r == [x EXCEPT !.open = FALSE]
  <2>1. conns' = [conns EXCEPT ![c] = r]
    BY <1>2 DEF Dropped
  <2>2. ASSUME c \in DOMAIN conns PROVE r \in Faithful
    <3>1. x \in Faithful
      BY <2>2, LenProperties, ElementOfSeq DEF ConnInv
    <3> HIDE DEF x
    <3>2. r \in ConnRecords /\ r.open = FALSE
          /\ r.up = x.up /\ r.down = x.down /\ r.sent = x.sent /\ r.received = x.received
      BY <3>1 DEF Faithful, ConnRecords
    <3> HIDE DEF r
    <3>3. UpInv(r) /\ DownInv(r)
      BY <3>1, <3>2 DEF Faithful, UpInv, DownInv
    <3> QED
      BY <3>2, <3>3 DEF Faithful
  <2> HIDE DEF r
  <2> QED
    BY <2>1, <2>2, MovedConn
<1> QED
  BY <1>1, <1>2

\* A connection is made with nothing on its way.
LEMMA NewConn ==
  ASSUME ConnInv, NEW peer \in {"silent", "echo"},
         conns' = Append(conns, [peer |-> peer, open |-> TRUE, up |-> << >>, down |-> << >>,
                                 sent |-> 0, received |-> << >>])
  PROVE  ConnInv'
<1> DEFINE r == [peer |-> peer, open |-> TRUE, up |-> << >>, down |-> << >>, sent |-> 0, received |-> << >>]
           all == Faithful
<1>1. << >> \in Seq(Nat) /\ Len(<< >>) = 0 /\ << >> \o << >> = << >>
  <2>1. << >> \in Seq(Nat)
    BY EmptySeq
  <2> QED
    BY <2>1, ConcatEmptySeq, EmptySeq
<1>2. r \in ConnRecords
  BY <1>1 DEF ConnRecords
<1>3. UpInv(r)
  BY <1>1 DEF UpInv
<1>4. DownInv(r)
  BY <1>1, EmptyCarries DEF DownInv
<1>5. r \in all
  BY <1>2, <1>3, <1>4 DEF Faithful
<1>6. conns \in Seq(all) /\ conns' = Append(conns, r)
  BY DEF ConnInv
<1> HIDE DEF r, all
<1>7. conns' \in Seq(all)
  BY <1>5, <1>6, AppendProperties
<1> QED
  BY <1>7 DEF ConnInv, all, Faithful, ConnRecords, UpInv, DownInv, Carries, Data

\* What replaces fields of a connection is a connection.
LEMMA ConnUpdates ==
  ASSUME NEW x \in ConnRecords, NEW v
  PROVE  /\ [x EXCEPT !.sent = v]
              = [peer |-> x.peer, open |-> x.open, up |-> x.up, down |-> x.down, sent |-> v,
                 received |-> x.received]
         /\ [x EXCEPT !.received = v]
              = [peer |-> x.peer, open |-> x.open, up |-> x.up, down |-> x.down, sent |-> x.sent,
                 received |-> v]
         /\ [x EXCEPT !.up = v]
              = [peer |-> x.peer, open |-> x.open, up |-> v, down |-> x.down, sent |-> x.sent,
                 received |-> x.received]
<1>1. x = [peer |-> x.peer, open |-> x.open, up |-> x.up, down |-> x.down, sent |-> x.sent,
           received |-> x.received]
  BY DEF ConnRecords
<1>2. [x EXCEPT !.sent = v]
        = [peer |-> x.peer, open |-> x.open, up |-> x.up, down |-> x.down, sent |-> v,
           received |-> x.received]
  BY <1>1
<1>3. [x EXCEPT !.received = v]
        = [peer |-> x.peer, open |-> x.open, up |-> x.up, down |-> x.down, sent |-> x.sent,
           received |-> v]
  BY <1>1
<1>4. [x EXCEPT !.up = v]
        = [peer |-> x.peer, open |-> x.open, up |-> v, down |-> x.down, sent |-> x.sent,
           received |-> x.received]
  BY <1>1
<1> QED
  BY <1>2, <1>3, <1>4

\* What is sent is put at the end of what goes up.
LEMMA SentConn ==
  ASSUME ConnInv, NEW c,
         conns' = [conns EXCEPT ![c].sent = @ + 1, ![c].up = Append(@, conns[c].sent + 1)]
  PROVE  ConnInv'
<1> DEFINE x == conns[c]
           up == Append(x.up, x.sent + 1)
           a == [x EXCEPT !.sent = x.sent + 1]
           r == [a EXCEPT !.up = up]
<1>1. ASSUME c \in DOMAIN conns PROVE r \in Faithful /\ conns' = [conns EXCEPT ![c] = r]
  <2>1. x \in Faithful
    BY <1>1, LenProperties, ElementOfSeq DEF ConnInv
  <2>2. x = [peer |-> x.peer, open |-> x.open, up |-> x.up, down |-> x.down, sent |-> x.sent,
             received |-> x.received]
        /\ x.peer \in {"silent", "echo"} /\ x.open \in BOOLEAN /\ x.up \in Seq(Nat)
        /\ x.down \in Seq(Nat) /\ x.sent \in Nat /\ x.received \in Seq(Nat)
    BY <2>1 DEF Faithful, ConnRecords
  <2>3. conns' = [conns EXCEPT ![c] = r]
    BY <1>1, <2>2
  <2>4. Len(x.up) \in Nat
    BY <2>2, LenProperties
  <2>5. up \in Seq(Nat) /\ Len(up) = Len(x.up) + 1
        /\ (\A i \in 1 .. Len(x.up) : up[i] = x.up[i]) /\ up[Len(x.up) + 1] = x.sent + 1
    BY <2>2, AppendProperties
  <2> DEFINE len == Len(x.up)
             sent == x.sent
  <2>6. Len(x.up) = len /\ x.sent = sent /\ len \in Nat /\ sent \in Nat
    BY <2>2, <2>4
  <2>7. len <= sent /\ \A i \in 1 .. len : x.up[i] = sent - len + i
    BY <2>1 DEF Faithful, UpInv
  <2> HIDE DEF x, up, len, sent
  <2>8. r = [peer |-> x.peer, open |-> x.open, up |-> up, down |-> x.down, sent |-> sent + 1,
             received |-> x.received]
    <3>1. a = [peer |-> x.peer, open |-> x.open, up |-> x.up, down |-> x.down, sent |-> sent + 1,
               received |-> x.received]
      <4>1. x \in ConnRecords
        BY <2>1 DEF Faithful
      <4> QED
        BY <2>6, <4>1, ConnUpdates
    <3> HIDE DEF a
    <3> QED
      BY <3>1
  <2>9. r \in ConnRecords
    BY <2>2, <2>5, <2>6, <2>8 DEF ConnRecords
  <2>10. r.up = up /\ r.sent = sent + 1 /\ r.open = x.open /\ r.received = x.received /\ r.down = x.down
    BY <2>8
  <2> HIDE DEF r
  <2>11. Len(r.up) = len + 1
    BY <2>5, <2>6, <2>10
  <2>12. \A i \in 1 .. len + 1 : r.up[i] = (sent + 1) - (len + 1) + i
    <3> TAKE i \in 1 .. len + 1
    <3>1. CASE i \in 1 .. len
      BY <2>5, <2>6, <2>7, <2>10, <3>1
    <3>2. CASE i = len + 1
      BY <2>5, <2>6, <2>10, <3>2
    <3> QED
      BY <2>6, <3>1, <3>2
  <2>13. UpInv(r)
    BY <2>6, <2>7, <2>10, <2>11, <2>12 DEF UpInv
  <2>14. (sent + 1) - (len + 1) = sent - len
    BY <2>6
  <2>15. DownInv(r)
    BY <2>1, <2>6, <2>10, <2>11, <2>14 DEF Faithful, DownInv
  <2> QED
    BY <2>3, <2>9, <2>13, <2>15 DEF Faithful
<1>2. ASSUME c \notin DOMAIN conns PROVE conns' = conns
  BY <1>2, LenProperties DEF ConnInv
<1> HIDE DEF r
<1>3. CASE c \in DOMAIN conns
  BY <1>1, <1>3, MovedConn
<1>4. CASE c \notin DOMAIN conns
  BY <1>2, <1>4 DEF ConnInv, Faithful, ConnRecords, UpInv, DownInv, Carries, Data
<1> QED
  BY <1>3, <1>4

Taking(c, n) ==
  [conns EXCEPT ![c].received = @ \o SubSeq(conns[c].down, 1, n),
                ![c].down = SubSeq(@, n + 1, Len(@))]

\* What is received is taken off the front of what is on its way.
LEMMA ReceivedConn ==
  ASSUME ConnInv, NEW c, NEW n \in 1 .. Len(conns[c].down), conns' = Taking(c, n)
  PROVE  ConnInv'
<1>0. conns' = [conns EXCEPT ![c].received = @ \o SubSeq(conns[c].down, 1, n),
                             ![c].down = SubSeq(@, n + 1, Len(@))]
  BY Zenon DEF Taking
<1> DEFINE x == conns[c]
           more == x.received \o SubSeq(x.down, 1, n)
           rest == SubSeq(x.down, n + 1, Len(x.down))
           a == [x EXCEPT !.received = more]
           r == [a EXCEPT !.down = rest]
<1>1. ASSUME c \in DOMAIN conns PROVE r \in Faithful /\ conns' = [conns EXCEPT ![c] = r]
  <2>1. x \in Faithful
    BY <1>1, LenProperties, ElementOfSeq DEF ConnInv
  <2>2. x \in ConnRecords
    BY <2>1 DEF Faithful
  <2>3. x.received \in Seq(Nat) /\ x.down \in Seq(Nat)
    BY <2>2 DEF ConnRecords
  <2>4. conns' = [conns EXCEPT ![c] = r]
    BY <1>0, <1>1, <2>2 DEF ConnRecords
  <2>5. n \in 1 .. Len(x.down)
    OBVIOUS
  <2> HIDE DEF x
  <2> DEFINE down == x.down
             len == Len(down)
             first == SubSeq(down, 1, n)
  <2>6. down \in Seq(Nat) /\ len \in Nat /\ n \in 1 .. len
    BY <2>3, <2>5, LenProperties
  <2>7. first \in Seq(Nat) /\ rest \in Seq(Nat) /\ first \o rest = down
    <3>1. \A i \in 1 .. len : down[i] \in Nat
      BY <2>6, ElementOfSeq
    <3>2. first \in Seq(Nat) /\ rest \in Seq(Nat)
      <4> HIDE DEF len, down
      <4>1. (\A i \in 1 .. n : down[i] \in Nat) /\ \A i \in n + 1 .. len : down[i] \in Nat
        BY <2>6, <3>1
      <4>2. rest = SubSeq(down, n + 1, len)
        BY DEF rest, len, down
      <4>3. n \in Int /\ n + 1 \in Int /\ len \in Int
        BY <2>6
      <4>4. SubSeq(down, 1, n) \in Seq(Nat)
        BY <4>1, <4>3, SubSeqProperties
      <4>5. SubSeq(down, n + 1, len) \in Seq(Nat)
        BY <4>1, <4>3, SubSeqProperties
      <4> QED
        BY <4>2, <4>4, <4>5
    <3>3. first \o rest = SubSeq(down, 1, len)
      <4> HIDE DEF down
      <4>1. 1 \in 1 .. Len(down) + 1 /\ n \in 1 - 1 .. Len(down) /\ Len(down) \in n .. Len(down)
        BY <2>6
      <4>2. SubSeq(down, 1, n) \o SubSeq(down, n + 1, Len(down)) = SubSeq(down, 1, Len(down))
        BY <2>6, <4>1, ConcatAdjacentSubSeq
      <4> QED
        BY <4>2 DEF down
    <3>4. SubSeq(down, 1, len) = down
      BY <2>6, SubSeqFull
    <3> QED
      BY <3>2, <3>3, <3>4
  <2>8. more = x.received \o first
    OBVIOUS
  <2> HIDE DEF more, rest, first, down, len
  <2>9. more \in Seq(Nat) /\ more \o rest = x.received \o down
    <3> DEFINE old == x.received
    <3>1. old \in Seq(Nat) /\ more = old \o first
      BY <2>3, <2>8
    <3> HIDE DEF old
    <3>2. old \o first \in Seq(Nat)
      BY <2>7, <3>1, ConcatProperties
    <3>3. (old \o first) \o rest = old \o (first \o rest)
      BY <2>7, <3>1, Regrouped
    <3> QED
      BY <2>7, <3>1, <3>2, <3>3 DEF old
  <2>10. a = [peer |-> x.peer, open |-> x.open, up |-> x.up, down |-> x.down, sent |-> x.sent,
              received |-> more]
    BY <2>2, ConnUpdates
  <2> HIDE DEF a
  <2>11. r = [peer |-> x.peer, open |-> x.open, up |-> x.up, down |-> rest, sent |-> x.sent,
              received |-> more]
    BY <2>10
  <2>12. r \in ConnRecords
    BY <2>2, <2>7, <2>9, <2>11 DEF ConnRecords
  <2>13. r.up = x.up /\ r.sent = x.sent /\ r.open = x.open /\ r.received = more /\ r.down = rest
    BY <2>11
  <2> HIDE DEF r
  <2>14. r.received \o r.down = x.received \o x.down
    BY <2>9, <2>13 DEF down
  <2>15. UpInv(r) /\ DownInv(r)
    BY <2>1, <2>13, <2>14 DEF Faithful, UpInv, DownInv
  <2> QED
    BY <2>4, <2>12, <2>15 DEF Faithful
<1>2. ASSUME c \notin DOMAIN conns PROVE conns' = conns
  BY <1>0, <1>2, LenProperties DEF ConnInv
<1> HIDE DEF r
<1>3. CASE c \in DOMAIN conns
  BY <1>1, <1>3, MovedConn
<1>4. CASE c \notin DOMAIN conns
  BY <1>2, <1>4 DEF ConnInv, Faithful, ConnRecords, UpInv, DownInv, Carries, Data
<1> QED
  BY <1>3, <1>4

\* The server sends back the first bytes that it has not read yet, or reads them
\* without an answer.
LEMMA EchoedConn ==
  ASSUME ConnInv, NEW c \in DOMAIN conns, Serve(c)
  PROVE  ConnInv'
<1> PICK n \in 1 .. Len(conns[c].up) : Echo(c, n)
  BY DEF Serve
<1> DEFINE x == conns[c]
           rest == SubSeq(x.up, n + 1, Len(x.up))
           part == SubSeq(x.up, 1, n)
           down == IF x.open THEN x.down \o <<Mark>> \o part ELSE x.down
           a == [x EXCEPT !.up = rest]
           r == [a EXCEPT !.down = down]
<1>1. x \in Faithful
  BY LenProperties, ElementOfSeq DEF ConnInv
<1>2. x \in ConnRecords /\ UpInv(x) /\ DownInv(x)
  BY <1>1 DEF Faithful
<1>3. conns' = [conns EXCEPT ![c] = r]
  BY <1>2 DEF Echo, ConnRecords
<1>4. n \in 1 .. Len(x.up)
  OBVIOUS
<1> HIDE DEF x
<1> DEFINE up == x.up
           len == Len(up)
           sent == x.sent
<1>5. up \in Seq(Nat) /\ len \in Nat /\ n \in 1 .. len /\ sent \in Nat /\ x.down \in Seq(Nat)
      /\ x.received \in Seq(Nat)
  BY <1>2, <1>4, LenProperties DEF ConnRecords
<1>6. len <= sent /\ \A i \in 1 .. len : up[i] = sent - len + i
  BY <1>2 DEF UpInv
<1>7. rest = SubSeq(up, n + 1, len) /\ part = SubSeq(up, 1, n)
  OBVIOUS
<1> HIDE DEF up, len, sent, rest, part
<1>8. /\ rest \in Seq(Nat) /\ Len(rest) = len - n /\ \A i \in 1 .. len - n : rest[i] = up[n + i]
      /\ part \in Seq(Nat) /\ Len(part) = n /\ \A i \in 1 .. n : part[i] = up[i]
  <2>1. \A i \in 1 .. len : up[i] \in Nat
    BY <1>5, <1>6
  <2>2. (\A i \in 1 .. n : up[i] \in Nat) /\ \A i \in n + 1 .. len : up[i] \in Nat
    BY <1>5, <2>1
  <2>3. part \in Seq(Nat) /\ Len(part) = n /\ \A i \in 1 .. n : part[i] = up[i]
    <3>1. /\ SubSeq(up, 1, n) \in Seq(Nat)
          /\ Len(SubSeq(up, 1, n)) = IF 1 <= n THEN n - 1 + 1 ELSE 0
          /\ \A i \in 1 .. n - 1 + 1 : SubSeq(up, 1, n)[i] = up[1 + i - 1]
      BY <1>5, <2>2, SubSeqProperties
    <3>2. n - 1 + 1 = n /\ 1 <= n /\ \A i \in 1 .. n : 1 + i - 1 = i
      BY <1>5
    <3> QED
      BY <1>7, <3>1, <3>2
  <2>4. rest \in Seq(Nat) /\ Len(rest) = len - n /\ \A i \in 1 .. len - n : rest[i] = up[n + i]
    <3>1. /\ SubSeq(up, n + 1, len) \in Seq(Nat)
          /\ Len(SubSeq(up, n + 1, len)) = IF n + 1 <= len THEN len - (n + 1) + 1 ELSE 0
          /\ \A i \in 1 .. len - (n + 1) + 1 : SubSeq(up, n + 1, len)[i] = up[(n + 1) + i - 1]
      BY <1>5, <2>2, SubSeqProperties
    <3>2. /\ len - (n + 1) + 1 = len - n /\ (IF n + 1 <= len THEN len - n ELSE 0) = len - n
          /\ \A i \in 1 .. len - n : (n + 1) + i - 1 = n + i
      BY <1>5
    <3> QED
      BY <1>7, <3>1, <3>2
  <2> QED
    BY <2>3, <2>4
<1>9. \A i \in 1 .. len - n : rest[i] = sent - (len - n) + i
  <2> TAKE i \in 1 .. len - n
  <2>1. n + i \in 1 .. len /\ sent - len + (n + i) = sent - (len - n) + i
    BY <1>5
  <2> QED
    BY <1>6, <1>8, <2>1
<1>10. \A i \in 1 .. n : part[i] = (sent - len) + i
  <2> TAKE i \in 1 .. n
  <2>1. i \in 1 .. len
    BY <1>5
  <2> QED
    BY <1>6, <1>8, <2>1
<1>11. <<Mark>> \in Seq(Nat)
  BY DEF Mark
<1>12. down \in Seq(Nat)
  <2>1. x.down \o <<Mark>> \in Seq(Nat)
    BY <1>5, <1>11, ConcatProperties
  <2>2. x.down \o <<Mark>> \o part \in Seq(Nat)
    BY <1>8, <2>1, ConcatProperties
  <2> QED
    BY <1>5, <2>2
<1>13. \E m \in 0 .. sent - (len - n) :
         (x.open => m = sent - (len - n)) /\ Carries(x.received \o down, m)
  <2>1. PICK m \in 0 .. sent - len :
          (x.open => m = sent - len) /\ Carries(x.received \o x.down, m)
    BY <1>2 DEF DownInv, sent, len, up
  <2>2. CASE x.open
    <3> DEFINE s == x.received \o x.down
    <3>1. s \in Seq(Nat)
      BY <1>5, ConcatProperties
    <3>2. x.received \o down = (s \o <<Mark>>) \o part
      <4> DEFINE mark == <<Mark>>
                 old == x.received
                 way == x.down
      <4>1. mark \in Seq(Nat) /\ old \in Seq(Nat) /\ way \in Seq(Nat)
        BY <1>5, <1>11
      <4>2. down = (way \o mark) \o part /\ s = old \o way
        BY <2>2
      <4>6. part \in Seq(Nat)
        BY <1>8
      <4> HIDE DEF mark, old, way, s, down
      <4>3. way \o mark \in Seq(Nat)
        BY <4>1, ConcatProperties
      <4>4. (old \o (way \o mark)) \o part = old \o ((way \o mark) \o part)
        BY <4>1, <4>3, <4>6, Regrouped, Zenon
      <4>5. (old \o way) \o mark = old \o (way \o mark)
        BY <4>1, Regrouped
      <4> QED
        BY <4>2, <4>4, <4>5 DEF old, mark
    <3>3. m = sent - len /\ m \in Nat /\ Carries(s, m)
      BY <1>5, <1>6, <2>1, <2>2
    <3> HIDE DEF s, down
    <3>4. Carries(s \o <<Mark>>, m) /\ s \o <<Mark>> \in Seq(Nat)
      BY <1>11, <3>1, <3>3, MarkCarries, ConcatProperties
    <3>5. \A i \in 1 .. Len(part) : part[i] = m + i
      BY <1>8, <1>10, <3>3
    <3>6. Carries((s \o <<Mark>>) \o part, m + Len(part))
      BY <1>8, <3>3, <3>4, <3>5, PartCarries
    <3>7. m + Len(part) = sent - (len - n) /\ m + Len(part) \in 0 .. sent - (len - n)
      BY <1>5, <1>8, <3>3
    <3> QED
      BY <3>2, <3>6, <3>7
  <2>3. CASE ~x.open
    <3>1. m \in 0 .. sent - (len - n)
      BY <1>5, <1>6
    <3> QED
      BY <2>1, <2>3, <3>1
  <2> QED
    BY <2>2, <2>3
<1> HIDE DEF down
<1>14. a = [peer |-> x.peer, open |-> x.open, up |-> rest, down |-> x.down, sent |-> x.sent,
            received |-> x.received]
  BY <1>2, ConnUpdates
<1> HIDE DEF a
<1>15. r = [peer |-> x.peer, open |-> x.open, up |-> rest, down |-> down, sent |-> x.sent,
            received |-> x.received]
  BY <1>14
<1>16. r \in ConnRecords
  BY <1>2, <1>8, <1>12, <1>15 DEF ConnRecords
<1>17. r.up = rest /\ r.sent = sent /\ r.open = x.open /\ r.received = x.received /\ r.down = down
  BY <1>15 DEF sent
<1> HIDE DEF r
<1>18. Len(r.up) = len - n
  BY <1>8, <1>17
<1>19. UpInv(r)
  <2>1. len - n <= sent
    BY <1>5, <1>6
  <2> QED
    BY <1>9, <1>17, <1>18, <2>1 DEF UpInv
<1>20. DownInv(r)
  BY <1>13, <1>17, <1>18 DEF DownInv
<1> QED
  BY <1>3, <1>16, <1>19, <1>20, MovedConn DEF Faithful

\* The invariant of the connections is inductive.
LEMMA ConnInvNext == ConnInv /\ [ServicesNext]_serviceVars => ConnInv'
<1> SUFFICES ASSUME ConnInv, conns' = conns \/ ConnNext
             PROVE  ConnInv'
  BY ConnsOfServices
<1>1. CASE conns' = conns
  BY <1>1 DEF ConnInv, Faithful, ConnRecords, UpInv, DownInv, Carries, Data
<1>2. ASSUME NEW t, Continue(t) PROVE ConnInv'
  <2>1. CASE \E peer \in {"silent", "echo", "none"} : HostConnect(t, peer)
    <3>1. PICK peer \in {"silent", "echo", "none"} : HostConnect(t, peer)
      BY <2>1
    <3>2. CASE peer = "none"
      BY <1>1, <3>1, <3>2 DEF HostConnect
    <3>3. CASE peer # "none"
      BY <3>1, <3>3, NewConn DEF HostConnect
    <3> QED
      BY <3>2, <3>3
  <2>2. CASE InsertStream(t) \/ CloseSocket(t)
    BY <2>2, DroppedConn DEF InsertStream, CloseSocket
  <2>3. CASE Send(t)
    BY <1>1, <2>3, SentConn DEF Send
  <2>4. CASE Recv(t)
    <3>1. conns' = conns
      BY <2>4 DEF Recv
    <3> QED
      BY <1>1, <3>1
  <2>5. ASSUME NEW n, Receive(t, n) PROVE ConnInv'
    <3> DEFINE c == sockets[request[t].fd]
    <3>1. n \in 1 .. Len(conns[c].down)
      BY <2>5, Zenon DEF Receive
    <3>2. conns' = Taking(c, n)
      BY <2>5, Zenon DEF Receive, Taking
    <3> HIDE DEF c
    <3> QED
      BY <3>1, <3>2, ReceivedConn
  <2> QED
    BY <1>2, <2>1, <2>2, <2>3, <2>4, <2>5 DEF Continue
<1> QED
  BY <1>1, <1>2, EchoedConn DEF ConnNext

\* What comes back over a connection are the first bytes that were sent over it, in
\* their order and each once, for any callers, however the host cuts the stream and
\* whenever the guest closes or replaces it (initialize_network's server,
\* sceNetConnect, sceNetSend, sceNetRecv, sceNetSocketClose).
THEOREM EchoesAlwaysInOrder == ServicesSpec => []EchoesInOrder
<1>1. ServicesInit => ConnInv
  BY EmptySeq DEF ServicesInit, InitSockets, ConnInv
<1>2. ConnInv => EchoesInOrder
  <2>1. ASSUME ConnInv, NEW c \in DOMAIN conns
        PROVE  LET back == conns[c].received \o conns[c].down
                   echoed == {i \in DOMAIN back : back[i] # Mark} IN
               /\ \E n \in 0 .. conns[c].sent : {back[i] : i \in echoed} = 1 .. n
               /\ \A i, j \in echoed : i < j => back[i] < back[j]
    <3> DEFINE x == conns[c]
               back == x.received \o x.down
    <3>1. x \in Faithful
      BY <2>1, LenProperties, ElementOfSeq DEF ConnInv
    <3>2. x.sent \in Nat /\ Len(x.up) \in Nat
      BY <3>1, LenProperties DEF Faithful, ConnRecords
    <3>3. PICK n \in 0 .. x.sent - Len(x.up) : Carries(back, n)
      BY <3>1 DEF Faithful, DownInv
    <3> HIDE DEF x
    <3>4. n \in 0 .. x.sent
      BY <3>2
    <3> HIDE DEF back
    <3>5. {back[i] : i \in {k \in DOMAIN back : back[k] # Mark}} = 1 .. n
          /\ \A i, j \in {k \in DOMAIN back : back[k] # Mark} : i < j => back[i] < back[j]
      BY <3>3 DEF Carries, Data
    <3> QED
      BY <3>4, <3>5 DEF back, x
  <2> QED
    BY <2>1 DEF EchoesInOrder
<1>3. ServicesInit /\ [][ServicesNext]_serviceVars => []EchoesInOrder
  BY <1>1, ConnInvNext, <1>2, PTL
<1> QED
  BY <1>3, PTL DEF ServicesSpec
(***************************************************************************)
(* Devices: sound.                                                         *)
(***************************************************************************)

\* A port keeps the volumes that were asked for.
PortInv ==
  \A p \in DOMAIN ports :
    /\ p \in DOMAIN asked /\ ports[p].float \in BOOLEAN
    /\ ports[p] = [channels |-> ports[p].channels, float |-> ports[p].float, volume |-> asked[p]]
    /\ asked[p] = [c \in 0 .. 7 |-> asked[p][c]]

SoundInv == PortInv /\ SamplesKeepTheirShape

\* Only the calls for sound touch the ports.
LEMMA SoundOfServices == [ServicesNext]_serviceVars => [SoundCall]_soundVars
<1> SUFFICES ASSUME [ServicesNext]_serviceVars, ~UNCHANGED soundVars
             PROVE  SoundCall
  OBVIOUS
<1>1. CASE \E t \in Callers : GuestCall(t)
  <2>1. PICK t \in Callers : GuestCall(t)
    BY <1>1
  <2>2. UNCHANGED soundVars \/ SoundCall \/ ScreenCall \/ EndProgram
    BY <2>1 DEF GuestCall, deviceVars
  <2>3. CASE ScreenCall \/ EndProgram
    BY <2>3 DEF ScreenCall, EndProgram, OpenVideo, CloseVideo, SubmitFlip, InitializeDialog, OpenBareDialog,
                EndDialog, OpenDialog, SetDialog
  <2> QED
    BY <2>2, <2>3
<1>2. CASE FileStep \/ LibraryStep \/ CallStep
  BY <1>2 DEF FileStep, LibraryStep, CallStep, Others, deviceVars
<1>3. CASE StartStep \/ UserStep \/ LoopStep
  <2>1. PlugIn \/ Unplug \/ (\E k \in Keys : PressKey(k) \/ ReleaseKey(k)) => UNCHANGED soundVars
    <3>1. PlugIn \/ Unplug => UNCHANGED soundVars
      BY DEF PlugIn, Unplug, Happens
    <3>2. ASSUME NEW k \in Keys, PressKey(k) \/ ReleaseKey(k) PROVE UNCHANGED soundVars
      BY <3>2 DEF PressKey, ReleaseKey, Happens
    <3> QED
      BY <3>1, <3>2
  <2>2. StartStep => UNCHANGED soundVars
    BY DEF StartStep, Boot
  <2>3. LoopStep => UNCHANGED soundVars
    BY DEF LoopStep, PollEvent, PublishPad
  <2>4. UserStep => UNCHANGED soundVars
    BY <2>1 DEF UserStep
  <2> QED
    BY <1>3, <2>2, <2>3, <2>4
<1>4. CASE \E t \in Callers : NetStep(t) \/ ThreadStep(t)
  BY <1>4 DEF NetStep, ThreadStep, Others, deviceVars
<1>5. CASE \E c \in DOMAIN conns : ServerStep(c)
  BY <1>5 DEF ServerStep, Others, deviceVars
<1>6. CASE UNCHANGED serviceVars
  BY <1>6 DEF serviceVars, deviceVars
<1> QED
  BY <1>1, <1>2, <1>3, <1>4, <1>5, <1>6 DEF ServicesNext

\* A volume makes a sample smaller, full volume leaves it as it is.
LEMMA Attenuation ==
  ASSUME NEW sample \in Int, -32768 <= sample, sample <= 32767, NEW volume \in 0 .. FullVolume
  PROVE  /\ sample >= 0 => Attenuated(sample, volume) \in 0 .. sample
         /\ sample <= 0 => Attenuated(sample, volume) \in sample .. 0
         /\ volume = FullVolume => Attenuated(sample, volume) = sample
<1> DEFINE rest == FullVolume - volume
<1>1. sample \in Int /\ volume \in Nat /\ rest \in Nat /\ volume + rest = 32768
  BY DEF FullVolume
<1>2. ASSUME NEW a \in Nat
      PROVE  /\ a * volume \in Nat /\ (a * volume) \div 32768 \in 0 .. a
             /\ volume = FullVolume => (a * volume) \div 32768 = a
  <2>1. a * volume + a * rest = a * 32768
    BY <1>1
  <2>2. a * volume \in Nat /\ a * rest \in Nat
    BY <1>1
  <2> DEFINE v == a * volume
             w == a * rest
  <2>3. v \in Nat /\ w \in Nat /\ v + w = a * 32768
    BY <2>1, <2>2
  <2>4. volume = FullVolume => v = a * 32768
    BY DEF FullVolume
  <2> HIDE DEF v, w
  <2>5. v \div 32768 \in 0 .. a /\ (v = a * 32768 => v \div 32768 = a)
    BY <2>3
  <2> QED
    BY <2>2, <2>4, <2>5 DEF v
<1>3. ASSUME NEW x \in Int, -32768 <= x, x <= 32767 PROVE Wrapped16(x) = x
  BY <1>3 DEF Wrapped16
<1> HIDE DEF rest
<1>4. CASE sample >= 0
  <2> DEFINE q == (sample * volume) \div 32768
  <2>1. sample \in Nat
    BY <1>1, <1>4
  <2>2. sample * volume >= 0 /\ q \in 0 .. sample /\ (volume = FullVolume => q = sample)
    BY <1>2, <2>1
  <2>3. TowardsZero(sample * volume) = q
    BY <2>2 DEF TowardsZero, FullVolume
  <2> HIDE DEF q
  <2>4. q \in Int /\ -32768 <= q /\ q <= 32767
    BY <2>1, <2>2
  <2>5. Attenuated(sample, volume) = q
    BY <1>3, <2>3, <2>4 DEF Attenuated
  <2> QED
    BY <1>4, <2>1, <2>2, <2>5
<1>5. CASE ~(sample >= 0)
  <2> DEFINE a == -sample
             q == (a * volume) \div 32768
             v == a * volume
  <2>1. a \in Nat /\ a <= 32768 /\ a > 0
    BY <1>1, <1>5
  <2>2. sample * volume = -v /\ v \in Int
    BY <1>1
  <2>3. v \in Nat /\ q \in 0 .. a /\ (volume = FullVolume => q = a) /\ q = v \div 32768
    BY <1>2, <2>1
  <2> HIDE DEF a, q, v
  <2>4. TowardsZero(-v) = -q
    BY <2>1, <2>3 DEF TowardsZero, FullVolume
  <2>5. -q \in Int /\ -32768 <= -q /\ -q <= 32767
    BY <2>1, <2>3
  <2>6. Attenuated(sample, volume) = -q
    BY <1>3, <2>2, <2>4, <2>5 DEF Attenuated
  <2>7. a = -sample
    BY DEF a
  <2> QED
    BY <1>1, <1>5, <2>1, <2>3, <2>6, <2>7
<1> QED
  BY <1>4, <1>5

\* A port that is given a volume is a port.
LEMMA PortVolumes ==
  ASSUME PortInv, NEW p \in DOMAIN ports
  PROVE  p \in DOMAIN asked /\ ports[p].volume = asked[p] /\ ports[p].float \in BOOLEAN
<1> DEFINE r == ports[p]
           volumes == asked[p]
<1>1. p \in DOMAIN asked /\ r.float \in BOOLEAN
      /\ r = [channels |-> r.channels, float |-> r.float, volume |-> volumes]
  BY DEF PortInv
<1> HIDE DEF r, volumes
<1>2. r.volume = volumes
  BY <1>1
<1> QED
  BY <1>1, <1>2 DEF r, volumes

\* The invariant of the ports is inductive.
LEMMA SoundInvNext == SoundInv /\ [ServicesNext]_serviceVars => SoundInv'
<1> SUFFICES ASSUME SoundInv, [SoundCall]_soundVars
             PROVE  SoundInv'
  BY SoundOfServices
<1>1. CASE UNCHANGED soundVars
  BY <1>1 DEF soundVars, SoundInv, PortInv, SamplesKeepTheirShape
<1>2. ASSUME NEW format, OpenPort(format) PROVE SoundInv'
  <2> DEFINE full == [c \in 0 .. 7 |-> FullVolume]
             r == [channels |-> Channels(format), float |-> IsFloat(format), volume |-> full]
  <2>1. /\ ports' = [p \in DOMAIN ports \cup {nextPort} |-> IF p = nextPort THEN r ELSE ports[p]]
        /\ asked' = [p \in DOMAIN asked \cup {nextPort} |-> IF p = nextPort THEN full ELSE asked[p]]
        /\ played' = played
    BY <1>2 DEF OpenPort
  <2>2. r = [channels |-> r.channels, float |-> r.float, volume |-> full]
    OBVIOUS
  <2>3. r.float \in BOOLEAN
    BY DEF IsFloat
  <2>4. full = [c \in 0 .. 7 |-> full[c]]
    OBVIOUS
  <2> HIDE DEF r, full
  <2>5. ASSUME NEW p \in DOMAIN ports'
        PROVE  /\ p \in DOMAIN asked' /\ ports'[p].float \in BOOLEAN
               /\ ports'[p] = [channels |-> ports'[p].channels, float |-> ports'[p].float, volume |-> asked'[p]]
               /\ asked'[p] = [c \in 0 .. 7 |-> asked'[p][c]]
    <3>1. CASE p = nextPort
      <4>1. p \in DOMAIN asked' /\ ports'[p] = r /\ asked'[p] = full
        BY <2>1, <3>1
      <4> QED
        BY <2>2, <2>3, <2>4, <4>1
    <3>2. CASE p # nextPort
      <4>1. p \in DOMAIN ports /\ ports'[p] = ports[p]
        BY <2>1, <2>5, <3>2
      <4>2. p \in DOMAIN asked
        BY <4>1 DEF SoundInv, PortInv
      <4>3. p \in DOMAIN asked' /\ asked'[p] = asked[p]
        BY <2>1, <3>2, <4>2
      <4> QED
        BY <4>1, <4>3 DEF SoundInv, PortInv
    <3> QED
      BY <3>1, <3>2
  <2> QED
    BY <2>1, <2>5 DEF SoundInv, PortInv, SamplesKeepTheirShape
<1>3. ASSUME NEW p, ClosePort(p) PROVE SoundInv'
  BY <1>3 DEF ClosePort, Without, SoundInv, PortInv, SamplesKeepTheirShape
<1>4. ASSUME NEW p, NEW flag, NEW volume, SetVolume(p, flag, volume) PROVE SoundInv'
  <2> DEFINE new == [c \in 0 .. 7 |-> IF c \in flag THEN volume ELSE asked[p][c]]
             r == [channels |-> ports[p].channels, float |-> ports[p].float, volume |-> new]
  <2>1. p \in DOMAIN ports /\ p \in DOMAIN asked /\ ports[p].volume = asked[p] /\ ports[p].float \in BOOLEAN
    BY <1>4, PortVolumes DEF SetVolume, SoundInv
  <2>2. asked' = [asked EXCEPT ![p] = new] /\ played' = played
    BY <1>4, <2>1 DEF SetVolume
  <2>3. ports' = [ports EXCEPT ![p] = [ports[p] EXCEPT !.volume = new]]
    BY <1>4, <2>1 DEF SetVolume
  <2>4. [ports[p] EXCEPT !.volume = new] = r
    <3> HIDE DEF new
    <3>1. ports[p] = [channels |-> ports[p].channels, float |-> ports[p].float, volume |-> asked[p]]
      BY <2>1 DEF SoundInv, PortInv
    <3> QED
      BY <3>1
  <2>5. r = [channels |-> r.channels, float |-> r.float, volume |-> new] /\ r.float \in BOOLEAN
    BY <2>1
  <2>6. new = [c \in 0 .. 7 |-> new[c]]
    OBVIOUS
  <2>7. ports' = [ports EXCEPT ![p] = r]
    BY <2>3, <2>4
  <2> HIDE DEF r, new
  <2>8. ASSUME NEW q \in DOMAIN ports'
        PROVE  /\ q \in DOMAIN asked' /\ ports'[q].float \in BOOLEAN
               /\ ports'[q] = [channels |-> ports'[q].channels, float |-> ports'[q].float, volume |-> asked'[q]]
               /\ asked'[q] = [c \in 0 .. 7 |-> asked'[q][c]]
    <3>1. CASE q = p
      <4>1. q \in DOMAIN asked' /\ ports'[q] = r /\ asked'[q] = new
        BY <2>1, <2>2, <2>7, <3>1
      <4> QED
        BY <2>5, <2>6, <4>1
    <3>2. CASE q # p
      <4>1. q \in DOMAIN ports /\ ports'[q] = ports[q]
        BY <2>7, <2>8, <3>2
      <4>2. q \in DOMAIN asked
        BY <4>1 DEF SoundInv, PortInv
      <4>3. q \in DOMAIN asked' /\ asked'[q] = asked[q]
        BY <2>2, <3>2, <4>2
      <4> QED
        BY <4>1, <4>3 DEF SoundInv, PortInv
    <3> QED
      BY <3>1, <3>2
  <2> QED
    BY <2>2, <2>8 DEF SoundInv, PortInv, SamplesKeepTheirShape
<1>5. ASSUME NEW p, NEW sample \in Samples, Output(p, sample) PROVE SoundInv'
  <2>1. sample \in Int /\ -32768 <= sample /\ sample <= 32767
    BY DevicesAssumption
  <2>2. p \in DOMAIN ports /\ ports' = ports /\ asked' = asked
    BY <1>5 DEF Output
  <2>3. \A c \in 0 .. 1 : ports[p].volume[c] = asked[p][c]
    BY <2>2, PortVolumes DEF SoundInv
  <2>4. ASSUME NEW s \in played', s \notin played
        PROVE  ~s.float => s.in = sample /\ s.out = Attenuated(sample, s.volume)
    <3>1. PICK c \in 0 .. (IF ports[p].channels = 1 THEN 0 ELSE 1) :
            s = [channel |-> c, port |-> p, float |-> ports[p].float, in |-> sample, volume |-> asked[p][c],
                 out |-> IF ports[p].float THEN sample * ports[p].volume[c]
                         ELSE Attenuated(sample, ports[p].volume[c])]
      BY <1>5, <2>4 DEF Output
    <3>2. c \in 0 .. 1
      OBVIOUS
    <3>3. s.float = ports[p].float /\ s.in = sample /\ s.volume = asked[p][c]
      BY <3>1
    <3>4. ~ports[p].float => s.out = Attenuated(sample, ports[p].volume[c])
      BY <3>1
    <3> QED
      BY <2>3, <3>2, <3>3, <3>4
  <2>5. SamplesKeepTheirShape'
    BY <2>1, <2>4, Attenuation DEF SoundInv, SamplesKeepTheirShape
  <2> QED
    BY <2>2, <2>5 DEF SoundInv, PortInv
<1> QED
  BY <1>1, <1>2, <1>3, <1>4, <1>5 DEF SoundCall
(***************************************************************************)
(* Devices: keys, controllers and the pad.                                 *)
(***************************************************************************)

Gamepads == [number : Nat, buttons : SUBSET {"circle"}, axis : Int]

Events == [is : {"down", "up"}, of : Keys] \cup [is : {"added", "removed"}, of : Nat]

InputTypes ==
  /\ gamepads \in Seq(Gamepads) /\ gamepadCount \in Nat /\ replugged \in BOOLEAN
  /\ held \subseteq Keys /\ keys \subseteq Keys
  /\ events \in Seq(Events)
  /\ controllers = [i \in DOMAIN controllers |-> controllers[i]] /\ DOMAIN controllers \subseteq Nat

\* Nothing has happened before the loop runs, and without the host's controllers
\* nobody hears of any.
StageInv ==
  /\ boot \notin {"loop", "ended"} =>
       /\ held = {} /\ keys = {} /\ ~replugged /\ ~fresh /\ gamepadCount = Len(gamepads)
       /\ \A i \in DOMAIN events : events[i].is = "added"
  /\ "controllers" \notin host =>
       controllers = << >> /\ \A i \in DOMAIN events : events[i].is \in {"down", "up"}

\* The last event of a key that waits tells whether it is held; without one, the
\* loop's flag does.
KeyEvents(k) == {i \in DOMAIN events : events[i].is \in {"down", "up"} /\ events[i].of = k}

KeyInv ==
  \A k \in Keys :
    /\ KeyEvents(k) = {} => (k \in keys <=> k \in held)
    /\ \A i \in KeyEvents(k) :
         (\A j \in KeyEvents(k) : j <= i) => (events[i].is = "down" <=> k \in held)

Announced(what, n) == \E i \in DOMAIN events : events[i].is = what /\ events[i].of = n

\* As long as none comes back after one has gone, controllers have their places for
\* numbers: those that are there are filed or announced, and those that are gone and
\* still filed are announced to be gone.
PlaceInv ==
  ~replugged =>
    /\ Len(gamepads) <= gamepadCount
    /\ \A i \in DOMAIN gamepads : gamepads[i].number = i - 1
    /\ \A i \in DOMAIN events :
         events[i].is = "removed" => Len(gamepads) <= events[i].of /\ events[i].of < gamepadCount
    /\ \A n \in DOMAIN controllers :
         /\ controllers[n] = n /\ n < gamepadCount
         /\ Len(gamepads) <= n => Announced("removed", n)
    /\ "controllers" \in host =>
         \A n \in 0 .. Len(gamepads) - 1 : n \in DOMAIN controllers \/ Announced("added", n)

PadInv == (Running /\ fresh => events = << >>) /\ PadShowsTheUser

InputInv == InputTypes /\ StageInv /\ KeyInv /\ PlaceInv /\ PadInv
InputVars == <<inputVars, loopVars>>

InputNext ==
  \/ \E ok \in BOOLEAN : Boot(ok)
  \/ PlugIn \/ Unplug \/ \E k \in Keys : PressKey(k) \/ ReleaseKey(k)
  \/ PollEvent \/ PublishPad
  \/ Running /\ EndProgram

\* The steps of Services that touch the inputs.
LEMMA InputsOfServices == [ServicesNext]_serviceVars => [InputNext]_InputVars
<1> SUFFICES ASSUME [ServicesNext]_serviceVars, ~UNCHANGED InputVars
             PROVE  InputNext
  OBVIOUS
<1>1. CASE \E t \in Callers : GuestCall(t)
  <2>1. PICK t \in Callers : GuestCall(t)
    BY <1>1
  <2>2. EndProgram \/ UNCHANGED deviceVars \/ SoundCall \/ ScreenCall
    BY <2>1 DEF GuestCall
  <2>4. EndProgram => Running
    <3>1. \A service : Begins(t, service) => Running
      BY Zenon DEF Begins, Free, GuestRuns
    <3> QED
      BY <2>1, <3>1 DEF GuestCall
  <2>3. SoundCall \/ ScreenCall => UNCHANGED InputVars
    BY DEF SoundCall, OpenPort, ClosePort, SetVolume, Output, ScreenCall, OpenVideo, CloseVideo, SubmitFlip,
           InitializeDialog, OpenBareDialog, EndDialog, OpenDialog, SetDialog, InputVars
  <2> QED
    BY <2>2, <2>3, <2>4 DEF InputNext, deviceVars, InputVars
<1>2. CASE FileStep \/ LibraryStep \/ CallStep
  BY <1>2 DEF FileStep, LibraryStep, CallStep, Others, deviceVars, InputVars
<1>3. CASE StartStep \/ UserStep \/ LoopStep
  BY <1>3 DEF StartStep, UserStep, LoopStep, InputNext
<1>4. CASE \E t \in Callers : NetStep(t) \/ ThreadStep(t)
  BY <1>4 DEF NetStep, ThreadStep, Others, deviceVars, InputVars
<1>5. CASE \E c \in DOMAIN conns : ServerStep(c)
  BY <1>5 DEF ServerStep, Others, deviceVars, InputVars
<1>6. CASE UNCHANGED serviceVars
  BY <1>6 DEF serviceVars, deviceVars, InputVars
<1> QED
  BY <1>1, <1>2, <1>3, <1>4, <1>5, <1>6 DEF ServicesNext

\* Nothing is pressed and nothing waits at the start.
LEMMA InputInvInit == ServicesInit => InputInv
<1> SUFFICES ASSUME ServicesInit PROVE InputInv
  OBVIOUS
<1>1. InitDevices
  BY DEF ServicesInit
<1> DEFINE g == [number |-> 0, buttons |-> {"circle"}, axis |-> -32768]
<1>2. /\ boot = "sdl" /\ host = {} /\ held = {} /\ keys = {} /\ events = << >> /\ controllers = << >>
      /\ ~replugged /\ ~fresh /\ replugged \in BOOLEAN /\ gamepadCount = Len(gamepads)
  <2>1. boot = "sdl" /\ host = {} /\ held = {} /\ keys = {} /\ gamepadCount = Len(gamepads)
    BY <1>1, SMT DEF InitDevices
  <2>2. events = << >> /\ controllers = << >>
    BY <1>1, SMT DEF InitDevices
  <2>3. replugged = FALSE /\ fresh = FALSE
    BY <1>1, SMT DEF InitDevices
  <2> QED
    BY <2>1, <2>2, <2>3
<1>3. g \in Gamepads /\ g.number = 0
  BY SMT DEF Gamepads
<1>10. gamepads = << >> \/ gamepads = <<g>>
  <2>1. gamepads \in {<< >>, <<g>>}
    BY <1>1, SMT DEF InitDevices
  <2> HIDE DEF g
  <2> QED
    BY <2>1
<1> HIDE DEF g
<1>4. gamepads \in Seq(Gamepads) /\ \A i \in DOMAIN gamepads : gamepads[i].number = i - 1
  <2>1. CASE gamepads = << >>
    <3>1. << >> \in Seq(Gamepads)
      BY EmptySeq
    <3> QED
      BY <2>1, <3>1
  <2>2. CASE gamepads = <<g>>
    <3>1. <<g>> \in Seq(Gamepads) /\ DOMAIN <<g>> = 1 .. 1 /\ <<g>>[1] = g
      BY <1>3
    <3> QED
      BY <1>3, <2>2, <3>1
  <2> QED
    BY <1>10, <2>1, <2>2
<1>5. Len(gamepads) \in Nat
  BY <1>4, LenProperties
<1>6. << >> \in Seq(Events) /\ DOMAIN << >> = {}
  BY EmptySeq
<1>7. controllers = [i \in DOMAIN controllers |-> controllers[i]]
  BY <1>2
<1>8. InputTypes
  BY <1>2, <1>4, <1>5, <1>6, <1>7 DEF InputTypes
<1>9. StageInv /\ KeyInv
  BY <1>2, <1>4, <1>5, <1>6 DEF StageInv, KeyInv, KeyEvents
<1>11. PlaceInv
  BY <1>2, <1>4, <1>5, <1>6 DEF PlaceInv
<1>12. PadInv
  <2>1. ~Running
    BY <1>2, Zenon DEF Running
  <2> QED
    BY <2>1 DEF PadInv, PadShowsTheUser
<1> QED
  BY <1>8, <1>9, <1>11, <1>12 DEF InputInv

\* An event of the user's comes last.
LEMMA HappensEvent ==
  ASSUME InputInv, NEW e \in Events, Happens(e)
  PROVE  /\ Running /\ ~fresh' /\ UNCHANGED <<boot, host, keys, controllers, pad>>
         /\ events' \in Seq(Events)
         /\ \/ e.is \in {"added", "removed"} /\ "controllers" \notin host /\ events' = events
            \/ /\ e.is \in {"added", "removed"} => "controllers" \in host
               /\ events' = Append(events, e)
               /\ Len(events) \in Nat /\ DOMAIN events = 1 .. Len(events)
               /\ DOMAIN events' = 1 .. Len(events) + 1
               /\ events'[Len(events) + 1] = e
               /\ \A i \in DOMAIN events : events'[i] = events[i]
<1>1. events \in Seq(Events)
  BY DEF InputInv, InputTypes
<1>2. Append(events, e) \in Seq(Events)
  BY <1>1, AppendProperties
<1>3. /\ Len(events) \in Nat /\ DOMAIN events = 1 .. Len(events)
      /\ DOMAIN Append(events, e) = 1 .. Len(events) + 1
      /\ Append(events, e)[Len(events) + 1] = e
      /\ \A i \in DOMAIN events : Append(events, e)[i] = events[i]
  BY <1>1, <1>2, AppendProperties, LenProperties
<1> QED
  BY <1>1, <1>2, <1>3 DEF Happens

\* What happens leaves the events of other keys alone.
LEMMA KeyHappens ==
  ASSUME InputInv, NEW e \in Events, Happens(e),
         held' = CASE e.is = "down" -> held \cup {e.of} [] e.is = "up" -> held \ {e.of} [] OTHER -> held
  PROVE  KeyInv'
<1>1. keys' = keys
  BY DEF Happens
<1>2. CASE events' = events /\ e.is \in {"added", "removed"}
  BY <1>1, <1>2 DEF InputInv, KeyInv, KeyEvents
<1>3. CASE /\ Len(events) \in Nat /\ DOMAIN events = 1 .. Len(events)
           /\ DOMAIN events' = 1 .. Len(events) + 1
           /\ events'[Len(events) + 1] = e
           /\ \A i \in DOMAIN events : events'[i] = events[i]
  <2> DEFINE len == Len(events)
  <2>1. /\ len \in Nat /\ DOMAIN events = 1 .. len /\ DOMAIN events' = 1 .. len + 1
        /\ events'[len + 1] = e /\ \A i \in 1 .. len : events'[i] = events[i]
    BY <1>3
  <2> HIDE DEF len
  <2>2. ASSUME NEW k \in Keys
        PROVE  /\ KeyEvents(k)' = {} => (k \in keys' <=> k \in held')
               /\ \A i \in KeyEvents(k)' :
                    (\A j \in KeyEvents(k)' : j <= i) => (events'[i].is = "down" <=> k \in held')
    <3>1. CASE e.is \in {"down", "up"} /\ e.of = k
      <4>1. len + 1 \in KeyEvents(k)'
        BY <2>1, <3>1 DEF KeyEvents
      <4>2. e.is = "down" <=> k \in held'
        BY <3>1
      <4>3. \A i \in KeyEvents(k)' : (len + 1 <= i) => i = len + 1
        BY <2>1 DEF KeyEvents
      <4> QED
        BY <2>1, <4>1, <4>2, <4>3
    <3>2. CASE ~(e.is \in {"down", "up"} /\ e.of = k)
      <4>1. \A i : i \in 1 .. len + 1 <=> i \in 1 .. len \/ i = len + 1
        BY <2>1
      <4>2. KeyEvents(k)' = KeyEvents(k)
        BY <2>1, <3>2, <4>1 DEF KeyEvents
      <4>3. \A i \in KeyEvents(k) : events'[i] = events[i]
        BY <2>1 DEF KeyEvents
      <4>4. k \in held' <=> k \in held
        BY <3>2
      <4> QED
        BY <1>1, <4>2, <4>3, <4>4 DEF InputInv, KeyInv
    <3> QED
      BY <3>1, <3>2
  <2> QED
    BY <2>2 DEF KeyInv
<1> QED
  BY <1>2, <1>3, HappensEvent

\* What waits in the queue goes on waiting.
LEMMA HappensQueue ==
  ASSUME InputInv, NEW e \in Events, Happens(e)
  PROVE  /\ \A what, n : Announced(what, n) => Announced(what, n)'
         /\ (e.is \in {"added", "removed"} => "controllers" \in host) => Announced(e.is, e.of)'
         /\ \A i \in DOMAIN events' : events'[i] = e \/ \E j \in DOMAIN events : events'[i] = events[j]
<1>1. CASE e.is \in {"added", "removed"} /\ "controllers" \notin host /\ events' = events
  BY <1>1 DEF Announced
<1>2. CASE /\ Len(events) \in Nat /\ DOMAIN events = 1 .. Len(events)
           /\ DOMAIN events' = 1 .. Len(events) + 1
           /\ events'[Len(events) + 1] = e
           /\ \A i \in DOMAIN events : events'[i] = events[i]
  <2> DEFINE len == Len(events)
  <2>1. /\ len \in Nat /\ DOMAIN events = 1 .. len /\ DOMAIN events' = 1 .. len + 1
        /\ events'[len + 1] = e /\ \A i \in 1 .. len : events'[i] = events[i]
    BY <1>2
  <2> HIDE DEF len
  <2>2. len + 1 \in DOMAIN events' /\ \A i \in DOMAIN events : i \in DOMAIN events'
    BY <2>1
  <2>3. \A i \in DOMAIN events' : i \in DOMAIN events \/ i = len + 1
    BY <2>1
  <2> QED
    BY <2>1, <2>2, <2>3 DEF Announced
<1> QED
  BY <1>1, <1>2, HappensEvent

\* What happens to a running program is no matter of its start.
LEMMA HappensStage ==
  ASSUME InputInv, NEW e \in Events, Happens(e)
  PROVE  StageInv' /\ PadInv'
<1>1. Running /\ ~fresh' /\ UNCHANGED <<boot, host, keys, controllers, pad>>
  BY HappensEvent
<1>2. ASSUME "controllers" \notin host, NEW i \in DOMAIN events'
      PROVE  events'[i].is \in {"down", "up"}
  <2>1. CASE e.is \in {"added", "removed"} /\ events' = events
    BY <1>2, <2>1 DEF InputInv, StageInv
  <2>2. CASE e.is \notin {"added", "removed"}
    <3>1. e.is \in {"down", "up"}
      BY <2>2 DEF Events
    <3> QED
      BY <1>2, <3>1, HappensQueue DEF InputInv, StageInv
  <2> QED
    BY <1>2, <2>1, <2>2, HappensEvent
<1>3. StageInv'
  BY <1>1, <1>2 DEF InputInv, StageInv, Running
<1>4. PadInv'
  BY <1>1 DEF PadInv, PadShowsTheUser
<1> QED
  BY <1>3, <1>4

\* A key goes down or up.
LEMMA KeySteps ==
  ASSUME InputInv, NEW k \in Keys, PressKey(k) \/ ReleaseKey(k)
  PROVE  InputInv'
<1>1. PICK e \in Events :
        /\ e.is \in {"down", "up"}
        /\ Happens(e)
        /\ held' = CASE e.is = "down" -> held \cup {e.of} [] e.is = "up" -> held \ {e.of} [] OTHER -> held
  <2>1. CASE PressKey(k)
    <3> DEFINE e == [is |-> "down", of |-> k]
    <3>1. e \in Events /\ e.is = "down" /\ e.of = k
      BY DEF Events
    <3>2. Happens(e) /\ held' = held \cup {k}
      BY <2>1 DEF PressKey
    <3> HIDE DEF e
    <3> QED
      BY <3>1, <3>2
  <2>2. CASE ReleaseKey(k)
    <3> DEFINE e == [is |-> "up", of |-> k]
    <3>1. e \in Events /\ e.is = "up" /\ e.of = k
      BY DEF Events
    <3>2. Happens(e) /\ held' = held \ {k}
      BY <2>2 DEF ReleaseKey
    <3> HIDE DEF e
    <3> QED
      BY <3>1, <3>2
  <2> QED
    BY <2>1, <2>2
<1>2. held' \subseteq Keys /\ UNCHANGED <<gamepads, gamepadCount, replugged>>
  BY DEF PressKey, ReleaseKey, InputInv, InputTypes
<1>3. UNCHANGED <<host, keys, controllers>> /\ events' \in Seq(Events)
  BY <1>1, HappensEvent
<1>4. InputTypes'
  BY <1>2, <1>3 DEF InputInv, InputTypes
<1>5. KeyInv' /\ StageInv' /\ PadInv'
  BY <1>1, KeyHappens, HappensStage
<1>6. PlaceInv'
  <2>1. \A what, n : Announced(what, n) => Announced(what, n)'
    BY <1>1, HappensQueue
  <2>2. \A i \in DOMAIN events' : events'[i].is = "removed" => \E j \in DOMAIN events : events'[i] = events[j]
    <3>1. \A i \in DOMAIN events' : events'[i] = e \/ \E j \in DOMAIN events : events'[i] = events[j]
      BY <1>1, HappensQueue
    <3> QED
      BY <1>1, <3>1
  <2>3. ASSUME ~replugged
        PROVE  \A i \in DOMAIN events' :
                 events'[i].is = "removed" => Len(gamepads) <= events'[i].of /\ events'[i].of < gamepadCount
    BY <2>2, <2>3 DEF InputInv, PlaceInv
  <2> QED
    BY <1>2, <1>3, <2>1, <2>3 DEF InputInv, PlaceInv
<1> QED
  BY <1>4, <1>5, <1>6 DEF InputInv

\* A controller comes.
LEMMA PlugInStep ==
  ASSUME InputInv, PlugIn
  PROVE  InputInv'
<1> DEFINE len == Len(gamepads)
           e == [is |-> "added", of |-> len]
           g == [number |-> gamepadCount, buttons |-> {"circle"}, axis |-> 32767]
<1>1. gamepads \in Seq(Gamepads) /\ len \in Nat /\ DOMAIN gamepads = 1 .. len /\ gamepadCount \in Nat
  BY LenProperties DEF InputInv, InputTypes
<1>2. e \in Events /\ e.is = "added" /\ e.of = len
  BY <1>1 DEF Events
<1>3. g \in Gamepads /\ g.number = gamepadCount
  BY <1>1, SMT DEF Gamepads
<1>4. /\ Happens(e) /\ gamepads' = Append(gamepads, g) /\ gamepadCount' = gamepadCount + 1
      /\ replugged' = (replugged \/ gamepadCount > len) /\ held' = held
  BY SMT DEF PlugIn
<1> HIDE DEF g, e
<1>5. /\ gamepads' \in Seq(Gamepads) /\ Len(gamepads') = len + 1
      /\ gamepads'[len + 1] = g /\ \A i \in 1 .. len : gamepads'[i] = gamepads[i]
  BY <1>1, <1>3, <1>4, AppendProperties
<1>6. DOMAIN gamepads' = 1 .. len + 1
  BY <1>5, LenProperties
<1> HIDE DEF len
<1>7. UNCHANGED <<host, keys, controllers>> /\ events' \in Seq(Events)
  BY <1>2, <1>4, HappensEvent
<1>8. InputTypes'
  BY <1>1, <1>4, <1>5, <1>7 DEF InputInv, InputTypes
<1>9. held' = CASE e.is = "down" -> held \cup {e.of} [] e.is = "up" -> held \ {e.of} [] OTHER -> held
  BY <1>2, <1>4
<1>10. KeyInv' /\ StageInv' /\ PadInv'
  BY <1>2, <1>4, <1>9, KeyHappens, HappensStage
<1>11. ASSUME ~replugged'
       PROVE  /\ Len(gamepads') <= gamepadCount'
              /\ \A i \in DOMAIN gamepads' : gamepads'[i].number = i - 1
              /\ \A i \in DOMAIN events' :
                   events'[i].is = "removed" => Len(gamepads') <= events'[i].of /\ events'[i].of < gamepadCount'
              /\ \A n \in DOMAIN controllers :
                   /\ controllers[n] = n /\ n < gamepadCount'
                   /\ Len(gamepads') <= n => Announced("removed", n)'
              /\ "controllers" \in host =>
                   \A n \in 0 .. Len(gamepads') - 1 : n \in DOMAIN controllers \/ Announced("added", n)'
  <2>1. ~replugged /\ ~(gamepadCount > len)
    BY <1>4, <1>11
  <2>2. PlaceInv /\ Len(gamepads) = len
    BY DEF InputInv, len
  <2>3. gamepadCount = len
    BY <1>1, <2>1, <2>2 DEF PlaceInv
  <2>4. \A i \in DOMAIN gamepads' : gamepads'[i].number = i - 1
    <3> TAKE i \in DOMAIN gamepads'
    <3>1. CASE i \in 1 .. len
      BY <1>1, <1>5, <2>1, <2>2, <3>1 DEF PlaceInv
    <3>2. CASE i = len + 1
      BY <1>1, <1>3, <1>5, <2>3, <3>2
    <3> QED
      BY <1>1, <1>6, <3>1, <3>2
  <2>5. \A i \in DOMAIN events : events[i].is # "removed"
    <3>1. \A i \in DOMAIN events : events[i] \in Events
      BY LenProperties, ElementOfSeq DEF InputInv, InputTypes
    <3>2. \A i \in DOMAIN events : events[i].is = "removed" => events[i].of \in Nat
      BY <3>1 DEF Events
    <3>3. \A i \in DOMAIN events : events[i].is = "removed" => len <= events[i].of /\ events[i].of < len
      BY <2>1, <2>2, <2>3 DEF PlaceInv
    <3> QED
      BY <1>1, <3>2, <3>3
  <2>6. \A i \in DOMAIN events' : events'[i].is # "removed"
    <3>1. \A i \in DOMAIN events' : events'[i] = e \/ \E j \in DOMAIN events : events'[i] = events[j]
      BY <1>2, <1>4, HappensQueue
    <3> QED
      BY <1>2, <2>5, <3>1
  <2>7. \A n \in DOMAIN controllers : controllers[n] = n /\ n < len /\ n \in Nat
    BY <2>1, <2>2, <2>3 DEF PlaceInv, InputInv, InputTypes
  <2>8. ASSUME "controllers" \in host, NEW n \in 0 .. len
        PROVE  n \in DOMAIN controllers \/ Announced("added", n)'
    <3>1. CASE n = len
      BY <1>2, <1>4, <2>8, <3>1, HappensQueue
    <3>2. CASE n \in 0 .. len - 1
      <4>1. n \in DOMAIN controllers \/ Announced("added", n)
        BY <2>1, <2>2, <2>8, <3>2 DEF PlaceInv
      <4> QED
        BY <1>2, <1>4, <4>1, HappensQueue
    <3> QED
      BY <1>1, <3>1, <3>2
  <2>9. Len(gamepads') <= gamepadCount' /\ Len(gamepads') - 1 = len
    BY <1>1, <1>4, <1>5, <2>3
  <2>10. \A n \in DOMAIN controllers : n < gamepadCount' /\ ~(Len(gamepads') <= n)
    BY <1>1, <1>4, <1>5, <2>3, <2>7
  <2> QED
    BY <2>4, <2>6, <2>7, <2>8, <2>9, <2>10
<1>12. PlaceInv'
  BY <1>7, <1>11 DEF PlaceInv
<1> QED
  BY <1>8, <1>10, <1>12 DEF InputInv

\* A controller goes.
LEMMA UnplugStep ==
  ASSUME InputInv, Unplug
  PROVE  InputInv'
<1> DEFINE len == Len(gamepads)
           gone == gamepads[len].number
           e == [is |-> "removed", of |-> gone]
<1>1. gamepads \in Seq(Gamepads) /\ len \in Nat /\ DOMAIN gamepads = 1 .. len /\ gamepadCount \in Nat
  BY LenProperties DEF InputInv, InputTypes
<1>2. len > 0
  BY <1>1, EmptySeq DEF Unplug
<1>3. \A i \in 1 .. len : gamepads[i] \in Gamepads
  BY <1>1, ElementOfSeq
<1>4. gone \in Nat
  BY <1>1, <1>2, <1>3 DEF Gamepads
<1>5. e \in Events /\ e.is = "removed" /\ e.of = gone
  BY <1>4 DEF Events
<1>6. /\ Happens(e) /\ gamepads' = SubSeq(gamepads, 1, len - 1)
      /\ UNCHANGED <<held, gamepadCount, replugged>>
  BY DEF Unplug, Front, Last
<1> HIDE DEF e, gone
<1>7. /\ gamepads' \in Seq(Gamepads) /\ Len(gamepads') = len - 1
      /\ \A i \in 1 .. len - 1 : gamepads'[i] = gamepads[i]
  <2> DEFINE s == gamepads
  <2>1. \A i \in 1 .. len - 1 : s[i] \in Gamepads
    BY <1>1, <1>3
  <2>2. 1 \in Int /\ len - 1 \in Int /\ len - 1 - 1 + 1 = len - 1 /\ \A i \in 1 .. len - 1 : 1 + i - 1 = i
    BY <1>1
  <2>3. (IF 1 <= len - 1 THEN len - 1 - 1 + 1 ELSE 0) = len - 1
    BY <1>1, <1>2
  <2> HIDE DEF len, s
  <2>4. /\ SubSeq(s, 1, len - 1) \in Seq(Gamepads)
        /\ Len(SubSeq(s, 1, len - 1)) = IF 1 <= len - 1 THEN len - 1 - 1 + 1 ELSE 0
        /\ \A i \in 1 .. len - 1 - 1 + 1 : SubSeq(s, 1, len - 1)[i] = s[1 + i - 1]
    BY <2>1, <2>2, SubSeqProperties
  <2> QED
    BY <1>6, <2>2, <2>3, <2>4 DEF s
<1>8. DOMAIN gamepads' = 1 .. len - 1
  BY <1>7, LenProperties
<1> HIDE DEF len
<1>9. UNCHANGED <<host, keys, controllers>> /\ events' \in Seq(Events)
  BY <1>5, <1>6, HappensEvent
<1>10. InputTypes'
  BY <1>6, <1>7, <1>9 DEF InputInv, InputTypes
<1>11. held' = CASE e.is = "down" -> held \cup {e.of} [] e.is = "up" -> held \ {e.of} [] OTHER -> held
  BY <1>5, <1>6
<1>12. KeyInv' /\ StageInv' /\ PadInv'
  BY <1>5, <1>6, <1>11, KeyHappens, HappensStage
<1>13. ASSUME ~replugged
       PROVE  /\ Len(gamepads') <= gamepadCount
              /\ \A i \in DOMAIN gamepads' : gamepads'[i].number = i - 1
              /\ \A i \in DOMAIN events' :
                   events'[i].is = "removed" => Len(gamepads') <= events'[i].of /\ events'[i].of < gamepadCount
              /\ \A n \in DOMAIN controllers :
                   /\ controllers[n] = n /\ n < gamepadCount
                   /\ Len(gamepads') <= n => Announced("removed", n)'
              /\ "controllers" \in host =>
                   \A n \in 0 .. Len(gamepads') - 1 : n \in DOMAIN controllers \/ Announced("added", n)'
  <2>1. PlaceInv /\ Len(gamepads) = len
    BY DEF InputInv, len
  <2>2. len <= gamepadCount /\ \A i \in 1 .. len : gamepads[i].number = i - 1
    BY <1>1, <1>13, <2>1 DEF PlaceInv
  <2>3. gone = len - 1
    BY <1>1, <1>2, <2>2 DEF gone
  <2>4. \A i \in DOMAIN gamepads' : gamepads'[i].number = i - 1
    <3> TAKE i \in DOMAIN gamepads'
    <3>1. i \in 1 .. len - 1 /\ i \in 1 .. len
      BY <1>1, <1>8
    <3> QED
      BY <1>7, <2>2, <3>1
  <2>5. \A i \in DOMAIN events :
          events[i].is = "removed" => len <= events[i].of /\ events[i].of < gamepadCount /\ events[i].of \in Nat
    <3>1. \A i \in DOMAIN events : events[i] \in Events
      BY LenProperties, ElementOfSeq DEF InputInv, InputTypes
    <3>2. \A i \in DOMAIN events : events[i].is = "removed" => events[i].of \in Nat
      BY <3>1 DEF Events
    <3> QED
      BY <1>13, <2>1, <3>2 DEF PlaceInv
  <2>6. \A i \in DOMAIN events' :
          events'[i].is = "removed" => len - 1 <= events'[i].of /\ events'[i].of < gamepadCount
    <3> TAKE i \in DOMAIN events'
    <3>1. events'[i] = e \/ \E j \in DOMAIN events : events'[i] = events[j]
      BY <1>5, <1>6, HappensQueue
    <3>2. CASE events'[i] = e
      BY <1>1, <1>5, <2>2, <2>3, <3>2
    <3>3. CASE \E j \in DOMAIN events : events'[i] = events[j]
      BY <1>1, <2>5, <3>3
    <3> QED
      BY <3>1, <3>2, <3>3
  <2>7. ASSUME NEW n \in DOMAIN controllers
        PROVE  /\ controllers[n] = n /\ n < gamepadCount
               /\ len - 1 <= n => Announced("removed", n)'
    <3>1. controllers[n] = n /\ n < gamepadCount /\ n \in Nat
      BY <1>13, <2>1 DEF PlaceInv, InputInv, InputTypes
    <3>2. CASE len <= n
      <4>1. Announced("removed", n)
        BY <1>13, <2>1, <3>2 DEF PlaceInv
      <4> QED
        BY <1>5, <1>6, <3>1, <4>1, HappensQueue
    <3>3. CASE n = len - 1
      <4>1. "controllers" \in host
        BY DEF InputInv, StageInv
      <4>2. Announced("removed", n)'
        BY <1>5, <1>6, <2>3, <3>3, <4>1, HappensQueue
      <4> QED
        BY <3>1, <4>2
    <3> QED
      BY <1>1, <3>1, <3>2, <3>3
  <2>8. ASSUME "controllers" \in host, NEW n \in 0 .. len - 2
        PROVE  n \in DOMAIN controllers \/ Announced("added", n)'
    <3>1. n \in 0 .. len - 1
      BY <1>1
    <3>2. n \in DOMAIN controllers \/ Announced("added", n)
      BY <1>13, <2>1, <2>8, <3>1 DEF PlaceInv
    <3> QED
      BY <1>5, <1>6, <3>2, HappensQueue
  <2>9. Len(gamepads') <= gamepadCount /\ Len(gamepads') - 1 = len - 2
    BY <1>1, <1>7, <2>2
  <2> QED
    BY <1>7, <2>4, <2>6, <2>7, <2>8, <2>9
<1>14. PlaceInv'
  BY <1>6, <1>9, <1>13 DEF PlaceInv
<1> QED
  BY <1>10, <1>12, <1>14 DEF InputInv

\* The loop takes the event in front.
LEMMA HeadOfQueue ==
  ASSUME InputInv, PollEvent
  PROVE  /\ Len(events) \in Nat /\ Len(events) > 0 /\ DOMAIN events = 1 .. Len(events)
         /\ Head(events) = events[1] /\ events[1] \in Events
         /\ events' \in Seq(Events) /\ DOMAIN events' = 1 .. Len(events) - 1
         /\ \A i \in 1 .. Len(events) - 1 : events'[i] = events[i + 1]
<1>1. events \in Seq(Events) /\ events # << >> /\ events' = Tail(events)
  BY DEF PollEvent, InputInv, InputTypes
<1>2. Len(events) \in Nat /\ Len(events) > 0 /\ DOMAIN events = 1 .. Len(events)
  BY <1>1, EmptySeq, LenProperties
<1>3. /\ events' \in Seq(Events) /\ Len(events') = Len(events) - 1
      /\ \A i \in 1 .. Len(events') : events'[i] = events[i + 1]
  BY <1>1, HeadTailProperties
<1>4. DOMAIN events' = 1 .. Len(events) - 1
  BY <1>3, LenProperties
<1>5. Head(events) = events[1] /\ events[1] \in Events
  BY <1>1, <1>2, ElementOfSeq
<1> QED
  BY <1>2, <1>3, <1>4, <1>5

\* The loop takes the oldest event: the keys.
LEMMA PollKeys ==
  ASSUME InputInv, PollEvent
  PROVE  KeyInv'
<1> DEFINE e == events[1]
           len == Len(events)
<1>1. /\ len \in Nat /\ len > 0 /\ DOMAIN events = 1 .. len /\ DOMAIN events' = 1 .. len - 1
      /\ \A i \in 1 .. len - 1 : events'[i] = events[i + 1]
  BY HeadOfQueue
<1>2. /\ held' = held
      /\ keys' = CASE e.is = "down" -> keys \cup {e.of} [] e.is = "up" -> keys \ {e.of} [] OTHER -> keys
  BY HeadOfQueue DEF PollEvent
<1> HIDE DEF e, len
<1>3. ASSUME NEW k \in Keys
      PROVE  /\ KeyEvents(k)' = {} => (k \in keys' <=> k \in held)
             /\ \A i \in KeyEvents(k)' :
                  (\A j \in KeyEvents(k)' : j <= i) => (events'[i].is = "down" <=> k \in held)
  <2>1. \A i \in 1 .. len - 1 : i \in KeyEvents(k)' <=> i + 1 \in KeyEvents(k)
    <3>1. \A i \in 1 .. len - 1 : i + 1 \in 1 .. len
      BY <1>1
    <3> QED
      BY <1>1, <3>1 DEF KeyEvents
  <2>2. KeyEvents(k)' \subseteq 1 .. len - 1 /\ KeyEvents(k) \subseteq 1 .. len
    BY <1>1 DEF KeyEvents
  <2>3. \A j \in KeyEvents(k) : j = 1 \/ (j - 1 \in KeyEvents(k)' /\ j = (j - 1) + 1)
    <3> TAKE j \in KeyEvents(k)
    <3>1. CASE j # 1
      <4>1. j - 1 \in 1 .. len - 1 /\ (j - 1) + 1 = j
        BY <1>1, <2>2, <3>1
      <4> QED
        BY <2>1, <4>1
    <3> QED
      BY <3>1
  <2>4. KeyEvents(k)' = {} => (k \in keys' <=> k \in held)
    <3> SUFFICES ASSUME KeyEvents(k)' = {} PROVE k \in keys' <=> k \in held
      OBVIOUS
    <3>1. CASE 1 \in KeyEvents(k)
      <4>1. \A j \in KeyEvents(k) : j <= 1
        BY <2>3
      <4>2. e.is = "down" <=> k \in held
        BY <3>1, <4>1 DEF InputInv, KeyInv, e
      <4>3. e.is \in {"down", "up"} /\ e.of = k
        BY <3>1 DEF KeyEvents, e
      <4> QED
        BY <1>2, <4>2, <4>3
    <3>2. CASE 1 \notin KeyEvents(k)
      <4>1. KeyEvents(k) = {}
        BY <2>3, <3>2
      <4>2. k \in keys <=> k \in held
        BY <4>1 DEF InputInv, KeyInv
      <4>3. ~(e.is \in {"down", "up"} /\ e.of = k)
        BY <1>1, <3>2 DEF KeyEvents, e
      <4> QED
        BY <1>2, <4>2, <4>3
    <3> QED
      BY <3>1, <3>2
  <2>5. ASSUME NEW i \in KeyEvents(k)', \A j \in KeyEvents(k)' : j <= i
        PROVE  events'[i].is = "down" <=> k \in held
    <3>1. i \in 1 .. len - 1 /\ i + 1 \in KeyEvents(k)
      BY <2>1, <2>2
    <3>2. \A j \in KeyEvents(k) : j <= i + 1
      <4> TAKE j \in KeyEvents(k)
      <4>1. CASE j = 1
        BY <1>1, <3>1, <4>1
      <4>2. CASE j - 1 \in KeyEvents(k)'
        <5>1. j - 1 <= i
          BY <2>5, <4>2
        <5> QED
          BY <1>1, <2>2, <3>1, <5>1
      <4> QED
        BY <2>3, <4>1, <4>2
    <3>3. events[i + 1].is = "down" <=> k \in held
      BY <3>1, <3>2 DEF InputInv, KeyInv
    <3> QED
      BY <1>1, <3>1, <3>3
  <2> QED
    BY <2>4, <2>5
<1> QED
  BY <1>2, <1>3 DEF KeyInv

\* The loop takes the oldest event: the controllers.
LEMMA PollPlaces ==
  ASSUME InputInv, PollEvent, ~replugged
  PROVE  PlaceInv'
<1> DEFINE e == events[1]
           len == Len(events)
           there == Len(gamepads)
<1>1. /\ len \in Nat /\ len > 0 /\ DOMAIN events = 1 .. len /\ DOMAIN events' = 1 .. len - 1
      /\ \A i \in 1 .. len - 1 : events'[i] = events[i + 1]
  BY HeadOfQueue
<1>2. /\ UNCHANGED <<gamepads, gamepadCount, replugged, host>>
      /\ controllers' =
           CASE e.is = "added" /\ e.of < there ->
                  [i \in DOMAIN controllers \cup {e.of} |->
                     IF i = e.of THEN gamepads[e.of + 1].number ELSE controllers[i]]
             [] e.is = "removed" -> [i \in DOMAIN controllers \ {e.of} |-> controllers[i]]
             [] OTHER -> controllers
  BY HeadOfQueue DEF PollEvent, Without
<1>3. e \in Events /\ there \in Nat /\ gamepadCount \in Nat /\ DOMAIN gamepads = 1 .. there
      /\ DOMAIN controllers \subseteq Nat
  BY HeadOfQueue, LenProperties DEF InputInv, InputTypes
<1>4. e.is \in {"added", "removed"} => e.of \in Nat
  BY <1>3 DEF Events
<1>5. /\ there <= gamepadCount
      /\ \A i \in 1 .. there : gamepads[i].number = i - 1
      /\ \A i \in DOMAIN events :
           events[i].is = "removed" => there <= events[i].of /\ events[i].of < gamepadCount
      /\ \A n \in DOMAIN controllers :
           /\ controllers[n] = n /\ n < gamepadCount
           /\ there <= n => Announced("removed", n)
      /\ "controllers" \in host => \A n \in 0 .. there - 1 : n \in DOMAIN controllers \/ Announced("added", n)
  BY <1>3 DEF InputInv, PlaceInv
<1> HIDE DEF e, len, there
<1>6. ASSUME NEW what, NEW n, Announced(what, n), ~(e.is = what /\ e.of = n)
      PROVE  Announced(what, n)'
  <2>1. PICK i \in 1 .. len : events[i].is = what /\ events[i].of = n
    BY <1>1, <1>6 DEF Announced
  <2>2. i # 1
    BY <1>6, <2>1 DEF e
  <2>3. i - 1 \in 1 .. len - 1 /\ (i - 1) + 1 = i
    BY <1>1, <2>2
  <2>4. events'[i - 1] = events[i]
    BY <1>1, <2>3
  <2> QED
    BY <1>1, <2>1, <2>3, <2>4 DEF Announced
<1>7. \A i \in DOMAIN events' :
        events'[i].is = "removed" => there <= events'[i].of /\ events'[i].of < gamepadCount
  <2> TAKE i \in DOMAIN events'
  <2>1. i + 1 \in DOMAIN events /\ events'[i] = events[i + 1]
    BY <1>1
  <2> QED
    BY <1>5, <2>1
<1>8. CASE e.is = "added" /\ e.of < there
  <2>1. /\ DOMAIN controllers' = DOMAIN controllers \cup {e.of}
        /\ \A n \in DOMAIN controllers' :
             controllers'[n] = IF n = e.of THEN gamepads[e.of + 1].number ELSE controllers[n]
    BY <1>2, <1>8
  <2>2. e.of \in Nat /\ e.of + 1 \in 1 .. there /\ (e.of + 1) - 1 = e.of
    BY <1>3, <1>4, <1>8
  <2>3. gamepads[e.of + 1].number = e.of /\ e.of < gamepadCount /\ ~(there <= e.of)
    BY <1>3, <1>5, <1>8, <2>2
  <2>4. ASSUME NEW n \in DOMAIN controllers'
        PROVE  /\ controllers'[n] = n /\ n < gamepadCount
               /\ there <= n => Announced("removed", n)'
    <3>1. CASE n = e.of
      BY <2>1, <2>3, <3>1
    <3>2. CASE n # e.of
      BY <1>5, <1>6, <1>8, <2>1, <3>2
    <3> QED
      BY <3>1, <3>2
  <2>5. "controllers" \in host => \A n \in 0 .. there - 1 : n \in DOMAIN controllers' \/ Announced("added", n)'
    BY <1>5, <1>6, <2>1
  <2> QED
    BY <1>2, <1>3, <1>5, <1>7, <2>4, <2>5 DEF PlaceInv, there
<1>9. CASE e.is = "removed"
  <2>1. /\ DOMAIN controllers' = DOMAIN controllers \ {e.of}
        /\ \A n \in DOMAIN controllers' : controllers'[n] = controllers[n]
    BY <1>2, <1>9
  <2>2. there <= e.of /\ e.of \in Nat
    BY <1>1, <1>4, <1>5, <1>9 DEF e
  <2>3. ASSUME NEW n \in DOMAIN controllers'
        PROVE  /\ controllers'[n] = n /\ n < gamepadCount
               /\ there <= n => Announced("removed", n)'
    BY <1>5, <1>6, <2>1
  <2>4. ASSUME "controllers" \in host, NEW n \in 0 .. there - 1
        PROVE  n \in DOMAIN controllers' \/ Announced("added", n)'
    <3>1. n # e.of
      BY <1>3, <2>2
    <3> QED
      BY <1>5, <1>6, <1>9, <2>1, <2>4, <3>1
  <2> QED
    BY <1>2, <1>3, <1>5, <1>7, <2>3, <2>4 DEF PlaceInv, there
<1>10. CASE ~(e.is = "added" /\ e.of < there) /\ e.is # "removed"
  <2>1. controllers' = controllers
    BY <1>2, <1>10
  <2>2. ASSUME NEW n \in DOMAIN controllers
        PROVE  /\ controllers[n] = n /\ n < gamepadCount
               /\ there <= n => Announced("removed", n)'
    BY <1>5, <1>6, <1>10
  <2>3. ASSUME "controllers" \in host, NEW n \in 0 .. there - 1
        PROVE  n \in DOMAIN controllers' \/ Announced("added", n)'
    <3>1. n < there
      BY <1>3
    <3> QED
      BY <1>5, <1>6, <1>10, <2>1, <2>3, <3>1
  <2> QED
    BY <1>2, <1>3, <1>5, <1>7, <2>1, <2>2, <2>3 DEF PlaceInv, there
<1> QED
  BY <1>8, <1>9, <1>10

\* The loop takes the oldest event: all of the invariant.
LEMMA PollStep ==
  ASSUME InputInv, PollEvent
  PROVE  InputInv'
<1> DEFINE e == events[1]
<1>1. /\ UNCHANGED <<gamepads, gamepadCount, replugged, held, host, fresh, pad>>
      /\ boot = "loop" /\ boot' \in {"loop", "ended"}
      /\ keys' = CASE e.is = "down" -> keys \cup {e.of} [] e.is = "up" -> keys \ {e.of} [] OTHER -> keys
      /\ controllers' =
           CASE e.is = "added" /\ e.of < Len(gamepads) ->
                  [i \in DOMAIN controllers \cup {e.of} |->
                     IF i = e.of THEN gamepads[e.of + 1].number ELSE controllers[i]]
             [] e.is = "removed" -> [i \in DOMAIN controllers \ {e.of} |-> controllers[i]]
             [] OTHER -> controllers
  BY HeadOfQueue DEF PollEvent, Without, Running
<1>2. e \in Events /\ events' \in Seq(Events) /\ events # << >>
  BY HeadOfQueue DEF PollEvent
<1>3. 1 \in DOMAIN events /\ \A i \in DOMAIN events' : \E j \in DOMAIN events : events'[i] = events[j]
  <2> DEFINE len == Len(events)
  <2>1. /\ len \in Nat /\ len > 0 /\ DOMAIN events = 1 .. len /\ DOMAIN events' = 1 .. len - 1
        /\ \A i \in 1 .. len - 1 : events'[i] = events[i + 1]
    BY HeadOfQueue
  <2> HIDE DEF len
  <2>2. \A i \in 1 .. len - 1 : i + 1 \in 1 .. len
    BY <2>1
  <2> QED
    BY <2>1, <2>2
<1>4. "controllers" \notin host => e.is \in {"down", "up"}
  BY <1>3 DEF InputInv, StageInv
<1>5. /\ e.is \in {"down", "up"} => e.of \in Keys
      /\ e.is \in {"added", "removed"} => e.of \in Nat
  BY <1>2 DEF Events
<1> HIDE DEF e
<1>6. InputTypes'
  <2>1. keys' \subseteq Keys
    BY <1>1, <1>5 DEF InputInv, InputTypes
  <2>2. controllers' = [i \in DOMAIN controllers' |-> controllers'[i]] /\ DOMAIN controllers' \subseteq Nat
    BY <1>1, <1>5 DEF InputInv, InputTypes
  <2> QED
    BY <1>1, <1>2, <2>1, <2>2 DEF InputInv, InputTypes
<1>7. StageInv'
  BY <1>1, <1>3, <1>4 DEF InputInv, StageInv
<1>8. PlaceInv'
  BY <1>1, PollPlaces DEF PlaceInv
<1>9. PadInv'
  BY <1>1, <1>2 DEF InputInv, PadInv, PadShowsTheUser, Running
<1> QED
  BY <1>6, <1>7, <1>8, <1>9, PollKeys DEF InputInv

\* What is published with an empty queue is what the user does.
LEMMA PublishStep ==
  ASSUME InputInv, PublishPad
  PROVE  InputInv'
<1>1. /\ Running /\ events = << >>
      /\ UNCHANGED <<inputVars, boot, host, keys, controllers>>
      /\ IF controllers = << >> THEN pad' = Merged(Rest, keys)
         ELSE \E i \in DOMAIN controllers : pad' = Merged(Shown(controllers[i]), keys)
  BY DEF PublishPad
<1>2. InputTypes' /\ StageInv' /\ KeyInv' /\ PlaceInv'
  BY <1>1 DEF inputVars, InputInv, InputTypes, StageInv, KeyInv, KeyEvents, PlaceInv, Announced, Running
<1>3. DOMAIN events = {}
  BY <1>1
<1>4. keys = held
  BY <1>3 DEF InputInv, InputTypes, KeyInv, KeyEvents
<1>5. \A n : Shown(n)' = Shown(n)
  BY <1>1 DEF Shown, inputVars
<1>6. PadShowsTheUser'
  <2> SUFFICES ASSUME ~replugged
               PROVE  IF gamepads = << >> \/ "controllers" \notin host THEN pad' = Merged(Rest, held)
                      ELSE \E g \in Range(gamepads) : pad' = Merged(Shown(g.number), held)
    BY <1>1, <1>5 DEF PadShowsTheUser, inputVars
  <2> DEFINE there == Len(gamepads)
  <2>1. gamepads \in Seq(Gamepads) /\ there \in Nat /\ DOMAIN gamepads = 1 .. there
    BY LenProperties DEF InputInv, InputTypes
  <2>2. \A n \in DOMAIN controllers : controllers[n] = n /\ n \in Nat /\ ~(there <= n)
    BY <1>3 DEF InputInv, InputTypes, PlaceInv, Announced
  <2>3. "controllers" \in host => \A n \in 0 .. there - 1 : n \in DOMAIN controllers
    BY <1>3 DEF InputInv, PlaceInv, Announced
  <2> HIDE DEF there
  <2>4. CASE gamepads = << >> \/ "controllers" \notin host
    <3>1. CASE "controllers" \notin host
      BY <1>1, <1>4, <3>1 DEF InputInv, StageInv
    <3>2. CASE gamepads = << >>
      <4>1. there = 0
        BY <2>1, <3>2, EmptySeq DEF there
      <4>2. ASSUME NEW n \in DOMAIN controllers
            PROVE  FALSE
        BY <2>2, <4>1
      <4>3. controllers = << >>
        <5>1. DOMAIN controllers = {}
          BY <4>2
        <5>2. controllers = [i \in {} |-> controllers[i]]
          BY <5>1 DEF InputInv, InputTypes
        <5> QED
          BY <5>2
      <4> QED
        BY <1>1, <1>4, <3>2, <4>3
    <3> QED
      BY <2>4, <3>1, <3>2
  <2>5. CASE gamepads # << >> /\ "controllers" \in host
    <3>1. there > 0
      BY <2>1, <2>5, EmptySeq DEF there
    <3>2. 0 \in DOMAIN controllers
      BY <2>1, <2>3, <2>5, <3>1
    <3>3. controllers # << >>
      BY <3>2
    <3>4. PICK i \in DOMAIN controllers : pad' = Merged(Shown(controllers[i]), keys)
      BY <1>1, <3>3
    <3>5. i \in Nat /\ controllers[i] = i /\ ~(there <= i)
      BY <2>2
    <3>6. i + 1 \in DOMAIN gamepads /\ (i + 1) - 1 = i
      BY <2>1, <3>5
    <3>7. gamepads[i + 1].number = i
      BY <3>6 DEF InputInv, PlaceInv
    <3>8. gamepads[i + 1] \in Range(gamepads)
      BY <3>6 DEF Range
    <3> QED
      BY <1>4, <2>5, <3>4, <3>5, <3>7, <3>8
  <2> QED
    BY <2>4, <2>5
<1>7. PadInv'
  BY <1>1, <1>6 DEF PadInv, inputVars
<1> QED
  BY <1>2, <1>7 DEF InputInv

\* Start-up opens the controllers under their places and announces them.
LEMMA BootStep ==
  ASSUME InputInv, NEW ok \in BOOLEAN, Boot(ok)
  PROVE  InputInv'
<1>1. /\ boot \notin {"loop", "ended"}
      /\ UNCHANGED <<held, gamepads, gamepadCount, replugged, keys, pad, fresh>>
  <2>1. \A s \in Range(Stages) : s # "ended"
    BY DEF Range, Stages
  <2> QED
    BY <2>1 DEF Boot
<1>2. /\ held = {} /\ keys = {} /\ ~replugged /\ ~fresh /\ gamepadCount = Len(gamepads)
      /\ \A i \in DOMAIN events : events[i].is = "added"
  BY <1>1 DEF InputInv, StageInv
<1> DEFINE there == Len(gamepads)
<1>3. gamepads \in Seq(Gamepads) /\ there \in Nat /\ DOMAIN gamepads = 1 .. there
  BY LenProperties DEF InputInv, InputTypes
<1>4. \A i \in 1 .. there : gamepads[i].number = i - 1
  BY <1>2, <1>3 DEF InputInv, PlaceInv
<1>5. CASE boot = "controllers" /\ ok
  <2>1. /\ host' = host \cup {"controllers"}
        /\ controllers' = [i \in {j - 1 : j \in DOMAIN gamepads} |-> gamepads[i + 1].number]
        /\ events' = [i \in DOMAIN gamepads |-> [is |-> "added", of |-> i - 1]]
    BY <1>5 DEF Boot
  <2> HIDE DEF there
  <2>2. \A n : n \in {j - 1 : j \in DOMAIN gamepads} <=> n \in 0 .. there - 1
    <3>1. \A j \in 1 .. there : j - 1 \in 0 .. there - 1
      BY <1>3
    <3>2. \A n \in 0 .. there - 1 : n + 1 \in 1 .. there /\ (n + 1) - 1 = n
      BY <1>3
    <3> QED
      BY <1>3, <3>1, <3>2
  <2>3. /\ DOMAIN controllers' = 0 .. there - 1
        /\ \A n \in 0 .. there - 1 : controllers'[n] = n
        /\ controllers' = [n \in DOMAIN controllers' |-> controllers'[n]]
    <3>1. DOMAIN controllers' = 0 .. there - 1 /\ controllers' = [n \in DOMAIN controllers' |-> controllers'[n]]
      BY <2>1, <2>2
    <3>2. \A n \in 0 .. there - 1 : controllers'[n] = gamepads[n + 1].number
      BY <2>1, <2>2
    <3>3. \A n \in 0 .. there - 1 : n + 1 \in 1 .. there /\ (n + 1) - 1 = n
      BY <1>3
    <3> QED
      BY <1>4, <3>1, <3>2, <3>3
  <2>4. DOMAIN events' = 1 .. there /\ \A i \in 1 .. there : events'[i].is = "added"
    BY <1>3, <2>1
  <2>5. events' \in Seq(Events)
    <3>1. \A i \in 1 .. there : [is |-> "added", of |-> i - 1] \in Events
      BY <1>3 DEF Events
    <3>2. events' \in [1 .. there -> Events]
      BY <1>3, <2>1, <3>1
    <3> QED
      BY <1>3, <3>2, IsASeq
  <2>6. InputTypes'
    BY <1>1, <1>3, <2>3, <2>5 DEF InputInv, InputTypes
  <2>7. StageInv'
    BY <1>1, <1>2, <2>1, <2>4 DEF StageInv
  <2>8. KeyInv'
    BY <1>1, <1>2, <2>4 DEF KeyInv, KeyEvents
  <2>9. PlaceInv'
    <3>1. \A n \in 0 .. there - 1 : n < there /\ ~(there <= n)
      BY <1>3
    <3>2. there <= there
      BY <1>3
    <3>3. \A i \in DOMAIN gamepads : gamepads[i].number = i - 1
      BY <1>3, <1>4
    <3> QED
      BY <1>1, <1>2, <2>3, <2>4, <3>1, <3>2, <3>3 DEF PlaceInv, there
  <2>10. PadInv'
    BY <1>1, <1>2 DEF PadInv, PadShowsTheUser
  <2> QED
    BY <2>6, <2>7, <2>8, <2>9, <2>10 DEF InputInv
<1>6. CASE ~(boot = "controllers" /\ ok)
  <2>1. /\ controllers' = controllers /\ events' = events
        /\ "controllers" \in host' <=> "controllers" \in host
    BY <1>6 DEF Boot
  <2>2. InputTypes' /\ KeyInv'
    BY <1>1, <2>1 DEF InputInv, InputTypes, KeyInv, KeyEvents
  <2>3. StageInv'
    BY <1>1, <1>2, <2>1 DEF InputInv, StageInv
  <2>4. PlaceInv'
    BY <1>1, <2>1 DEF InputInv, PlaceInv, Announced
  <2>5. PadInv'
    BY <1>1, <1>2 DEF PadInv, PadShowsTheUser
  <2> QED
    BY <2>2, <2>3, <2>4, <2>5 DEF InputInv
<1> QED
  BY <1>5, <1>6

\* The invariant of the inputs is inductive.
LEMMA InputInvNext == InputInv /\ [ServicesNext]_serviceVars => InputInv'
<1> SUFFICES ASSUME InputInv, [InputNext]_InputVars
             PROVE  InputInv'
  BY InputsOfServices
<1>1. CASE UNCHANGED InputVars
  <2>1. UNCHANGED <<inputVars, loopVars>>
    BY <1>1 DEF InputVars
  <2>2. InputTypes' /\ StageInv'
    BY <2>1 DEF inputVars, loopVars, InputInv, InputTypes, StageInv
  <2>3. KeyInv'
    BY <2>1 DEF inputVars, loopVars, InputInv, KeyInv, KeyEvents
  <2>4. PlaceInv'
    BY <2>1 DEF inputVars, loopVars, InputInv, PlaceInv, Announced
  <2>5. \A n : Shown(n)' = Shown(n)
    BY <2>1 DEF inputVars, Shown
  <2>6. PadInv'
    BY <2>1, <2>5 DEF inputVars, loopVars, InputInv, PadInv, PadShowsTheUser, Running
  <2> QED
    BY <2>2, <2>3, <2>4, <2>6 DEF InputInv
<1>2. CASE Running /\ EndProgram
  BY <1>2 DEF EndProgram, inputVars, InputInv, InputTypes, StageInv, KeyInv, KeyEvents, PlaceInv,
              Announced, PadInv, PadShowsTheUser, Running
<1> QED
  BY <1>1, <1>2, BootStep, PlugInStep, UnplugStep, KeySteps, PollStep, PublishStep DEF InputNext

\* The pad shows what the user does, whatever way keys and controllers take through the
\* queue, and a sample keeps its shape at every volume, for any keys, controllers,
\* ports and samples (main's event loop, update_global_pad_state, sceAudioOutOutput).
THEOREM DevicesStayFaithful == ServicesSpec => []DevicesAreFaithful
<1>1. ServicesInit => SoundInv
  BY DEF ServicesInit, InitDevices, SoundInv, PortInv, SamplesKeepTheirShape
<1>2. InputInv /\ SoundInv => DevicesAreFaithful
  BY DEF InputInv, PadInv, SoundInv, DevicesAreFaithful
<1>3. ServicesInit /\ [][ServicesNext]_serviceVars => []DevicesAreFaithful
  BY InputInvInit, InputInvNext, <1>1, SoundInvNext, <1>2, PTL
<1> QED
  BY <1>3, PTL DEF ServicesSpec
===============================================================================
