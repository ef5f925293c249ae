------------------------------- MODULE HleCall --------------------------------
(***************************************************************************)
(* Guest code that calls the program: the wrapper every imported function  *)
(* is reached through, which changes the thread's FS base from the guest's *)
(* thread block to the host's and back (common_hle_wrapper,                *)
(* src/src/hle_symbols.rs), and the trap of system-call instructions       *)
(* (sigsys_handler and dispatch_syscall, src/src/kernel.rs).               *)
(*                                                                         *)
(* One thread is followed, one instruction at a time.  The stack is the    *)
(* sequence of its words, the top last: it is aligned to 16 bytes when the *)
(* length is even.  A value is what was put there, by name.                *)
(***************************************************************************)
EXTENDS Integers, Sequences, SequencesExt

CONSTANTS
  CodePages,     \* upper halves of addresses that guest code may have
  SystemCalls,   \* numbers of system calls made
  MaxCrossings   \* bound: calls by the guest

\* Threads of pthread_create and of main get a thread block; those of thr_new and
\* of started modules run guest code as they are.
ThreadKinds == {"main", "pthread", "thr_new", "module"}

WithBlock == {"main", "pthread"}

VARIABLES
  startedBy, \* what started it
  fs,        \* its FS base: "guest", "host" or what was loaded instead
  reg,       \* its registers
  carry,     \* its carry flag, which tells an error from a value
  stack,
  place, ip, \* where it runs, and the instruction in the wrapper
  foreign,   \* history: guest code has run on the host's FS base
  trapped,   \* history: the last system call, and what the handler was given
  crossings

callVars == <<startedBy, fs, reg, carry, stack, place, ip, foreign, trapped, crossings>>

Integers6 == <<"rdi", "rsi", "rdx", "rcx", "r8", "r9">>

Vectors == <<"xmm0", "xmm1", "xmm2", "xmm3", "xmm4", "xmm5", "xmm6", "xmm7">>

\* Registers a function may change.
Volatile == {"rax", "r10", "r11"} \cup ToSet(Integers6) \cup ToSet(Vectors)

Clobbered == "junk"

Given(r) == "guest's " \o r

CrossInit ==
  /\ startedBy \in ThreadKinds
  /\ fs = IF startedBy \in WithBlock THEN "guest" ELSE "host"
  /\ reg = [r \in Volatile |-> Clobbered]
  /\ carry = FALSE /\ stack = << >>
  /\ place = "guest" /\ ip = 0
  /\ foreign = (startedBy \notin WithBlock)
  /\ trapped = [number |-> 0, args |-> << >>, page |-> 0]
  /\ crossings = 0

-------------------------------------------------------------------------------
\* common_hle_wrapper, in its instructions

I(op, a) == [op |-> op, a |-> a, n |-> 0]

N(op, n) == [op |-> op, a |-> "", n |-> n]

\* Defect: without the words that align the stack for the functions called.
WrapperUnaligned ==
  <<I("push", "rax"), I("push", "rcx"), I("push", "rdx"), I("push", "rsi"),
    I("push", "rdi"), I("push", "r8"), I("push", "r9"), I("push", "r11"),
    N("reserve", 18), N("save vectors", 8), I("load host fs", ""), I("set fs", ""),
    I("call", "debug_hle_transition"), N("restore vectors", 8), N("release", 18),
    I("pop", "r11"), I("pop", "r9"), I("pop", "r8"), I("pop", "rdi"),
    I("pop", "rsi"), I("pop", "rdx"), I("pop", "rcx"), I("pop", "rax"),
    I("call target", ""),
    I("push", "rax"), I("push", "rdx"), N("reserve", 2), N("save vectors", 1),
    I("call", "get_current_guest_fs"),
    I("push", "rax"), I("call", "debug_hle_return"), I("pop", "rsi"), I("set fs", ""),
    N("restore vectors", 1), N("release", 2), I("pop", "rdx"), I("pop", "rax"),
    I("return", "")>>

Wrapper ==
  \* Argument registers are saved, and the host's FS base is set.
  <<I("push", "rax"), I("push", "rcx"), I("push", "rdx"), I("push", "rsi"),
    I("push", "rdi"), I("push", "r8"), I("push", "r9"), I("push", "r11"),
    N("reserve", 18), N("save vectors", 8), I("load host fs", ""), I("set fs", ""),
    N("reserve", 1), I("call", "debug_hle_transition"), N("release", 1),
    N("restore vectors", 8), N("release", 18),
    I("pop", "r11"), I("pop", "r9"), I("pop", "r8"), I("pop", "rdi"),
    I("pop", "rsi"), I("pop", "rdx"), I("pop", "rcx"), I("pop", "rax"),
    N("reserve", 1), I("call target", ""), N("release", 1),
  \* Results are saved, and the guest's FS base is set.
    I("push", "rax"), I("push", "rdx"), N("reserve", 2), N("save vectors", 1),
    N("reserve", 1), I("call", "get_current_guest_fs"), N("release", 1),
    I("push", "rax"), I("call", "debug_hle_return"), I("pop", "rsi"), I("set fs", ""),
    N("restore vectors", 1), N("release", 2), I("pop", "rdx"), I("pop", "rax"),
    I("return", "")>>

Now == Wrapper[ip]

Top == Last(stack)

Runs(op) == place = "wrapper" /\ Now.op = op

Onwards == ip' = ip + 1 /\ UNCHANGED <<place, startedBy, carry, foreign, trapped, crossings>>

\* The word of vector register i, saved from the top of the stack down.
Slot(i) == Len(stack) - 2 * (i - 1)

\* What a thread finds 0x40 bytes into its thread block: the host's FS base was
\* stored in the guest's block, and is nowhere else.
HostBaseAt(base) == IF base = "guest" THEN "host" ELSE "wild"

\* GUEST_FS of the thread.
CurrentGuestFs == IF startedBy \in WithBlock THEN "guest" ELSE "none"

Push == Runs("push") /\ stack' = Append(stack, reg[Now.a]) /\ Onwards /\ UNCHANGED <<fs, reg>>

Pop ==
  /\ Runs("pop")
  /\ reg' = [reg EXCEPT ![Now.a] = Top]
  /\ stack' = Front(stack)
  /\ Onwards /\ UNCHANGED fs

MoveTop ==
  /\ \/ Runs("reserve") /\ stack' = stack \o [i \in 1 .. Now.n |-> "space"]
     \/ Runs("release") /\ stack' = SubSeq(stack, 1, Len(stack) - Now.n)
  /\ Onwards /\ UNCHANGED <<fs, reg>>

SaveVectors ==
  /\ Runs("save vectors")
  /\ stack' = [k \in 1 .. Len(stack) |->
                 IF \E i \in 1 .. Now.n : k = Slot(i)
                   THEN reg[Vectors[CHOOSE i \in 1 .. Now.n : k = Slot(i)]]
                   ELSE stack[k]]
  /\ Onwards /\ UNCHANGED <<fs, reg>>

RestoreVectors ==
  /\ Runs("restore vectors")
  /\ reg' = [r \in Volatile |->
               IF \E i \in 1 .. Now.n : r = Vectors[i]
                 THEN stack[Slot(CHOOSE i \in 1 .. Now.n : r = Vectors[i])]
                 ELSE reg[r]]
  /\ Onwards /\ UNCHANGED <<fs, stack>>

LoadHostFs ==
  /\ Runs("load host fs")
  /\ reg' = [reg EXCEPT !["rsi"] = HostBaseAt(fs)]
  /\ Onwards /\ UNCHANGED <<fs, stack>>

\* arch_prctl(ARCH_SET_FS, rsi); the instruction overwrites rcx and r11.
SetFs ==
  /\ Runs("set fs")
  /\ fs' = reg["rsi"]
  /\ reg' = [reg EXCEPT !["rax"] = "done", !["rdi"] = "code", !["rcx"] = "junk", !["r11"] = "junk"]
  /\ Onwards /\ UNCHANGED stack

\* Functions of the program need the host's FS base and an aligned stack.
Sound == fs = "host" /\ Len(stack) % 2 = 0

Lose == place' = "lost" /\ UNCHANGED <<startedBy, carry, fs, reg, stack, ip, foreign, trapped, crossings>>

CallHost ==
  /\ Runs("call")
  /\ IF Sound
       THEN /\ reg' = [r \in Volatile |->
                         IF r = "rax" /\ Now.a = "get_current_guest_fs"
                           THEN CurrentGuestFs ELSE Clobbered]
            /\ Onwards /\ UNCHANGED <<fs, stack>>
       ELSE Lose

CallTarget ==
  /\ Runs("call target")
  /\ IF Sound
       THEN /\ stack' = Append(stack, "to wrapper")
            /\ place' = "entered"
            /\ UNCHANGED <<startedBy, carry, fs, reg, ip, foreign, trapped, crossings>>
       ELSE Lose

ReturnToGuest ==
  /\ Runs("return")
  /\ place' = IF Top = "to guest" THEN "returned" ELSE "lost"
  /\ stack' = Front(stack)
  /\ ip' = 0
  /\ UNCHANGED <<startedBy, carry, fs, reg, foreign, trapped, crossings>>

WrapperStep ==
  \/ Push \/ Pop \/ MoveTop \/ SaveVectors \/ RestoreVectors
  \/ LoadHostFs \/ SetFs \/ CallHost \/ CallTarget \/ ReturnToGuest

-------------------------------------------------------------------------------
\* The function called: it returns, or it calls a function of the guest's, as
\* qsort and bsearch call the comparison they are given, where it stands.

Results == [rax |-> "result", rdx |-> "second result", xmm0 |-> "vector result"]

\* Its results are left in rax and rdx, or in xmm0.
TargetReturns ==
  /\ place \in {"entered", "target"}
  /\ Top = "to wrapper"
  /\ place' = "wrapper" /\ ip' = ip + 1
  /\ reg' = [r \in Volatile |-> IF r \in DOMAIN Results THEN Results[r] ELSE Clobbered]
  /\ stack' = Front(stack)
  /\ UNCHANGED <<startedBy, carry, fs, foreign, trapped, crossings>>

CallBack ==
  /\ place = "entered"
  /\ place' = "callback"
  /\ stack' = stack \o <<"to target">>
  /\ reg' = [r \in Volatile |-> Clobbered]
  /\ foreign' = TRUE
  /\ UNCHANGED <<startedBy, carry, fs, ip, trapped, crossings>>

CallbackReturns ==
  /\ place = "callback"
  /\ place' = "target"
  /\ stack' = Front(stack)
  /\ UNCHANGED <<startedBy, carry, fs, reg, ip, foreign, trapped, crossings>>

-------------------------------------------------------------------------------
\* The guest

\* A call of an imported function, with words words of arguments on the stack; the
\* stub that stands for it leaves its address in r11 and goes to the wrapper.
GuestCalls(words) ==
  /\ place \in {"guest", "callback"} /\ crossings < MaxCrossings
  /\ crossings' = crossings + 1
  /\ reg' = [r \in Volatile |-> IF r = "r11" THEN "target" ELSE Given(r)]
  /\ stack' = stack \o [i \in 1 .. words + (Len(stack) % 2) |-> "argument"] \o <<"to guest">>
  /\ place' = "wrapper" /\ ip' = 1
  /\ UNCHANGED <<startedBy, carry, fs, foreign, trapped>>

\* The guest takes its results and its arguments off the stack.
GuestGoesOn ==
  /\ place = "returned"
  /\ place' = "guest"
  /\ stack' = << >>
  /\ UNCHANGED <<startedBy, carry, fs, reg, ip, foreign, trapped, crossings>>

-------------------------------------------------------------------------------
\* The filter of initialize_syscall_interceptor, as the kernel runs it on the upper
\* half of the instruction's address: tests with the words each outcome skips.

Test(op, k, jt, jf) == [op |-> op, k |-> k, jt |-> jt, jf |-> jf]

Filter ==
  <<Test("load", 12, 0, 0), Test(">=", 28672, 0, 2), Test(">", 28927, 1, 0),
    Test("trap", 0, 0, 0), Test("allow", 0, 0, 0)>>

Verdict(page) ==
  LET holds(t) == IF t.op = ">=" THEN page >= t.k ELSE page > t.k
      after[i \in 1 .. Len(Filter)] ==
        LET t == Filter[i] IN
        CASE t.op = "load" -> after[i + 1]
          [] t.op \in {">=", ">"} -> after[i + 1 + (IF holds(t) THEN t.jt ELSE t.jf)]
          [] OTHER -> t.op
  IN after[1]

-------------------------------------------------------------------------------
\* dispatch_syscall, as far as its answers are the program's own: memory, threads
\* and locks are GuestMemory's, GuestThreads' and GuestSync's.

\* ioctl, clock_gettime, sigprocmask, sigaction, sigaltstack, read, close,
\* getdents, thr_self, thr_set_name, getuid, and a sleep or the time of day
\* once done: nothing is refused and little is done.
Noted == {54, 232, 340, 46, 53, 3, 6, 78, 432, 464, 24, 240, 116}

\* open and fstat fail, but say so in the value and not in the carry flag.
Failing == {5, 551}

\* exit parks the thread for good.
Parking == {1}

\* write counts what it is given for the two output streams.
Dispatch(number, args) ==
  CASE number = 4 -> [error |-> FALSE,
                      value |-> IF args[1] = "stdout" THEN args[3] ELSE "0"]
    [] number = 20 -> [error |-> FALSE, value |-> "process"]
    [] number \in Noted -> [error |-> FALSE, value |-> "0"]
    [] number \in Failing -> [error |-> FALSE, value |-> "-1"]
    [] OTHER -> [error |-> TRUE, value |-> "78"]

\* sigsys_handler takes the fourth argument from rcx, where the instruction has
\* put its own address.  The kernel restores every register but what the handler
\* changes, and the stack.
SystemCall(number, page, fd) ==
  LET args == <<fd, Given("rsi"), Given("rdx"), "address", Given("r8"), Given("r9")>>
      answer == Dispatch(number, args) IN
  /\ place = "guest" /\ crossings < MaxCrossings
  /\ crossings' = crossings + 1
  /\ trapped' = [number |-> number, args |-> args, page |-> page]
  /\ IF Verdict(page) = "trap"
       THEN /\ place' = IF number \in Parking THEN "parked" ELSE "answered"
            /\ reg' = [r \in Volatile |->
                         CASE r = "rax" -> answer.value
                           [] r = "rdi" -> fd
                           [] r = "rcx" -> "address"
                           [] r = "r11" -> "junk"
                           [] OTHER -> Given(r)]
            /\ carry' = answer.error
       ELSE place' = "elsewhere" /\ UNCHANGED <<reg, carry>>
  /\ UNCHANGED <<startedBy, fs, stack, ip, foreign>>

GuestReadsAnswer ==
  /\ place = "answered"
  /\ place' = "guest"
  /\ UNCHANGED <<startedBy, carry, fs, reg, stack, ip, foreign, trapped, crossings>>

CrossStep ==
  \/ WrapperStep
  \/ TargetReturns \/ CallBack \/ CallbackReturns
  \/ \E words \in {0, 2} : GuestCalls(words)
  \/ GuestGoesOn
  \/ \E n \in SystemCalls, page \in CodePages, fd \in {"stdout", "other"} :
       SystemCall(n, page, fd)
  \/ GuestReadsAnswer

-------------------------------------------------------------------------------
\* Properties

\* A function called by the guest finds the guest's arguments in the six integer
\* and eight vector registers, the host's FS base and an aligned stack, and the
\* guest finds its results, its own FS base and its stack as it left it: whatever
\* the wrapper, its two functions and two system calls overwrite in between.  Only
\* a thread that has run guest code on the host's FS base is ever lost.
CallsCross ==
  /\ place = "entered" =>
       /\ fs = "host" /\ Len(stack) % 2 = 1
       /\ \A r \in {"rax"} \cup ToSet(Integers6) \cup ToSet(Vectors) : reg[r] = Given(r)
  /\ place = "returned" =>
       /\ fs = "guest"
       /\ \A r \in DOMAIN Results : reg[r] = Results[r]
       /\ ToSet(stack) \subseteq {"argument"}
  /\ place = "lost" => foreign

\* A system call of guest code is answered by the program and nobody else's: it is
\* trapped exactly in the range guest modules are loaded at; the carry flag is set
\* for numbers that are not known and for no others, and no register is changed
\* but the answer and the two the instruction itself overwrites.
TrapsServeGuests ==
  LET guestPage == trapped.page \in 28672 .. 28927 IN
  /\ place = "elsewhere" => ~guestPage
  /\ place \in {"answered", "parked"} => guestPage
  /\ place = "answered" =>
       /\ carry <=> trapped.number \notin Noted \cup Failing \cup Parking \cup {4, 20}
       /\ reg["rdi"] = trapped.args[1]
       /\ \A r \in Volatile \ {"rax", "rcx", "r11", "rdi"} : reg[r] = Given(r)
       /\ stack = << >>
       /\ trapped.number = 4 => reg["rax"] \in {"0", trapped.args[3]}

\* Whichever way guest code enters the program, by an import or by a trapped system
\* call, it goes on as if it had called one of its own kind.
CrossingsKeepTheGuest == CallsCross /\ TrapsServeGuests
===============================================================================
