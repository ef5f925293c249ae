------------------------------- MODULE Services --------------------------------
(***************************************************************************)
(* Guest threads (GuestThreads) that use the program's services: files and *)
(* streams (FileTable), sockets (Sockets), sound, screen, dialogs and the  *)
(* pad (Devices), and the C library (CLibrary), from the program's         *)
(* start-up to its end.                                                    *)
(*                                                                         *)
(* A game uses some of the services; which ones, is chosen at the start.   *)
(***************************************************************************)
EXTENDS GuestThreads, FileTable, Sockets, Devices, CLibrary, HleCall

CONSTANTS
  Programs,  \* bound: the calls games make, by the set of services they use
  SaveNames  \* names of saved data, by mount

\* Calls are made by guest threads, of which a game may have a second at its start.
ASSUME ServicesAssumption == Callers \subseteq Tids /\ MaxThreads >= 2

VARIABLES
  uses,      \* the services this game uses
  calls      \* calls made

threadVars  == vars
serviceVars == <<threadVars, fileVars, socketVars, deviceVars, libraryVars, callVars, uses, calls>>

\* A game that starts no threads of its own here has a second one already.
ThreadsAtStart ==
  IF "threads" \in uses THEN Init
  ELSE /\ next = 2
       /\ life = [t \in Tids |-> IF t <= 2 THEN "running" ELSE "none"]
       /\ registry = {2} /\ created = {2} /\ taken = {} /\ early = {}
       /\ pc = [t \in Tids |-> "idle"] /\ other = [t \in Tids |-> 0]

ServicesInit ==
  /\ uses \in DOMAIN Programs
  /\ calls = 0
  /\ ThreadsAtStart
  /\ InitFiles
  /\ InitSockets
  /\ InitDevices
  /\ InitLibrary
  /\ CrossInit
  /\ "crossing" \notin uses => startedBy = "main"
  /\ "pad" \notin uses => gamepads = << >>

-------------------------------------------------------------------------------
Free(t) == GuestRuns /\ Ready(t) /\ opening[t] = None /\ request[t] = Nobody

Begins(t, service) ==
  /\ service \in uses
  /\ Free(t)
  /\ calls < Programs[uses]
  /\ calls' = calls + 1
  /\ UNCHANGED <<uses, callVars>>

Others(unchanged) == UNCHANGED unchanged /\ UNCHANGED <<callVars, uses, calls>>

\* hle_close: the number tells what is closed.
CloseByNumber(t, fd) ==
  IF fd >= FirstSocket THEN Call(t, "close", fd) /\ UNCHANGED fileVars
  ELSE CloseFile(fd) /\ UNCHANGED socketVars

FileCall(t) ==
  /\ \/ \E s \in Spellings, f \in OpenFlags : BeginOpen(t, s, f)
     \/ \E k \in known :
          \/ \E n \in Counts : Read(k, n) \/ Write(k, n)
          \/ \E whence \in 0 .. 2, offset \in Offsets : Lseek(k, whence, offset)
          \/ CloseFile(k.fd)
     \/ mounts < Len(SaveNames) /\ Mount(SaveNames[mounts + 1])
  /\ UNCHANGED socketVars

StreamCall ==
  \/ \E s \in Spellings, mode \in Modes :
       Fopen(s, mode) \/ \E i \in DOMAIN streams : Freopen(i, s, mode)
  \/ \E i \in DOMAIN streams :
       \/ \E n \in Counts : Fread(i, n) \/ Fwrite(i, n)
       \/ \E offset \in Offsets : Fseek(i, offset)
       \/ Fclose(i)

SocketCall(t) ==
  \/ Socket(t)
  \/ \E fd \in Numbers, op \in {"connect", "send", "recv", "close"} : Call(t, op, fd)

SoundCall ==
  \/ \E format \in Formats : OpenPort(format)
  \/ \E p \in FirstPort .. nextPort - 1 :
       \/ ClosePort(p)
       \/ \E flag \in {{0}, {1}, 0 .. 7}, volume \in Volumes : SetVolume(p, flag, volume)
       \/ \E sample \in Samples : Output(p, sample)

ScreenCall ==
  \/ OpenVideo \/ CloseVideo
  \/ \E buffer \in Buffers : SubmitFlip(buffer, buffer)
  \/ InitializeDialog \/ OpenBareDialog \/ EndDialog
  \/ \E mode \in DialogModes : OpenDialog(mode)

PrintCall ==
  \E fn \in {"printf", "sprintf", "snprintf", "vsprintf", "vsnprintf"},
     items \in PrintFormats, size \in BufferSizes, n \in Named :
    BeginPrint(fn, items, size, n)

\* exit, quick_exit and _Exit; std::terminate and whatever throws.  Handlers
\* that atexit was given are not called.
EndProgram == boot' = "ended" /\ UNCHANGED <<inputVars, host, keys, controllers, pad, fresh, soundVars, screenVars>>

GuestCall(t) ==
  \/ /\ \/ Begins(t, "files") /\ FileCall(t) /\ UNCHANGED <<threadVars, deviceVars>>
        \/ Begins(t, "streams") /\ StreamCall /\ UNCHANGED <<threadVars, socketVars, deviceVars>>
        \/ Begins(t, "sockets") /\ SocketCall(t) /\ UNCHANGED <<threadVars, fileVars, deviceVars>>
        \/ \E fd \in {k.fd : k \in known} \cup Numbers :
             Begins(t, "close") /\ CloseByNumber(t, fd) /\ UNCHANGED <<threadVars, deviceVars>>
        \/ Begins(t, "sound") /\ SoundCall /\ UNCHANGED <<threadVars, fileVars, socketVars>>
        \/ Begins(t, "screen") /\ ScreenCall /\ UNCHANGED <<threadVars, fileVars, socketVars>>
        \/ Begins(t, "library") /\ EndProgram /\ UNCHANGED <<threadVars, fileVars, socketVars>>
     /\ UNCHANGED libraryVars
  \/ /\ \/ Begins(t, "printing") /\ PrintCall
        \/ Begins(t, "library") /\ LibraryCall
     /\ UNCHANGED <<threadVars, fileVars, socketVars, deviceVars>>

\* A file call that is under way ends; the C library writes what it holds back.
FileStep ==
  /\ GuestRuns
  /\ \/ \E t \in Callers : EndOpen(t)
     \/ \E i \in DOMAIN streams : Fflush(i)
  /\ Others(<<threadVars, socketVars, deviceVars, libraryVars>>)

NetStep(t) == GuestRuns /\ Continue(t) /\ Others(<<threadVars, fileVars, deviceVars, libraryVars>>)

ServerStep(c) ==
  /\ Running
  /\ c \in DOMAIN conns
  /\ Serve(c)
  /\ Others(<<threadVars, fileVars, deviceVars, libraryVars>>)

ThreadStep(t) ==
  /\ "threads" \in uses
  /\ GuestRuns
  /\ Thread(t)
  /\ Others(<<fileVars, socketVars, deviceVars, libraryVars>>)

LibraryStep ==
  /\ GuestRuns
  /\ \/ ScanStep
     \/ "statics" \in uses /\ \E t \in LibCallers : GuardCall(t)
  /\ Others(<<threadVars, fileVars, socketVars, deviceVars>>)

CallStep ==
  /\ "crossing" \in uses
  /\ GuestRuns
  /\ CrossStep
  /\ UNCHANGED <<threadVars, fileVars, socketVars, deviceVars, libraryVars, uses, calls>>

\* Every failure of start-up is looked at with a game that does nothing else.
MayFail == "start" \in uses \/ ("pad" \in uses /\ boot = "controllers")

StartStep ==
  /\ \E ok \in BOOLEAN : (ok \/ MayFail) /\ Boot(ok)
  /\ Others(<<threadVars, fileVars, socketVars, libraryVars>>)

UserStep ==
  /\ "pad" \in uses
  /\ PlugIn \/ Unplug \/ \E k \in Keys : PressKey(k) \/ ReleaseKey(k)
  /\ Others(<<threadVars, fileVars, socketVars, libraryVars>>)

LoopStep ==
  /\ PollEvent \/ PublishPad
  /\ Others(<<threadVars, fileVars, socketVars, libraryVars>>)

ServicesNext ==
  \/ \E t \in Callers : GuestCall(t) \/ NetStep(t) \/ ThreadStep(t)
  \/ \E c \in DOMAIN conns : ServerStep(c)
  \/ FileStep \/ LibraryStep \/ CallStep \/ StartStep \/ UserStep \/ LoopStep

\* Host threads are scheduled, and so are the server's.
Connections == 1 .. Max(Range(Programs))

ServicesSpec ==
  /\ ServicesInit /\ [][ServicesNext]_serviceVars
  /\ \A t \in Callers : WF_serviceVars(NetStep(t))
  /\ \A c \in Connections : WF_serviceVars(ServerStep(c))
===============================================================================
