------------------------------- MODULE FileTable -------------------------------
(***************************************************************************)
(* Files of the guest: the table of descriptors and the mount points of    *)
(* saved data (src/src/kernel_hle.rs, src/src/save_data.rs), and the C     *)
(* streams, which pass the table by (src/src/hle_symbols.rs).              *)
(*                                                                         *)
(* The host file is opened before the table is locked; every other call    *)
(* holds the lock over the host's operation and is one step.  A byte is    *)
(* written as the path the writer's own open had named, so that a byte in  *)
(* the wrong file shows.                                                   *)
(***************************************************************************)
EXTENDS Integers, Sequences, SequencesExt

CONSTANTS
  Callers,     \* guest threads
  Spellings,   \* paths as guests write them: leading separators, separator, parts
  OpenFlags,   \* flags of sceKernelOpen: access, creat, trunc, append
  Modes,       \* modes of fopen
  InitialDisk, \* contents of the host's files under game_root, by path
  FirstFile,   \* first number of a file
  Counts,      \* lengths of reads and writes
  Offsets,     \* offsets of seeks
  MaxLength,   \* bound: bytes of a file
  None         \* no call in progress

VARIABLES
  disk,     \* host files: contents by path
  dirs,     \* host directories made so far
  files,    \* ACTIVE_FILES: host files by descriptor
  nextFile, \* FILE_COUNTER
  opening,  \* each thread's host file that is not in the table yet
  mounts,   \* MOUNT_COUNT
  streams,  \* the C library's streams
  known,    \* history: descriptors that opens have answered, with their path
  got       \* history: bytes read, with the path the reader's open had named

fileVars == <<disk, dirs, files, nextFile, opening, mounts, streams, known, got>>

Hole == <<"hole">>

\* What is on the disk at first was written where it is.
ASSUME FilesAssumption ==
  /\ FirstFile \in Nat /\ MaxLength \in Nat
  /\ Counts \subseteq Nat /\ Offsets \subseteq Int
  /\ OpenFlags \subseteq [access : 0 .. 3, creat : BOOLEAN, trunc : BOOLEAN, append : BOOLEAN]
  /\ \A p \in DOMAIN InitialDisk : InitialDisk[p] \in Seq({p, Hole})

InitFiles ==
  /\ disk = InitialDisk
  /\ dirs = {Front(p) : p \in DOMAIN InitialDisk}
  /\ files = << >> /\ nextFile = FirstFile
  /\ opening = [t \in Callers |-> None]
  /\ mounts = 0
  /\ streams = << >>
  /\ known = {} /\ got = {}

-------------------------------------------------------------------------------
\* translate_guest_path: both separators mean the same, leading ones nothing.
HostPath(s) == s.parts

\* create_dir_all of its parent.
WithParents(path) == dirs \cup {SubSeq(path, 1, n) : n \in 1 .. Len(path) - 1}

Least(a, b) == IF a < b THEN a ELSE b

Slice(path, pos, n) ==
  SubSeq(disk[path], pos + 1, Least(pos + n, Len(disk[path])))

\* What a write of n bytes at pos leaves; a gap before it reads as holes.
Written(path, pos, n, byte) ==
  [i \in 1 .. (IF pos + n > Len(disk[path]) THEN pos + n ELSE Len(disk[path])) |->
     IF i > pos /\ i <= pos + n THEN byte
     ELSE IF i <= Len(disk[path]) THEN disk[path][i] ELSE Hole]

-------------------------------------------------------------------------------
Reads(f)  == f.access \in {0, 2}
Writes(f) == f.access \in {1, 2} \/ f.append

\* The host's answer to these options: no access, creation or truncation
\* without writing, truncation of what is appended to, or no such file.
Refused(path, f) ==
  \/ ~Reads(f) /\ ~Writes(f)
  \/ (f.creat \/ f.trunc) /\ ~Writes(f)
  \/ f.trunc /\ f.append
  \/ path \notin DOMAIN disk /\ ~f.creat

\* sceKernelOpen up to the host file.  The parents exist from then on even if
\* the file is refused.
BeginOpen(t, s, f) ==
  LET path == HostPath(s) IN
  /\ dirs' = WithParents(path)
  /\ IF Refused(path, f) THEN UNCHANGED <<disk, opening>>
     ELSE /\ disk' = IF f.trunc \/ path \notin DOMAIN disk
                     THEN [p \in DOMAIN disk \cup {path} |-> IF p = path THEN << >> ELSE disk[p]]
                     ELSE disk
          /\ opening' = [opening EXCEPT ![t] =
               [path |-> path, pos |-> 0, reads |-> Reads(f), writes |-> Writes(f), appends |-> f.append]]
  /\ UNCHANGED <<files, nextFile, mounts, streams, known, got>>

Insert(t, fd) ==
  /\ files' = [d \in DOMAIN files \cup {fd} |-> IF d = fd THEN opening[t] ELSE files[d]]
  /\ known' = known \cup {[fd |-> fd, path |-> opening[t].path]}
  /\ opening' = [opening EXCEPT ![t] = None]
  /\ UNCHANGED <<disk, dirs, mounts, streams, got>>

\* Defect: the number is that of the first place behind the open files.
EndOpenBySize(t) ==
  /\ opening[t] # None
  /\ Insert(t, FirstFile + Cardinality(DOMAIN files))
  /\ UNCHANGED nextFile

\* sceKernelOpen, under the table's lock: numbers are never used again.
EndOpen(t) ==
  /\ opening[t] # None
  /\ Insert(t, nextFile)
  /\ nextFile' = nextFile + 1

\* sceKernelRead.  Threads share the position of a descriptor.
Read(k, n) ==
  /\ k.fd \in DOMAIN files
  /\ files[k.fd].reads
  /\ LET f    == files[k.fd]
         data == Slice(f.path, f.pos, n)
     IN  /\ files' = [files EXCEPT ![k.fd].pos = @ + Len(data)]
         /\ got' = got \cup {[named |-> k.path, byte |-> b] : b \in Range(data)}
  /\ UNCHANGED <<disk, dirs, nextFile, opening, mounts, streams, known>>

\* sceKernelWrite: what is appended goes to the end wherever the position is.
Write(k, n) ==
  /\ k.fd \in DOMAIN files
  /\ files[k.fd].writes
  /\ LET f   == files[k.fd]
         pos == IF f.appends THEN Len(disk[f.path]) ELSE f.pos
     IN  /\ pos + n <= MaxLength
         /\ disk' = [disk EXCEPT ![f.path] = Written(f.path, pos, n, k.path)]
         /\ files' = [files EXCEPT ![k.fd].pos = pos + n]
  /\ UNCHANGED <<dirs, nextFile, opening, mounts, streams, known, got>>

\* sceKernelLseek from the start, the position or the end; other origins and
\* places before the start are refused.
Lseek(k, whence, offset) ==
  /\ k.fd \in DOMAIN files
  /\ LET f    == files[k.fd]
         from == CASE whence = 0 -> 0 [] whence = 1 -> f.pos [] OTHER -> Len(disk[f.path])
     IN  /\ from + offset \in 0 .. MaxLength
         /\ files' = [files EXCEPT ![k.fd].pos = from + offset]
  /\ UNCHANGED <<disk, dirs, nextFile, opening, mounts, streams, known, got>>

\* sceKernelClose of a descriptor of the table.
CloseFile(fd) ==
  /\ fd \in DOMAIN files
  /\ files' = [d \in DOMAIN files \ {fd} |-> files[d]]
  /\ UNCHANGED <<disk, dirs, nextFile, opening, mounts, streams, known, got>>

\* sceSaveDataMount3: a new directory for every mount, whatever its name.
Mount(name) ==
  /\ dirs' = dirs \cup {<<name>>}
  /\ mounts' = mounts + 1
  /\ UNCHANGED <<disk, files, nextFile, opening, streams, known, got>>

-------------------------------------------------------------------------------
\* The host's C library: what is written to a stream is held back for a while.

Stream(path, mode) ==
  [path |-> path, mode |-> mode, pos |-> 0, held |-> 0, open |-> TRUE]

Flushed(s) ==
  LET at == IF s.mode = "a" THEN Len(disk[s.path]) ELSE s.pos - s.held
  IN  [disk EXCEPT ![s.path] = Written(s.path, at, s.held, s.path)]

\* hle_fopen; hle_freopen and hle_freopen_s, which open the new file and leave
\* the stream they are given as it is.
Fopen(s, mode) ==
  LET path == HostPath(s) IN
  /\ dirs' = WithParents(path)
  /\ IF mode = "r" /\ path \notin DOMAIN disk THEN UNCHANGED <<disk, streams>>
     ELSE /\ disk' = IF mode = "w" \/ path \notin DOMAIN disk
                     THEN [p \in DOMAIN disk \cup {path} |-> IF p = path THEN << >> ELSE disk[p]]
                     ELSE disk
          /\ streams' = Append(streams, Stream(path, mode))
  /\ UNCHANGED <<files, nextFile, opening, mounts, known, got>>

Freopen(old, s, mode) == old \in DOMAIN streams /\ Fopen(s, mode)

OnStream(i) == i \in DOMAIN streams /\ streams[i].open

\* hle_fwrite, hle_fputs, hle_fputc and hle_fprintf on a stream of the host.  A
\* FILE in guest memory is none of the host's: it is logged and nothing more.
Fwrite(i, n) ==
  /\ OnStream(i)
  /\ streams[i].mode # "r"
  /\ streams[i].pos + n <= MaxLength
  /\ streams' = [streams EXCEPT ![i].held = @ + n, ![i].pos = @ + n]
  /\ UNCHANGED <<disk, dirs, files, nextFile, opening, mounts, known, got>>

\* hle_fread and hle_fgets.
Fread(i, n) ==
  /\ OnStream(i)
  /\ streams[i].mode = "r"
  /\ LET data == Slice(streams[i].path, streams[i].pos, n)
     IN  /\ streams' = [streams EXCEPT ![i].pos = @ + Len(data)]
         /\ got' = got \cup {[named |-> streams[i].path, byte |-> b] : b \in Range(data)}
  /\ UNCHANGED <<disk, dirs, files, nextFile, opening, mounts, known>>

\* hle_fflush, and the C library of its own accord.
Fflush(i) ==
  /\ OnStream(i)
  /\ streams[i].held > 0
  /\ disk' = Flushed(streams[i])
  /\ streams' = [streams EXCEPT ![i].held = 0]
  /\ UNCHANGED <<dirs, files, nextFile, opening, mounts, known, got>>

\* hle_fseek and hle_rewind write what is held back first.
Fseek(i, offset) ==
  /\ OnStream(i)
  /\ offset \in 0 .. MaxLength
  /\ disk' = Flushed(streams[i])
  /\ streams' = [streams EXCEPT ![i].held = 0, ![i].pos = offset]
  /\ UNCHANGED <<dirs, files, nextFile, opening, mounts, known, got>>

\* hle_fclose.
Fclose(i) ==
  /\ OnStream(i)
  /\ disk' = Flushed(streams[i])
  /\ streams' = [streams EXCEPT ![i].held = 0, ![i].open = FALSE]
  /\ UNCHANGED <<dirs, files, nextFile, opening, mounts, known, got>>

-------------------------------------------------------------------------------
\* Every byte is in the file its writer's open had named, and every byte read
\* is from the file the reader's open had named, also through descriptors that
\* another thread has closed in the meantime: such a call fails, it never
\* reaches somebody else's file (sceKernelOpen, sceKernelRead, sceKernelWrite).
BytesStayInTheirFile ==
  /\ \A p \in DOMAIN disk : Range(disk[p]) \subseteq {p, Hole}
  /\ \A g \in got : g.byte \in {g.named, Hole}
===============================================================================
