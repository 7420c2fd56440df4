----------------------------- MODULE HostFiles -----------------------------
(***************************************************************************)
(* The mock's file system: fs.c packs the arguments of an operation into   *)
(* bytes, the host bridge carries them to main.py (HostRpc: served in      *)
(* order, answered once), which unpacks them, works on its open files and  *)
(* packs the result; fs.c copies that out.  Any clients, any operations.   *)
(***************************************************************************)
EXTENDS Integers, Sequences

CONSTANTS
  Clients,   \* tasks that use files
  Base,      \* values of a byte (256)
  MaxFd,     \* highest descriptor the host's system hands out
  Ops,       \* operations the clients may ask for
  MaxPos,    \* bound: clients do not move further from an offset beyond this
  Disks,     \* what may be in the host's disk directory: [path -> bytes]
  Nothing

VARIABLES
  disk,      \* the host's directory, a path being a sequence of bytes
  files,     \* dict of main.py: descriptor -> file object (path and offset)
  data,      \* of each client: the struct it passed to fs_*, or Nothing
  requests,  \* clients whose call has not been served, in order
  host_data, \* of each client: code, argument bytes and result of the call
  host_up    \* FALSE after an exception has ended a_main

vars == <<disk, files, data, requests, host_data, host_up>>

Pow(k) == CASE k = 0 -> 1 [] k = 1 -> Base [] k = 2 -> Base * Base
            [] k = 3 -> Base * Base * Base [] k = 4 -> Base * Base * Base * Base
\* A C integer of k bytes as it lies in memory, least byte first; struct.pack
\* with "<" does the same on the host.
Bytes(k, n) == [i \in 1 .. k |-> (n \div Pow(i - 1)) % Base]
Digit(b, i) == IF i \in DOMAIN b THEN b[i] * Pow(i - 1) ELSE 0
Unsigned(b) == Digit(b, 1) + Digit(b, 2) + Digit(b, 3) + Digit(b, 4)
Signed(b) == IF Unsigned(b) >= Pow(Len(b)) \div 2 THEN Unsigned(b) - Pow(Len(b)) ELSE Unsigned(b)

\* The values of a C int, of 4 bytes.
Int32 == -(Pow(4) - Pow(4) \div 2) .. Pow(4) \div 2 - 1

\* What the types of fs.h say of an operation.  A path is shorter than its one
\* byte of length can tell, and a file smaller than an int can.
WellTyped(d) ==
  CASE d.op = "open" -> d.path \in Seq(0 .. Base - 1) /\ Len(d.path) < Base
    [] d.op \in {"close", "size"} -> d.fd \in Int32
    [] d.op = "read" -> d.fd \in Int32 /\ d.n \in Int32
    [] d.op = "seek" -> d.fd \in Int32 /\ d.n \in Int32 /\ d.whence \in 0 .. 2
    [] OTHER -> FALSE

ASSUME FilesAssumption ==
  /\ Base \in Nat /\ Base > 2
  /\ MaxFd \in Nat /\ MaxFd < Pow(4) \div 2
  /\ \A d \in Ops : WellTyped(d)
  /\ \A dir \in Disks : \A path \in DOMAIN dir :
       dir[path] \in Seq(0 .. Base - 1) /\ Len(dir[path]) < Pow(4) \div 2
  /\ Nothing \notin Int /\ Nothing \notin Seq(0 .. Base - 1)
  /\ Nothing \notin {"closed", "moved"} /\ Nothing \notin Ops

CodeOf == [open |-> 4, close |-> 5, size |-> 6, read |-> 7, seek |-> 8]

\* The buffer each fs_* builds.
fs_open_bytes(d) == Bytes(1, Len(d.path)) \o d.path
fs_close_bytes(d) == Bytes(4, d.fd)
fs_size_bytes(d) == Bytes(4, d.fd)
Bug_n_first(d) == Bytes(4, d.n) \o Bytes(4, d.fd)
fs_read_bytes(d) == Bytes(4, d.fd) \o Bytes(4, d.n)
fs_seek_bytes(d) == Bytes(4, d.fd) \o Bytes(4, d.n) \o Bytes(1, d.whence)

Packed(d) == CASE d.op = "open" -> fs_open_bytes(d)
               [] d.op = "close" -> fs_close_bytes(d)
               [] d.op = "size" -> fs_size_bytes(d)
               [] d.op = "read" -> fs_read_bytes(d)
               [] d.op = "seek" -> fs_seek_bytes(d)

WithinBound(d) == d.op = "seek" => \A fd \in DOMAIN files : files[fd].pos <= MaxPos

fs_call(c, d) ==
  /\ data[c] = Nothing /\ WithinBound(d)
  /\ data' = [data EXCEPT ![c] = d]
  /\ host_data' = [host_data EXCEPT ![c] =
                     [code |-> CodeOf[d.op], bytes |-> Packed(d), ret |-> Nothing]]
  /\ requests' = Append(requests, c)
  /\ UNCHANGED <<disk, files, host_up>>

-----------------------------------------------------------------------------
(* main.py *)

Reply(c, ret, newFiles) ==
  /\ host_data' = [host_data EXCEPT ![c].ret = ret]
  /\ files' = newFiles
  /\ requests' = Tail(requests)
  /\ UNCHANGED <<disk, data, host_up>>

\* An exception leaves a_main: this request and those behind it stay unanswered.
Raise ==
  /\ host_up' = FALSE
  /\ UNCHANGED <<disk, files, data, requests, host_data>>

fd_of(b) == Signed(SubSeq(b, 1, 4))
n_of(b) == Signed(SubSeq(b, 5, 8))
InFile(fd) == disk[files[fd].path]
Bug_byte_skipped(fd, pos) == [files EXCEPT ![fd].pos = pos - 1]
Moved(fd, pos) == [files EXCEPT ![fd].pos = pos]
\* What remains of a file from an offset that may be past its end.
Rest(fd) == IF files[fd].pos < Len(InFile(fd)) THEN Len(InFile(fd)) - files[fd].pos ELSE 0

AllInUse == 0 .. MaxFd \subseteq DOMAIN files
HostOpen(c, b) ==
  LET path == SubSeq(b, 2, 1 + Unsigned(SubSeq(b, 1, 1))) IN
  IF path \notin DOMAIN disk \/ AllInUse THEN Raise
  ELSE \E fd \in 0 .. MaxFd \ DOMAIN files :
         Reply(c, Bytes(4, fd),
               [x \in DOMAIN files \cup {fd} |-> IF x = fd THEN [path |-> path, pos |-> 0]
                                                 ELSE files[x]])

HostClose(c, b) ==
  IF fd_of(b) \notin DOMAIN files THEN Raise
  ELSE Reply(c, << >>, [x \in DOMAIN files \ {fd_of(b)} |-> files[x]])

\* tell, seek to the end, seek back.
Bug_left_at_end(fd, size, offset) == Moved(fd, size)
offset_restored(fd, size, offset) == Moved(fd, offset)

HostSize(c, b) ==
  LET fd == fd_of(b) IN
  IF fd \notin DOMAIN files THEN Raise
  ELSE Reply(c, Bytes(4, Len(InFile(fd))),
             offset_restored(fd, Len(InFile(fd)), files[fd].pos))

\* read(n) returns what there is up to n bytes, all of it for a negative n.
HostRead(c, b) ==
  LET fd == fd_of(b)
      got == IF n_of(b) < 0 \/ n_of(b) > Rest(fd) THEN Rest(fd) ELSE n_of(b) IN
  IF fd \notin DOMAIN files THEN Raise
  ELSE IF got # n_of(b) \/ got >= Base THEN Raise
  ELSE Reply(c, SubSeq(InFile(fd), files[fd].pos + 1, files[fd].pos + got),
             Moved(fd, files[fd].pos + got))

SeekTarget(fd, n, whence) ==
  n + (CASE whence = 0 -> 0 [] whence = 1 -> files[fd].pos [] OTHER -> Len(InFile(fd)))

HostSeek(c, b) ==
  LET fd == fd_of(b)
      whence == Unsigned(SubSeq(b, 9, 9)) IN
  IF fd \notin DOMAIN files THEN Raise
  ELSE IF whence > 2 \/ SeekTarget(fd, n_of(b), whence) < 0 THEN Raise
  ELSE Reply(c, << >>, Moved(fd, SeekTarget(fd, n_of(b), whence)))

HostServes ==
  /\ host_up /\ requests # << >>
  /\ LET c == Head(requests)
         b == host_data[c].bytes
         code == host_data[c].code IN
     \/ code = 4 /\ HostOpen(c, b)
     \/ code = 5 /\ HostClose(c, b)
     \/ code = 6 /\ HostSize(c, b)
     \/ code = 7 /\ HostRead(c, b)
     \/ code = 8 /\ HostSeek(c, b)

-----------------------------------------------------------------------------
(* What fs_* leave in the struct once host_transmit has returned. *)
fs_result(d, ret) ==
  CASE d.op = "open" -> Signed(ret)              \* ret_fd
    [] d.op = "close" -> "closed"
    [] d.op = "size" -> Signed(ret)              \* ret_size
    [] d.op = "read" -> SubSeq(ret, 1, d.n)      \* buff
    [] d.op = "seek" -> "moved"

Answered(c) == data[c] # Nothing /\ host_data[c].ret # Nothing

fs_return(c) ==
  /\ Answered(c)
  /\ data' = [data EXCEPT ![c] = Nothing]
  /\ host_data' = [host_data EXCEPT ![c] = Nothing]
  /\ UNCHANGED <<disk, files, requests, host_up>>

FilesInit ==
  /\ disk \in Disks
  /\ files = << >>
  /\ data = [c \in Clients |-> Nothing]
  /\ requests = << >>
  /\ host_data = [c \in Clients |-> Nothing]
  /\ host_up = TRUE

Next == HostServes \/ \E c \in Clients : fs_return(c) \/ \E d \in Ops : fs_call(c, d)

Spec == FilesInit /\ [][Next]_vars

-----------------------------------------------------------------------------
TypeOK ==
  /\ \A path \in DOMAIN disk : disk[path] \in Seq(0 .. Base - 1)
  /\ \A fd \in DOMAIN files : fd \in 0 .. MaxFd /\ files[fd].path \in DOMAIN disk
                              /\ files[fd].pos \in Nat
  /\ \A c \in Clients : data[c] \in Ops \cup {Nothing}
  /\ requests \in Seq(Clients)
  /\ host_up \in BOOLEAN

(* The packing in fs.c, the unpacking in main.py and back (fs.c:12-87,     *)
(* main.py:110-156) are together a file service: what is done is what was  *)
(* asked, to the descriptor it was asked of, and what comes back is what   *)
(* was found.  An abstract operation happens when the host serves it.      *)
Service == INSTANCE FileService WITH
  Fds <- 0 .. MaxFd,
  opened <- files,
  asked <- data,
  result <- [c \in Clients |-> IF Answered(c) THEN fs_result(data[c], host_data[c].ret)
                               ELSE Nothing]

ImplementsFileService == Service!Spec

(* An exception ends the host only on a request that cannot be carried out *)
(* (main.py:115, 124, 130, 141-145, 155): never on a good one.             *)
Impossible(d) ==
  IF d.op = "open" THEN d.path \notin DOMAIN disk \/ AllInUse
  ELSE IF d.fd \notin DOMAIN files THEN TRUE
  ELSE CASE d.op = "read" -> d.n \notin 0 .. Rest(d.fd) \/ d.n >= Base
         [] d.op = "seek" -> d.n + (CASE d.whence = 0 -> 0
                                      [] d.whence = 1 -> files[d.fd].pos
                                      [] d.whence = 2 -> Len(InFile(d.fd))) < 0
         [] OTHER -> FALSE
HostDiesForCause == ~host_up => requests # << >> /\ Impossible(data[Head(requests)])
=============================================================================
