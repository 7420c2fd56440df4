---------------------------- MODULE FileService ----------------------------
(***************************************************************************)
(* What core/fs.h promises: files are opened, read, sized, moved in and    *)
(* closed by descriptor.  An operation is asked for, takes effect at once  *)
(* at some moment, and returns what it found then.  An operation that can  *)
(* not be done (a file that does not exist, no descriptor left or one that *)
(* is not open, a read past the end) never returns, nor does any after it. *)
(***************************************************************************)
EXTENDS Integers, Sequences

CONSTANTS
  Clients,   \* tasks that use files
  Ops,       \* what they may ask for
  Fds,       \* descriptors the system has
  Nothing    \* result of an operation that has none yet

VARIABLES
  disk,      \* contents of each file that exists
  opened,    \* the open descriptors: which file, and how far in
  asked,     \* of each client: the operation it waits for, or Nothing
  result     \* of each client: what that operation found, or Nothing

vars == <<disk, opened, asked, result>>

Init ==
  /\ opened = << >>
  /\ asked = [c \in Clients |-> Nothing]
  /\ result = [c \in Clients |-> Nothing]

Ask(c, d) ==
  /\ asked[c] = Nothing
  /\ asked' = [asked EXCEPT ![c] = d]
  /\ UNCHANGED <<disk, opened, result>>

At(fd) == disk[opened[fd].path]
Left(fd) == IF opened[fd].pos > Len(At(fd)) THEN 0 ELSE Len(At(fd)) - opened[fd].pos
Without(f, x) == [y \in DOMAIN f \ {x} |-> f[y]]
With(f, x, v) == [y \in DOMAIN f \cup {x} |-> IF y = x THEN v ELSE f[y]]
Target(d) == d.n + (CASE d.whence = 0 -> 0
                      [] d.whence = 1 -> opened[d.fd].pos
                      [] d.whence = 2 -> Len(At(d.fd)))

Answer(c, r) == result' = [result EXCEPT ![c] = r]

Open(c, d) ==
  /\ d.op = "open" /\ d.path \in DOMAIN disk
  /\ \E fd \in Fds \ DOMAIN opened :
       opened' = With(opened, fd, [path |-> d.path, pos |-> 0]) /\ Answer(c, fd)

Close(c, d) ==
  /\ d.op = "close" /\ d.fd \in DOMAIN opened
  /\ opened' = Without(opened, d.fd) /\ Answer(c, "closed")

Size(c, d) ==
  /\ d.op = "size" /\ d.fd \in DOMAIN opened
  /\ UNCHANGED opened /\ Answer(c, Len(At(d.fd)))

Read(c, d) ==
  /\ d.op = "read" /\ d.fd \in DOMAIN opened /\ d.n \in 0 .. Left(d.fd)
  /\ opened' = [opened EXCEPT ![d.fd].pos = @ + d.n]
  /\ Answer(c, SubSeq(At(d.fd), opened[d.fd].pos + 1, opened[d.fd].pos + d.n))

Seek(c, d) ==
  /\ d.op = "seek" /\ d.fd \in DOMAIN opened /\ Target(d) >= 0
  /\ opened' = [opened EXCEPT ![d.fd].pos = Target(d)] /\ Answer(c, "moved")

Perform(c) ==
  /\ asked[c] # Nothing /\ result[c] = Nothing
  /\ LET d == asked[c] IN Open(c, d) \/ Close(c, d) \/ Size(c, d) \/ Read(c, d) \/ Seek(c, d)
  /\ UNCHANGED <<disk, asked>>

Return(c) ==
  /\ result[c] # Nothing
  /\ asked' = [asked EXCEPT ![c] = Nothing]
  /\ result' = [result EXCEPT ![c] = Nothing]
  /\ UNCHANGED <<disk, opened>>

Next == \E c \in Clients : (\E d \in Ops : Ask(c, d)) \/ Perform(c) \/ Return(c)

Spec == Init /\ [][Next]_vars
=============================================================================
