------------------------------- MODULE DbLoad -------------------------------
(***************************************************************************)
(* initial_load of db.c, field by field through fs.c and main.py, over the *)
(* two files disk_gen.py writes.                                           *)
(***************************************************************************)
EXTENDS HostFiles, SequencesExt

CONSTANTS
  Contents,    \* what disk_contents.json may hold
  Encoding,    \* the bytes of each character in UTF-8
  Dot,         \* the byte of "."
  StampLen,    \* 14
  PreviewMax,  \* 50
  Loader       \* the task

Characters == DOMAIN Encoding
ContactsPath == <<1>>
TextIndexPath == <<2, 2>>
Field == <<"name", "number">>

\* disk_gen.py ends with an exception when a number does not fit its bytes, or when a
\* time stamp is not of StampLen characters.  What the load asks for is in Ops.
ASSUME LoadAssumption ==
  /\ Loader \in Clients
  /\ Encoding \in [Characters -> Seq(0 .. Base - 1)] /\ Dot \in 0 .. Base - 1
  /\ StampLen \in 0 .. Base - 1 /\ PreviewMax \in 3 .. Base - 1
  /\ \A c \in Contents :
       /\ c.contacts \in Seq([name : Seq(Characters), number : Seq(Characters)])
       /\ c.texts \in Seq([number : Seq(Characters), stamp : Seq(0 .. Base - 1), message : Seq(Characters)])
       /\ Len(c.contacts) < Pow(2) \div 2 /\ Len(c.texts) < Pow(2) \div 2
       /\ \A k \in DOMAIN c.contacts : \A f \in {"name", "number"} : Len(c.contacts[k][f]) < Base
       /\ \A k \in DOMAIN c.texts : Len(c.texts[k].number) < Base /\ Len(c.texts[k].stamp) = StampLen
  /\ [op : {"open"}, path : {ContactsPath, TextIndexPath}] \cup [op : {"close"}, fd : 0 .. MaxFd]
       \cup [op : {"read"}, fd : 0 .. MaxFd, n : 0 .. Base - 1] \subseteq Ops

VARIABLES
  cont,        \* the user's contacts and conversations
  shuffled,    \* disk_gen.py's `index`: the conversations in random order, with unreads
  pc,          \* the file operation initial_load is at
  lock,        \* db_lock: "held" or "free"
  fd, i, j, u8len,                 \* its locals
  contacts_len, contacts,          \* table of contacts, as filled so far
  text_index_len, text_index, text_index_index

locals == <<fd, i, j, u8len>>
tables == <<contacts_len, contacts, text_index_len, text_index, text_index_index>>
loadVars == <<vars, cont, shuffled, pc, lock, locals, tables>>

-----------------------------------------------------------------------------
(* disk_gen.py *)

encode(s) == FlattenSeq([k \in DOMAIN s |-> Encoding[s[k]]])

\* In characters; what is written is bytes.
len_of_name(s) == Len(s)

Bug_number_unmeasured(c) == Bytes(1, Len(c.name)) \o encode(c.name) \o encode(c.number)
ContactRecord(c) ==
  Bytes(1, len_of_name(c.name)) \o encode(c.name) \o Bytes(1, Len(c.number)) \o encode(c.number)

contacts_file ==
  Bytes(2, Len(cont.contacts))
    \o FlattenSeq([k \in DOMAIN cont.contacts |-> ContactRecord(cont.contacts[k])])

\* Order of Python strings of equal length.
Later(s, t) == \E k \in DOMAIN s : s[k] > t[k] /\ \A l \in 1 .. k - 1 : s[l] = t[l]

\* sorted(..., reverse=True) leaves equal ones in their order.
Bug_oldest_first(k, l) == LET s == shuffled[k].stamp t == shuffled[l].stamp
                          IN Later(t, s) \/ (s = t /\ k < l)
Before(k, l) == LET s == shuffled[k].stamp t == shuffled[l].stamp
                IN Later(s, t) \/ (s = t /\ k < l)
index_index ==
  CHOOSE s \in [DOMAIN shuffled -> DOMAIN shuffled] :
    \A k, l \in DOMAIN s : k < l => Before(s[k], s[l])

Preview(message) ==
  LET b == encode(message) IN
  IF Len(b) <= PreviewMax THEN b ELSE SubSeq(b, 1, PreviewMax - 3) \o <<Dot, Dot, Dot>>

TextRecord(position, t) ==
  Bytes(2, position) \o Bytes(1, Len(t.number)) \o encode(t.number) \o Bytes(1, t.unreads)
    \o t.stamp \o Bytes(1, Len(Preview(t.message))) \o Preview(t.message)

text_index_file ==
  Bytes(2, Len(shuffled))
    \o FlattenSeq([k \in DOMAIN shuffled |-> TextRecord(index_index[k] - 1, shuffled[k])])

DiskGenerated == [p \in {ContactsPath, TextIndexPath} |->
                    IF p = ContactsPath THEN contacts_file ELSE text_index_file]

-----------------------------------------------------------------------------
(* initial_load: an operation is called at pc; what follows its return is  *)
(* run at once, up to the next.                                            *)

Op == LET read(n) == [op |-> "read", fd |-> fd, n |-> n] IN
  CASE pc = "open_contacts"   -> [op |-> "open", path |-> ContactsPath]
    [] pc = "open_text_index" -> [op |-> "open", path |-> TextIndexPath]
    [] pc \in {"contacts_len", "text_index_len", "position"} -> read(2)
    [] pc \in {"field_len", "number_len", "unreads", "preview_len"} -> read(1)
    [] pc \in {"field", "number", "preview"} -> read(u8len)
    [] pc = "timestamp"       -> read(StampLen)
    [] pc \in {"close_contacts", "close_text_index"} -> [op |-> "close", fd |-> fd]

LoadCalls ==
  /\ pc # "done" /\ fs_call(Loader, Op)
  /\ UNCHANGED <<cont, shuffled, pc, lock, locals, tables>>

Bug_released_early(n, len) == IF n = len THEN "done" ELSE "field_len"
NextContact(n, len) == IF n = len THEN "close_contacts" ELSE "field_len"
Bug_one_too_many(n, len) == IF n > len THEN "close_text_index" ELSE "position"
NextText(n, len) == IF n = len THEN "close_text_index" ELSE "position"

LoadsContacts(ret) ==
  \/ /\ pc = "open_contacts"
     /\ IF ret >= 0
        THEN fd' = ret /\ pc' = "contacts_len" /\ UNCHANGED contacts_len
        ELSE contacts_len' = 0 /\ pc' = "open_text_index" /\ UNCHANGED fd
     /\ UNCHANGED <<i, j, u8len, contacts>>
  \/ /\ pc = "contacts_len"
     /\ contacts_len' = Signed(ret)
     /\ contacts' = [k \in 1 .. Signed(ret) |-> [name |-> << >>, number |-> << >>]]
     /\ i' = 0 /\ j' = 1 /\ pc' = NextContact(0, Signed(ret))
     /\ UNCHANGED <<fd, u8len>>
  \/ /\ pc = "field_len"
     /\ u8len' = Unsigned(ret) /\ pc' = "field"
     /\ UNCHANGED <<fd, i, j, contacts_len, contacts>>
  \/ /\ pc = "field"
     /\ contacts' = [contacts EXCEPT ![i + 1][Field[j]] = ret]
     /\ IF j = 2
        THEN i' = i + 1 /\ j' = 1 /\ pc' = NextContact(i + 1, contacts_len)
        ELSE j' = j + 1 /\ pc' = "field_len" /\ UNCHANGED i
     /\ UNCHANGED <<fd, u8len, contacts_len>>
  \/ /\ pc = "close_contacts"
     /\ pc' = "open_text_index"
     /\ UNCHANGED <<locals, contacts_len, contacts>>

Blank == [number |-> << >>, unreads |-> 0, stamp |-> << >>, preview |-> << >>]
Stores(field, v) == text_index' = [text_index EXCEPT ![i + 1][field] = v]

LoadsTexts(ret) ==
  \/ /\ pc = "open_text_index"
     /\ IF ret >= 0
        THEN fd' = ret /\ pc' = "text_index_len" /\ UNCHANGED text_index_len
        ELSE text_index_len' = 0 /\ pc' = "done" /\ UNCHANGED fd
     /\ UNCHANGED <<i, u8len, text_index, text_index_index>>
  \/ /\ pc = "text_index_len"
     /\ text_index_len' = Signed(ret)
     /\ text_index' = [k \in 1 .. Signed(ret) |-> Blank]
     /\ text_index_index' = [k \in 1 .. Signed(ret) |-> 0]
     /\ i' = 0 /\ pc' = NextText(0, Signed(ret))
     /\ UNCHANGED <<fd, u8len>>
  \/ /\ pc = "position"
     /\ text_index_index' = [text_index_index EXCEPT ![i + 1] = Signed(ret)]
     /\ pc' = "number_len"
     /\ UNCHANGED <<fd, i, u8len, text_index_len, text_index>>
  \/ /\ pc \in {"number_len", "preview_len"}
     /\ u8len' = Unsigned(ret)
     /\ pc' = IF pc = "number_len" THEN "number" ELSE "preview"
     /\ UNCHANGED <<fd, i, text_index_len, text_index, text_index_index>>
  \/ /\ \/ pc = "number" /\ Stores("number", ret) /\ pc' = "unreads" /\ UNCHANGED i
        \/ pc = "unreads" /\ Stores("unreads", Unsigned(ret)) /\ pc' = "timestamp" /\ UNCHANGED i
        \/ pc = "timestamp" /\ Stores("stamp", ret) /\ pc' = "preview_len" /\ UNCHANGED i
        \/ pc = "preview" /\ Stores("preview", ret) /\ i' = i + 1
           /\ pc' = NextText(i + 1, text_index_len)
     /\ UNCHANGED <<fd, u8len, text_index_len, text_index_index>>
  \/ /\ pc = "close_text_index"
     /\ pc' = "done"
     /\ UNCHANGED <<fd, i, u8len, text_index_len, text_index, text_index_index>>

LoadResumes ==
  /\ fs_return(Loader)
  /\ LET ret == fs_result(data[Loader], host_data[Loader].ret) IN
     \/ LoadsContacts(ret) /\ UNCHANGED <<text_index_len, text_index, text_index_index>>
     \/ LoadsTexts(ret) /\ UNCHANGED <<j, contacts_len, contacts>>
  /\ lock' = IF pc' = "done" THEN "free" ELSE lock
  /\ UNCHANGED <<cont, shuffled>>

Serves == HostServes /\ UNCHANGED <<cont, shuffled, pc, lock, locals, tables>>

\* `index` of disk_gen.py: every order, every choice of unreads.
Shuffles(texts) ==
  {[k \in DOMAIN texts |-> [number |-> texts[s.order[k]].number, stamp |-> texts[s.order[k]].stamp,
                            message |-> texts[s.order[k]].message, unreads |-> s.unreads[k]]] :
     s \in [order : Injection(DOMAIN texts, DOMAIN texts), unreads : [DOMAIN texts -> 0 .. 2]]}

LoadInit ==
  /\ cont \in Contents
  /\ shuffled \in Shuffles(cont.texts)
  /\ disk = DiskGenerated
  /\ files = << >> /\ requests = << >> /\ host_up = TRUE
  /\ data = [c \in Clients |-> Nothing] /\ host_data = [c \in Clients |-> Nothing]
  /\ pc = "open_contacts" /\ lock = "held"
  /\ fd = 0 /\ i = 0 /\ j = 1 /\ u8len = 0
  /\ contacts_len = 0 /\ contacts = << >>
  /\ text_index_len = 0 /\ text_index = << >> /\ text_index_index = << >>

LoadNext == LoadCalls \/ LoadResumes \/ Serves

LoadSpec == LoadInit /\ [][LoadNext]_loadVars /\ WF_loadVars(LoadNext)

-----------------------------------------------------------------------------
\* Every name and number is of characters of one byte.
Measured ==
  LET oneByte(s) == Len(encode(s)) = Len(s) IN
  /\ \A k \in DOMAIN cont.contacts : oneByte(cont.contacts[k].name) /\ oneByte(cont.contacts[k].number)
  /\ \A k \in DOMAIN cont.texts : oneByte(cont.texts[k].number)

LoadTypeOK ==
  /\ lock \in {"held", "free"} /\ (lock = "free" <=> pc = "done")
  /\ lock = "free" => files = << >>
  /\ fd \in 0 .. MaxFd /\ i \in 0 .. Len(cont.contacts) + Len(cont.texts)
  /\ j \in DOMAIN Field /\ u8len \in 0 .. Base - 1
  /\ DOMAIN contacts = 1 .. contacts_len
  /\ DOMAIN text_index = 1 .. text_index_len /\ DOMAIN text_index_index = 1 .. text_index_len

\* db.c:228, with C's indices from 0.
db_get_convo_from_index(k) == text_index[text_index_index[k] + 1]

(* Through disk_gen.py, main.py, fs.c and db.c the screens get what the    *)
(* user wrote, with the latest conversation first; in no state before the  *)
(* lock is free do they get anything.  Encoded, since the phone shows bytes*)
(* (db.c:41-178, 228-230; disk_gen.py:17-66).                              *)
Encoded == [contacts |-> [k \in DOMAIN cont.contacts |->
                            [name |-> encode(cont.contacts[k].name),
                             number |-> encode(cont.contacts[k].number)]],
            texts |-> [k \in DOMAIN cont.texts |->
                         [number |-> encode(cont.texts[k].number), stamp |-> cont.texts[k].stamp,
                          preview |-> Preview(cont.texts[k].message)]]]
Tables == [contacts |-> Range(contacts),
           convos |-> [k \in 1 .. text_index_len |-> db_get_convo_from_index(k)]]
Promise == INSTANCE Database WITH
  cont <- Encoded, db <- IF lock = "held" THEN << >> ELSE <<Tables>>
ImplementsDatabase == Promise!Spec

(* Whatever is read has been written there: no read of the load is one the *)
(* host cannot answer, because too long for the one byte of its length or  *)
(* past the end of the file (main.py:145, host_bridge.c:263).              *)
ReadsAnswerable ==
  pc # "open_contacts" /\ data[Loader] # Nothing /\ requests # << >> => ~ Impossible(data[Loader])

(* What the load has in its hands is what db.c's code says, and it never   *)
(* asks for what the host can not give; whoever uses the files, the host   *)
(* gives up for a good reason only (db.c:41-178, main.py:110-156).         *)
FilesAndLoadInv == TypeOK /\ LoadTypeOK /\ ReadsAnswerable /\ HostDiesForCause

(* The loading ends and leaves no file open (db.c:95, 167, 177).           *)
LoadEnds == <>(lock = "free" /\ files = << >>)

(* main.py:145 asserts that a read returns as many bytes as it asked for.  *)
ReadsAreWhole == host_up
=============================================================================
