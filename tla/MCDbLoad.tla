------------------------------ MODULE MCDbLoad ------------------------------
(***************************************************************************)
(* The mock's file system and the load of the database through it, for     *)
(* TLC.  A behaviour is either the load alone, as at the start of the      *)
(* phone, or two tasks that use two files in any way, with operations that *)
(* can not be done among them; the load then keeps to where it starts.  A  *)
(* byte has ten values, a character one or two bytes.                      *)
(***************************************************************************)
EXTENDS DbLoad

CONSTANTS task1, task2

VARIABLE part

mc_Clients == {task1, task2}

\* The load: up to two contacts and three conversations.
mc_Encoding == [c \in {"a", "b", "e-acute"} |->
                  CASE c = "a" -> <<7>> [] c = "b" -> <<6>> [] OTHER -> <<8, 9>>]
mc_contact == [name |-> <<"a", "b">>, number |-> <<"b">>]
mc_Convo(number, stamp, message) == [number |-> number, stamp |-> stamp, message |-> message]
mc_short == mc_Convo(<<"b">>, <<1, 2>>, << >>)
mc_long == mc_Convo(<<"a", "a">>, <<2, 1>>, <<"e-acute", "a", "b", "a", "e-acute">>)
mc_same == mc_Convo(<<"a">>, <<1, 2>>, <<"e-acute", "b">>)
\* The two files have nothing to do with each other.
mc_Contents ==
  {[contacts |-> << >>, texts |-> <<mc_long, mc_short, mc_same>>],
   [contacts |-> <<mc_contact>>, texts |-> <<mc_short, mc_long>>],
   [contacts |-> <<mc_contact, [name |-> << >>, number |-> <<"a", "b">>]>>, texts |-> << >>]}
\* A name with a character of two bytes.
mc_Accented == [contacts : {<<[name |-> <<"e-acute", "b">>, number |-> <<"a">>]>>}, texts : {<< >>}]

\* The use of files.
mc_Path == {<<1>>, <<1, 2>>}
mc_Disks == {[p \in mc_Path |-> IF p = <<1>> THEN <<2>> ELSE <<0, 3, 3>>]}
mc_Fds == 0 .. 1
mc_Calls == [op : {"open"}, path : mc_Path \cup {<<2>>}]
            \cup [op : {"close", "size"}, fd : mc_Fds]
            \cup [op : {"read"}, fd : mc_Fds, n : {0, 2}]
            \cup [op : {"seek"}, fd : mc_Fds, n : {-1, 1}, whence : 0 .. 2]
mc_Ops == mc_Calls \cup [op : {"open"}, path : {ContactsPath, TextIndexPath}]
                   \cup [op : {"close"}, fd : mc_Fds] \cup [op : {"read"}, fd : mc_Fds, n : 0 .. 9]

noLoad == <<cont, shuffled, pc, lock, locals, tables>>
Loads == part = "load" /\ UNCHANGED part
Uses == part = "files" /\ UNCHANGED <<part, noLoad>>

MCInit ==
  \/ part = "load" /\ LoadInit
  \/ /\ part = "files" /\ FilesInit
     /\ cont = [contacts |-> << >>, texts |-> << >>] /\ shuffled = << >>
     /\ pc = "open_contacts" /\ lock = "held" /\ fd = 0 /\ i = 0 /\ j = 1 /\ u8len = 0
     /\ contacts_len = 0 /\ contacts = << >>
     /\ text_index_len = 0 /\ text_index = << >> /\ text_index_index = << >>

MCNext ==
  \/ Loads /\ LoadCalls
  \/ Loads /\ LoadResumes
  \/ Loads /\ Serves
  \/ \E c \in Clients, d \in mc_Calls : Uses /\ fs_call(c, d)
  \/ \E c \in Clients : Uses /\ fs_return(c)
  \/ Uses /\ HostServes

mcVars == <<part, loadVars>>
MCSpec == MCInit /\ [][MCNext]_mcVars /\ WF_mcVars(Loads /\ (LoadCalls \/ LoadResumes \/ Serves))

(* The screens get what the user wrote, and get it in the end: db_lock is  *)
(* released by initial_load with every file closed (db.c:41-178).          *)
LoadsDatabase == ImplementsDatabase /\ (part = "load" => LoadEnds)
=============================================================================
