------------------------------ MODULE Database ------------------------------
(***************************************************************************)
(* What the database (core/db.h) promises the screens: nothing may be      *)
(* looked up while db_lock is held; once it is free there is a name for    *)
(* every number of the user's contacts, and the conversations come with    *)
(* the latest first.                                                       *)
(***************************************************************************)
EXTENDS Integers, Sequences, FiniteSets

CONSTANT Later(_, _)   \* the order of time stamps

VARIABLES
  cont,      \* what the user put on the disk: contacts and conversations
  db         \* << >> while loading, then <<what look-ups see>>

vars == <<cont, db>>

Range(s) == {s[i] : i \in DOMAIN s}

Summary(t, u) == [number |-> t.number, unreads |-> u, stamp |-> t.stamp, preview |-> t.preview]

Faithful(d) ==
  /\ d.contacts = Range(cont.contacts)
  /\ Len(d.convos) = Len(cont.texts)
  /\ \A k, l \in DOMAIN d.convos : k < l => ~ Later(d.convos[l].stamp, d.convos[k].stamp)
  /\ \A t \in Range(cont.texts) : \E k \in DOMAIN d.convos :
       d.convos[k] = Summary(t, d.convos[k].unreads)
  /\ \A k \in DOMAIN d.convos : d.convos[k].unreads \in 0 .. 2

Init == db = << >>
Load == db = << >> /\ Len(db') = 1 /\ Faithful(db'[1]) /\ UNCHANGED cont
Spec == Init /\ [][Load]_vars
=============================================================================
