--------------------------- MODULE ContactSearch ---------------------------
(***************************************************************************)
(* Looking up a contact's name by number, in pico-phone/core/db.c: the     *)
(* index built by build_contact_indexes and bsearch2, the binary search    *)
(* over it.  A step is one round of bsearch2's loop.                       *)
(*                                                                         *)
(* A number is an integer and strcmp their order; a contact's name is its  *)
(* position in the file, so that contacts with equal numbers differ.       *)
(***************************************************************************)
EXTENDS Integers

CONSTANTS
  Number,      \* the phone numbers
  MaxContacts, \* bound: contacts in the file, an int16_t in the code
  NoResult     \* no lookup has returned yet

ASSUME SearchAssumption ==
  Number \subseteq Int /\ MaxContacts \in Nat /\ NoResult \notin [index : Int, found_match : BOOLEAN]

VARIABLES
  contacts_len,
  contacts,        \* the number of each contact
  index_by_number, \* positions of contacts
  searching,       \* a lookup is under way
  key, a, b,       \* the parameter and the variables of bsearch2
  ret              \* what the last lookup returned

db == <<contacts_len, contacts, index_by_number>>
vars == <<db, searching, key, a, b, ret>>

Slot == 0 .. contacts_len - 1

(* The number at a position of the index. *)
At(i) == contacts[index_by_number[i]]

(* What qsort makes of the index: every contact is in it, and the numbers  *)
(* go up.  It says nothing of the order of equal ones.                     *)
Sorts(p) ==
  /\ \A c \in Slot : \E i \in Slot : p[i] = c
  /\ \A i, j \in Slot : i <= j => contacts[p[i]] <= contacts[p[j]]

Init ==
  /\ contacts_len \in 0 .. MaxContacts
  /\ contacts \in [Slot -> Number]
  /\ index_by_number \in [Slot -> Slot]
  /\ Sorts(index_by_number)
  /\ searching = FALSE
  /\ key \in Number
  /\ a = -1 /\ b = contacts_len
  /\ ret = NoResult

(* C divides toward zero. *)
Half(n) == IF n >= 0 THEN n \div 2 ELSE -((-n) \div 2)
middle == Half(a + b)

Bug_past_the_end == contacts_len + 2
UpperEnd == contacts_len

db_contacts_lookup_name_by_number ==
  /\ ~ searching
  /\ searching' = TRUE
  /\ key' \in Number
  /\ a' = -1 /\ b' = UpperEnd
  /\ UNCHANGED <<db, ret>>

Finish(index, found) ==
  /\ ret' = [index |-> index, found_match |-> found]
  /\ searching' = FALSE
  /\ UNCHANGED <<db, key, a, b>>

Bug_low_end == a
ClosestIndex == b

GivesUp == searching /\ b - a = 1 /\ Finish(ClosestIndex, FALSE)

Finds == searching /\ b - a # 1 /\ key = At(middle) /\ Finish(middle, TRUE)

Bug_below_included(m) == m - 1
Bug_above_included(m) == m + 1
LowEndAfter(m) == m

Narrows ==
  /\ searching /\ b - a # 1
  /\ \/ key < At(middle) /\ b' = middle /\ UNCHANGED a
     \/ key > At(middle) /\ a' = LowEndAfter(middle) /\ UNCHANGED b
  /\ UNCHANGED <<db, searching, key, ret>>

Round == GivesUp \/ Finds \/ Narrows

Next == db_contacts_lookup_name_by_number \/ Round

Spec == Init /\ [][Next]_vars

-----------------------------------------------------------------------------
(* Properties *)

Result == [index : 0 .. contacts_len, found_match : BOOLEAN]

(* The types; the ends of the search stay apart and inside the index, with *)
(* one position beyond it on either side.                                  *)
TypeOK ==
  /\ contacts_len \in 0 .. MaxContacts
  /\ contacts \in [Slot -> Number]
  /\ index_by_number \in [Slot -> Slot]
  /\ searching \in BOOLEAN
  /\ key \in Number
  /\ a \in -1 .. contacts_len - 1 /\ b \in 0 .. contacts_len /\ a < b
  /\ ret \in Result \cup {NoResult}

(* The element compared is one of the index, also for an empty database    *)
(* and at both ends.  (base + middle * size is read without a check.)      *)
ProbesInside == searching /\ b - a # 1 => middle \in Slot

(* A lookup that reports a match reports a contact with that number; one   *)
(* that reports none was right, and its index is where the number belongs. *)
(* (The texts screen shows the name found, or else the bare number.)       *)
AnswersRight ==
  ~ searching /\ ret # NoResult =>
    IF ret.found_match
    THEN ret.index \in Slot /\ At(ret.index) = key
    ELSE /\ \A c \in Slot : contacts[c] # key
         /\ \A i \in Slot : i < ret.index <=> At(i) < key

(* A round that does not end the search leaves at most half of the         *)
(* positions that were between its ends, so that a lookup takes a          *)
(* logarithmic number of rounds.  (while (1) in bsearch2.)                 *)
Halving == [][searching /\ searching' => 2 * (b' - a' - 1) <= b - a - 1]_vars

=============================================================================
