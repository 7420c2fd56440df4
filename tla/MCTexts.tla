------------------------------ MODULE MCTexts ------------------------------
(***************************************************************************)
(* What draw_actual of the texts screen consists of, for TLC: the look-up  *)
(* of a contact, and the lay-out of the entries.  They share no state, so  *)
(* that a behaviour is one of either, the other keeping to where it        *)
(* starts.  Numbers lie between and beyond those looked up; the screen is  *)
(* the real one, with names of every length that matters, counts around    *)
(* every change of their width, and lists around the limit.                *)
(***************************************************************************)
EXTENDS ContactSearch, TextsLayout

VARIABLE part

MCNumber == 1 .. 4
MCEntries == [name : 0 .. 32 \cup {50, 255}, unreads : {0, 1, 9, 10, 99, 100, 255}, preview : {0, 50}]
MCLists == {[k \in 1 .. n |-> e] : n \in {1, 16}, e \in MCEntries} \cup {<< >>}

LookUps == part = "look-ups" /\ UNCHANGED <<part, layoutVars>>
Layout == part = "lay-out" /\ UNCHANGED <<part, vars>>

MCInit ==
  \/ part = "look-ups" /\ text_index = << >> /\ LayoutInit /\ Init
  \/ part = "lay-out" /\ contacts_len = 0 /\ contacts = << >> /\ key = 1 /\ LayoutInit /\ Init

MCNext ==
  \/ LookUps /\ db_contacts_lookup_name_by_number
  \/ LookUps /\ GivesUp
  \/ LookUps /\ Finds
  \/ LookUps /\ Narrows
  \/ Layout /\ DrawsEntry

MCSpec == MCInit /\ [][MCNext]_<<part, vars, layoutVars>>

=============================================================================
