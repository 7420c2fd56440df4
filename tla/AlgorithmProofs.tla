-------------------------- MODULE AlgorithmProofs --------------------------
(***************************************************************************)
(* Three algorithms that are right whatever they are applied to: bsearch2  *)
(* for every table, sorted by any qsort, and every key; the columns of the *)
(* texts screen for every list of conversations; the skip lists littlefs   *)
(* keeps files in for every size of file, block and pointer.               *)
(***************************************************************************)
EXTENDS ContactSearch, TextsLayout, LfsCtzWriter, BasicLemmas, FiniteSetTheorems

-----------------------------------------------------------------------------
(* bsearch2.  The invariant is the usual one of binary search: what lies   *)
(* at or below a is smaller than the key, what lies at or above b greater. *)

(* The search has excluded both sides of what is between a and b. *)
Excluded ==
  searching => \A n \in Slot : /\ n <= a => At(n) < key
                               /\ n >= b => At(n) > key

SearchInv == TypeOK /\ Sorts(index_by_number) /\ Excluded /\ AnswersRight

(* The middle lies strictly between two ends that are not adjacent.        *)
LEMMA MiddleBetween ==
  ASSUME NEW lo \in Int, NEW hi \in Int, -1 <= lo, lo < hi, hi - lo # 1
  PROVE  /\ Half(lo + hi) \in Int
         /\ lo < Half(lo + hi)
         /\ Half(lo + hi) < hi
         /\ lo + hi - 1 <= 2 * Half(lo + hi) /\ 2 * Half(lo + hi) <= lo + hi
  <1>1. lo + hi >= 0
    OBVIOUS
  <1> QED
    BY <1>1 DEF Half

(* So the element compared is one of the index.                            *)
LEMMA MiddleInside ==
  ASSUME TypeOK, b - a # 1
  PROVE  middle \in Slot /\ a < middle /\ middle < b
  <1>1. contacts_len \in Int /\ a \in Int /\ b \in Int /\ -1 <= a /\ a < b /\ b <= contacts_len
    BY SearchAssumption DEF TypeOK
  <1>2. middle \in Int /\ a < middle /\ middle < b
    BY <1>1, MiddleBetween DEF middle
  <1> QED
    BY <1>1, <1>2 DEF Slot

(* Numbers in the index are integers, whatever contact is there.           *)
LEMMA AtIsInt ==
  ASSUME TypeOK, NEW n \in Slot
  PROVE  At(n) \in Int
  BY SearchAssumption DEF TypeOK, At

(* The contact at a position of a sorted index: everything before it is    *)
(* not greater, everything after it not smaller.                           *)
LEMMA InOrder ==
  ASSUME TypeOK, Sorts(index_by_number), NEW n \in Slot, NEW j \in Slot, n <= j
  PROVE  At(n) <= At(j)
  BY DEF Sorts, At

(* Before the first lookup nothing is claimed.                             *)
LEMMA InitInv == Init => SearchInv
  <1> SUFFICES ASSUME Init PROVE SearchInv
    OBVIOUS
  <1>1. contacts_len \in Nat
    BY SearchAssumption DEF Init
  <1>2. TypeOK
    <2>1. a \in -1 .. contacts_len - 1 /\ b \in 0 .. contacts_len /\ a < b
      BY <1>1 DEF Init
    <2>2. ret \in Result \cup {NoResult} /\ searching \in BOOLEAN
      BY DEF Init
    <2> QED
      BY <2>1, <2>2 DEF Init, TypeOK
  <1> QED
    BY <1>2 DEF Init, SearchInv, Excluded, AnswersRight

(* The invariant is inductive.                                             *)
LEMMA StepInv == SearchInv /\ [Next]_vars => SearchInv'
  <1> SUFFICES ASSUME SearchInv, [Next]_vars PROVE SearchInv'
    OBVIOUS
  <1> USE DEF SearchInv
  <1>t. contacts_len \in Nat
    BY SearchAssumption DEF TypeOK
  <1>a. ASSUME UNCHANGED db
        PROVE  /\ Slot' = Slot
               /\ \A n \in Slot : At(n)' = At(n)
               /\ Sorts(index_by_number)'
    BY <1>a DEF db, Slot, At, Sorts
  <1>1. CASE db_contacts_lookup_name_by_number
    <2>1. UNCHANGED db /\ searching' /\ key' \in Number /\ a' = -1 /\ b' = contacts_len /\ ret' = ret
      BY <1>1 DEF db_contacts_lookup_name_by_number, UpperEnd
    <2>2. TypeOK'
      BY <2>1, <1>t DEF TypeOK, db, Slot, Result
    <2>3. Excluded'
      BY <2>1, <1>a, <1>t DEF Excluded, Slot, db
    <2> QED
      BY <1>a, <2>1, <2>2, <2>3 DEF AnswersRight
  <1>2. CASE GivesUp
    <2>1. /\ searching /\ b - a = 1 /\ searching' = FALSE /\ UNCHANGED <<db, key, a, b>>
          /\ ret' = [index |-> b, found_match |-> FALSE]
      BY <1>2, SMT DEF GivesUp, Finish, ClosestIndex, TypeOK
    <2>2. TypeOK'
      <3>1. ret' \in Result
        BY <2>1 DEF TypeOK, Result
      <3>2. UNCHANGED <<contacts_len, contacts, index_by_number, key, a, b>>
        BY <2>1 DEF db
      <3>3. Result' = Result /\ Slot' = Slot
        BY <3>2 DEF Result, Slot
      <3>4. ret' \in Result' \cup {NoResult} /\ searching' \in BOOLEAN
        BY <2>1, <3>1, <3>3
      <3> QED
        BY <3>2, <3>3, <3>4 DEF TypeOK
    <2>3. \A n \in Slot : n < b <=> At(n) < key
      <3> SUFFICES ASSUME NEW n \in Slot PROVE n < b <=> At(n) < key
        OBVIOUS
      <3>1. n <= a \/ n >= b
        BY <2>1 DEF TypeOK, Slot
      <3>2. At(n) \in Int /\ key \in Int
        BY AtIsInt, SearchAssumption DEF TypeOK
      <3> QED
        BY <2>1, <3>1, <3>2 DEF Excluded, TypeOK, Slot
    <2>4. \A c \in Slot : contacts[c] # key
      <3> SUFFICES ASSUME NEW c \in Slot PROVE contacts[c] # key
        OBVIOUS
      <3>1. PICK n \in Slot : index_by_number[n] = c
        BY DEF Sorts
      <3>2. n <= a \/ n >= b
        BY <2>1 DEF TypeOK, Slot
      <3>3. At(n) \in Int /\ key \in Int
        BY AtIsInt, SearchAssumption DEF TypeOK
      <3> QED
        BY <2>1, <3>1, <3>2, <3>3 DEF Excluded, At
    <2>5. AnswersRight'
      <3>1. ret'.found_match = FALSE /\ ret'.index = b
        BY <2>1
      <3> QED
        BY <1>a, <2>1, <2>3, <2>4, <3>1 DEF AnswersRight, db
    <2> QED
      BY <1>a, <2>1, <2>2, <2>5 DEF Excluded
  <1>3. CASE Finds
    <2>1. /\ searching /\ b - a # 1 /\ key = At(middle) /\ searching' = FALSE /\ UNCHANGED <<db, key, a, b>>
          /\ ret' = [index |-> middle, found_match |-> TRUE]
      BY <1>3 DEF Finds, Finish
    <2>2. middle \in Slot
      BY <2>1, MiddleInside
    <2>3. TypeOK'
      <3>1. ret' \in Result
        BY <2>1, <2>2, <1>t DEF Result, Slot, db
      <3>2. UNCHANGED <<contacts_len, contacts, index_by_number, key, a, b>>
        BY <2>1 DEF db
      <3>3. Result' = Result /\ Slot' = Slot
        BY <3>2 DEF Result, Slot
      <3>4. ret' \in Result' \cup {NoResult} /\ searching' \in BOOLEAN
        BY <2>1, <3>1, <3>3
      <3> QED
        BY <3>2, <3>3, <3>4 DEF TypeOK
    <2>4. AnswersRight'
      <3>1. ret'.found_match = TRUE /\ ret'.index = middle
        BY <2>1
      <3> QED
        BY <1>a, <2>1, <2>2, <3>1 DEF AnswersRight
    <2> QED
      BY <1>a, <2>1, <2>3, <2>4 DEF Excluded
  <1>4. CASE Narrows
    <2>1. searching /\ searching' /\ b - a # 1 /\ UNCHANGED <<db, key, ret>>
      BY <1>4 DEF Narrows
    <2>2. middle \in Slot /\ a < middle /\ middle < b
      BY <2>1, MiddleInside
    <2>3. At(middle) \in Int /\ key \in Int
      BY <2>2, AtIsInt, SearchAssumption DEF TypeOK
    <2>4. CASE key < At(middle) /\ b' = middle /\ a' = a
      <3>1. TypeOK'
        BY <2>1, <2>2, <2>4, <1>t DEF TypeOK, db, Slot, Result
      <3>2. \A n \in Slot : n >= middle => At(n) > key
        <4> SUFFICES ASSUME NEW n \in Slot, n >= middle PROVE At(n) > key
          OBVIOUS
        <4>1. At(middle) <= At(n)
          BY <2>2, InOrder DEF Slot
        <4> QED
          BY <4>1, <2>3, <2>4, AtIsInt
      <3>3. Excluded'
        BY <1>a, <2>1, <2>4, <3>2 DEF Excluded
      <3> QED
        BY <1>a, <2>1, <3>1, <3>3 DEF AnswersRight
    <2>5. CASE key > At(middle) /\ a' = middle /\ b' = b
      <3>1. TypeOK'
        BY <2>1, <2>2, <2>5, <1>t DEF TypeOK, db, Slot, Result
      <3>2. \A n \in Slot : n <= middle => At(n) < key
        <4> SUFFICES ASSUME NEW n \in Slot, n <= middle PROVE At(n) < key
          OBVIOUS
        <4>1. At(n) <= At(middle)
          BY <2>2, InOrder DEF Slot
        <4> QED
          BY <4>1, <2>3, <2>5, AtIsInt
      <3>3. Excluded'
        BY <1>a, <2>1, <2>5, <3>2 DEF Excluded
      <3> QED
        BY <1>a, <2>1, <3>1, <3>3 DEF AnswersRight
    <2> QED
      BY <1>4, <2>4, <2>5 DEF Narrows, LowEndAfter
  <1>5. CASE UNCHANGED vars
    <2>1. UNCHANGED <<db, searching, key, a, b, ret>>
      BY <1>5 DEF vars
    <2>2. TypeOK'
      BY <2>1 DEF TypeOK, db, Slot, Result
    <2>3. Excluded'
      BY <1>a, <2>1 DEF Excluded
    <2>4. AnswersRight'
      BY <1>a, <2>1 DEF AnswersRight, db
    <2> QED
      BY <1>a, <2>1, <2>2, <2>3, <2>4
  <1> QED
    BY <1>1, <1>2, <1>3, <1>4, <1>5 DEF Next, Round

(* Throughout, the search has excluded what it passed over. *)
THEOREM SearchInvariant == Spec => []SearchInv
  BY InitInv, StepInv, PTL DEF Spec

(* The ends of the search stay apart and inside the index.                 *)
THEOREM SearchTypes == Spec => []TypeOK
  <1>1. SearchInv => TypeOK
    BY DEF SearchInv
  <1> QED
    BY <1>1, SearchInvariant, PTL

(* bsearch2 never compares the key with anything outside the index.        *)
THEOREM NoProbeOutside == Spec => []ProbesInside
  <1>1. SearchInv => ProbesInside
    BY MiddleInside DEF SearchInv, ProbesInside
  <1> QED
    BY <1>1, SearchInvariant, PTL

(* Whatever the table, the sort and the number, a lookup's answer is right. *)
THEOREM LookupCorrect == Spec => []AnswersRight
  <1>1. SearchInv => AnswersRight
    BY DEF SearchInv
  <1> QED
    BY <1>1, SearchInvariant, PTL

(* A round looks at the middle and leaves one side of it, so at most half. *)
THEOREM SearchHalves == Spec => Halving
  <1>1. SearchInv /\ [Next]_vars => [searching /\ searching' => 2 * (b' - a' - 1) <= b - a - 1]_vars
    <2> SUFFICES ASSUME SearchInv, Next, searching, searching'
                 PROVE  2 * (b' - a' - 1) <= b - a - 1
      BY DEF vars
    <2>1. CASE Narrows
      <3>1. /\ contacts_len \in Int /\ a \in Int /\ b \in Int
            /\ -1 <= a /\ a < b /\ b - a # 1
        BY <2>1, SearchAssumption DEF Narrows, SearchInv, TypeOK
      <3>2. middle \in Int /\ a + b - 1 <= 2 * middle /\ 2 * middle <= a + b
        BY <3>1, MiddleBetween DEF middle
      <3>3. CASE b' = middle /\ a' = a
        BY <3>1, <3>2, <3>3
      <3>4. CASE a' = middle /\ b' = b
        BY <3>1, <3>2, <3>4
      <3> QED
        BY <2>1, <3>3, <3>4 DEF Narrows, LowEndAfter
    <2> QED
      BY <2>1 DEF Next, Round, GivesUp, Finds, Finish, db_contacts_lookup_name_by_number
  <1> QED
    BY <1>1, SearchInvariant, PTL DEF Spec, Halving

-----------------------------------------------------------------------------
(* The list of conversations. *)

Entries == [name : Nat, unreads : 0 .. 255, preview : Nat]

(* The numbers that say where the texts of an entry go.                    *)
Widths(e) ==
  /\ e.name \in Nat /\ e.unreads \in 0 .. 255 /\ e.preview \in Nat
  /\ unreads_width(e) \in 1 .. 3
  /\ name_text_room(e) = Columns - 22 - unreads_width(e)
  /\ timestamp_column = Columns - 20
  /\ Columns \in Nat /\ Columns >= 29 /\ Rows \in Nat /\ Rows >= 30

(* They are as they should be for every entry.                             *)
LEMMA WidthsRight == \A e \in Entries : Widths(e)
  <1> SUFFICES ASSUME NEW e \in Entries PROVE Widths(e)
    OBVIOUS
  <1>1. e.name \in Nat /\ e.unreads \in 0 .. 255 /\ e.preview \in Nat
    BY DEF Entries
  <1>2. unreads_width(e) \in 1 .. 3
    BY <1>1 DEF unreads_width
  <1>3. name_text_room(e) = Columns - 22 - unreads_width(e) /\ timestamp_column = Columns - 20
    BY <1>2, LayoutAssumption DEF name_text_room, timestamp_column, StampLen
  <1>4. QED BY <1>1, <1>2, <1>3, LayoutAssumption DEF Widths

(* Name, dots, count and time each keep to columns of their own.           *)
LEMMA NameLies ==
  ASSUME NEW e \in Entries
  PROVE  /\ DOMAIN Name(e) = 0 .. (IF Fits(e) THEN e.name ELSE name_text_room(e) - 3) - 1
         /\ DOMAIN Dots(e) = IF Fits(e) THEN {} ELSE name_text_room(e) - 3 .. name_text_room(e) - 1
         /\ DOMAIN Unreads(e) = IF e.unreads = 0 THEN {}
                                ELSE unreads_cursor(e) .. unreads_cursor(e) + unreads_width(e) - 1
         /\ unreads_cursor(e) = 1 + (IF Fits(e) THEN e.name ELSE name_text_room(e))
  <1>1. Widths(e)
    BY WidthsRight
  <1>2. DOMAIN Name(e) = 0 .. (IF Fits(e) THEN e.name ELSE name_text_room(e) - 3) - 1
    BY <1>1 DEF Name, Text, Widths
  <1>3. DOMAIN Dots(e) = IF Fits(e) THEN {} ELSE name_text_room(e) - 3 .. name_text_room(e) - 1
    <2>1. CASE Fits(e)
      BY <2>1 DEF Dots, Nowhere
    <2>2. CASE ~ Fits(e)
      BY <1>1, <2>2 DEF Dots, Text, Widths
    <2>3. QED BY <2>1, <2>2
  <1>4. unreads_cursor(e) = 1 + (IF Fits(e) THEN e.name ELSE name_text_room(e))
    BY <1>1 DEF unreads_cursor, Min2, Fits, Widths
  <1>5. DOMAIN Unreads(e) = IF e.unreads = 0 THEN {}
                            ELSE unreads_cursor(e) .. unreads_cursor(e) + unreads_width(e) - 1
    BY <1>1, <1>4 DEF Unreads, Text, Nowhere, Widths
  <1>6. QED BY <1>2, <1>3, <1>4, <1>5

(* They keep clear of each other and of the column before the time.        *)
LEMMA HeadsApart ==
  ASSUME NEW e \in Entries
  PROVE  /\ DOMAIN Name(e) \subseteq 0 .. Columns - 22 /\ DOMAIN Dots(e) \subseteq 0 .. Columns - 22
         /\ DOMAIN Unreads(e) \subseteq 0 .. Columns - 22
         /\ DOMAIN Name(e) \cap DOMAIN Dots(e) = {} /\ DOMAIN Name(e) \cap DOMAIN Unreads(e) = {}
         /\ DOMAIN Dots(e) \cap DOMAIN Unreads(e) = {}
         /\ unreads_cursor(e) \in 1 .. Columns - 22
         /\ \A t \in {Name(e), Dots(e), Unreads(e)} : unreads_cursor(e) - 1 \notin DOMAIN t
  <1>1. PICK n \in Nat, w \in 1 .. 3, col \in Nat :
          n = e.name /\ w = unreads_width(e) /\ col = Columns /\ col >= 29 /\ name_text_room(e) = col - 22 - w
    BY WidthsRight DEF Widths
  <1>2. CASE Fits(e)
    <2>1. n <= col - 22 - w
      BY <1>1, <1>2 DEF Fits
    <2>2. DOMAIN Name(e) = 0 .. n - 1 /\ DOMAIN Dots(e) = {} /\ unreads_cursor(e) = 1 + n
          /\ DOMAIN Unreads(e) \subseteq 1 + n .. n + w
      <3>1. DOMAIN Unreads(e) \subseteq 1 + n .. 1 + n + w - 1
        BY <1>1, <1>2, NameLies
      <3>2. 1 + n + w - 1 = n + w
        OBVIOUS
      <3>3. DOMAIN Name(e) = 0 .. n - 1 /\ DOMAIN Dots(e) = {} /\ unreads_cursor(e) = 1 + n
        BY <1>1, <1>2, NameLies
      <3>4. QED BY <3>1, <3>2, <3>3, Zenon
    <2>3. QED BY <1>1, <2>1, <2>2
  <1>3. CASE ~ Fits(e)
    <2>1. PICK r \in Nat : r = name_text_room(e) /\ r = col - 22 - w
      BY <1>1
    <2>2. DOMAIN Name(e) = 0 .. r - 4 /\ DOMAIN Dots(e) = r - 3 .. r - 1 /\ unreads_cursor(e) = 1 + r
          /\ DOMAIN Unreads(e) \subseteq 1 + r .. r + w
      <3>1. DOMAIN Unreads(e) \subseteq 1 + r .. 1 + r + w - 1
        BY <1>1, <1>3, <2>1, NameLies
      <3>2. r - 3 - 1 = r - 4 /\ 1 + r + w - 1 = r + w
        BY <1>1
      <3>3. DOMAIN Name(e) = 0 .. r - 3 - 1 /\ DOMAIN Dots(e) = r - 3 .. r - 1 /\ unreads_cursor(e) = 1 + r
        BY <1>3, <2>1, NameLies
      <3>4. QED BY <3>1, <3>2, <3>3, Zenon
    <2>3. r >= 4
      BY <1>1, <2>1
    <2>4. /\ 0 .. r - 4 \subseteq 0 .. col - 22 /\ r - 3 .. r - 1 \subseteq 0 .. col - 22
          /\ 1 + r .. r + w \subseteq 0 .. col - 22
          /\ (0 .. r - 4) \cap (r - 3 .. r - 1) = {} /\ (0 .. r - 4) \cap (1 + r .. r + w) = {}
          /\ (r - 3 .. r - 1) \cap (1 + r .. r + w) = {}
          /\ 1 + r \in 1 .. col - 22 /\ r \notin 0 .. r - 4 /\ r \notin r - 3 .. r - 1 /\ r \notin 1 + r .. r + w
          /\ 1 + r - 1 = r
      BY <1>1, <2>1, <2>3
    <2>5. /\ DOMAIN Name(e) \subseteq 0 .. col - 22 /\ DOMAIN Dots(e) \subseteq 0 .. col - 22
          /\ DOMAIN Unreads(e) \subseteq 0 .. col - 22 /\ unreads_cursor(e) \in 1 .. col - 22
      BY <2>2, <2>4, Zenon
    <2>6. /\ DOMAIN Name(e) \cap DOMAIN Dots(e) = {} /\ DOMAIN Name(e) \cap DOMAIN Unreads(e) = {}
          /\ DOMAIN Dots(e) \cap DOMAIN Unreads(e) = {}
      BY <2>2, <2>4, Zenon
    <2>7. /\ r \notin DOMAIN Name(e) /\ r \notin DOMAIN Dots(e) /\ r \notin DOMAIN Unreads(e)
          /\ unreads_cursor(e) - 1 = r
      BY <2>2, <2>4
    <2>8. \A t \in {Name(e), Dots(e), Unreads(e)} : unreads_cursor(e) - 1 \notin DOMAIN t
      BY <2>7, Zenon
    <2>9. QED BY <1>1, <2>5, <2>6, <2>8, Zenon
  <1>4. QED BY <1>2, <1>3

(* The time lies right of them, its digits and delimiters in turn.         *)
LEMMA TimeLies ==
  /\ \A k \in 0 .. 6 : /\ DOMAIN StampPair(k) = {Columns - 20 + 3 * k, Columns - 19 + 3 * k}
                       /\ StampPair(k)[Columns - 20 + 3 * k] = <<"stamp", 2 * k>>
                       /\ StampPair(k)[Columns - 19 + 3 * k] = <<"stamp", 2 * k + 1>>
  /\ \A k \in 0 .. 5 : /\ DOMAIN Delimiter(k) = {Columns - 18 + 3 * k}
                       /\ Delimiter(k)[Columns - 18 + 3 * k] = <<"delimiter", k>>
  <1>1. PICK col \in Nat : col = Columns /\ timestamp_column = col - 20
    BY LayoutAssumption DEF timestamp_column, StampLen
  <1>2. ASSUME NEW k \in 0 .. 6
        PROVE  /\ DOMAIN StampPair(k) = {col - 20 + 3 * k, col - 19 + 3 * k}
               /\ StampPair(k)[col - 20 + 3 * k] = <<"stamp", 2 * k>>
               /\ StampPair(k)[col - 19 + 3 * k] = <<"stamp", 2 * k + 1>>
    <2>1. PICK x \in Int : x = col - 20 + 3 * k
      OBVIOUS
    <2>2. DOMAIN StampPair(k) = x .. x + 2 - 1
          /\ \A c \in x .. x + 2 - 1 : StampPair(k)[c] = <<"stamp", 2 * k + c - x>>
      BY <1>1, <2>1 DEF StampPair, Text
    <2>3. x .. x + 2 - 1 = {x, x + 1} /\ 2 * k + x - x = 2 * k /\ 2 * k + (x + 1) - x = 2 * k + 1
      OBVIOUS
    <2>4. x + 1 = col - 19 + 3 * k
      BY <2>1
    <2>5. QED BY <2>1, <2>2, <2>3, <2>4
  <1>3. ASSUME NEW k \in 0 .. 5
        PROVE  /\ DOMAIN Delimiter(k) = {col - 18 + 3 * k}
               /\ Delimiter(k)[col - 18 + 3 * k] = <<"delimiter", k>>
    <2>1. PICK x \in Int : x = col - 18 + 3 * k /\ x = timestamp_column + 3 * k + 2
      BY <1>1
    <2>2. DOMAIN Delimiter(k) = x .. x + 1 - 1
          /\ \A c \in x .. x + 1 - 1 : Delimiter(k)[c] = <<"delimiter", k + c - x>>
      BY <2>1 DEF Delimiter, Text
    <2>3. x .. x + 1 - 1 = {x} /\ k + x - x = k
      OBVIOUS
    <2>4. QED BY <2>1, <2>2, <2>3
  <1>4. QED BY <1>1, <1>2, <1>3

Heads(e) == {Name(e), Dots(e), Unreads(e)}
Times == {StampPair(k) : k \in 0 .. 6} \cup {Delimiter(k) : k \in 0 .. 5}

(* So no column is in two texts of a line.                                 *)
LEMMA FirstLineApart ==
  ASSUME NEW e \in Entries, NEW t \in FirstLine(e), NEW u \in FirstLine(e),
         NEW c \in DOMAIN t, c \in DOMAIN u
  PROVE  t = u
  <1>1. t \in Heads(e) \cup Times /\ u \in Heads(e) \cup Times
    BY DEF FirstLine, Heads, Times
  <1>2. \A h \in Heads(e) : DOMAIN h \subseteq 0 .. Columns - 22
    BY HeadsApart DEF Heads
  <1>3. \A s \in Times : /\ \A v \in DOMAIN s : v \in Int /\ v >= Columns - 20
                         /\ c \in DOMAIN s => \/ \E k \in 0 .. 6 : s = StampPair(k) /\ (c - (Columns - 20)) \div 3 = k /\ (c - (Columns - 20)) % 3 # 2
                                              \/ \E k \in 0 .. 5 : s = Delimiter(k) /\ (c - (Columns - 20)) \div 3 = k /\ (c - (Columns - 20)) % 3 = 2
    <2> PICK col \in Nat : col = Columns
      BY LayoutAssumption
    <2> SUFFICES ASSUME NEW s \in Times
                 PROVE  /\ \A v \in DOMAIN s : v \in Int /\ v >= col - 20
                        /\ c \in DOMAIN s =>
                             \/ \E k \in 0 .. 6 : s = StampPair(k) /\ (c - (col - 20)) \div 3 = k /\ (c - (col - 20)) % 3 # 2
                             \/ \E k \in 0 .. 5 : s = Delimiter(k) /\ (c - (col - 20)) \div 3 = k /\ (c - (col - 20)) % 3 = 2
      OBVIOUS
    <2>1. ASSUME NEW k \in 0 .. 6, s = StampPair(k)
          PROVE  /\ \A v \in DOMAIN s : v \in Int /\ v >= col - 20
                 /\ c \in DOMAIN s => (c - (col - 20)) \div 3 = k /\ (c - (col - 20)) % 3 # 2
      <3>1. DOMAIN s = {col - 20 + 3 * k, col - 19 + 3 * k}
        BY <2>1, TimeLies
      <3>2. /\ \A v \in {col - 20 + 3 * k, col - 19 + 3 * k} : v \in Int /\ v >= col - 20
            /\ \A v \in {col - 20 + 3 * k, col - 19 + 3 * k} :
                 (v - (col - 20)) \div 3 = k /\ (v - (col - 20)) % 3 # 2
        OBVIOUS
      <3>3. QED BY <3>1, <3>2
    <2>2. ASSUME NEW k \in 0 .. 5, s = Delimiter(k)
          PROVE  /\ \A v \in DOMAIN s : v \in Int /\ v >= col - 20
                 /\ c \in DOMAIN s => (c - (col - 20)) \div 3 = k /\ (c - (col - 20)) % 3 = 2
      <3>1. DOMAIN s = {col - 18 + 3 * k}
        BY <2>2, TimeLies
      <3>2. LET v == col - 18 + 3 * k IN
            v \in Int /\ v >= col - 20 /\ (v - (col - 20)) \div 3 = k /\ (v - (col - 20)) % 3 = 2
        OBVIOUS
      <3>3. QED BY <3>1, <3>2
    <2>3. QED BY <2>1, <2>2 DEF Times
  <1>4. CASE t \in Heads(e) /\ u \in Heads(e)
    BY <1>4, HeadsApart DEF Heads
  <1>5. CASE t \in Times /\ u \in Times
    BY <1>3, <1>5
  <1>6. ASSUME NEW h \in Heads(e), NEW s \in Times, c \in DOMAIN h, c \in DOMAIN s PROVE FALSE
    BY <1>2, <1>3, <1>6, LayoutAssumption
  <1>7. QED BY <1>1, <1>4, <1>5, <1>6

(* What is drawn on the grid is on the screen, and nothing else is.        *)
LEMMA DrawnIs ==
  ASSUME NEW row \in Int, NEW texts
  PROVE  /\ \A t \in texts : \A c \in DOMAIN t :
              OnGrid(row, c) => c \in DOMAIN Drawn(row, texts) /\ t[c] \in Drawn(row, texts)[c]
         /\ \A c \in DOMAIN Drawn(row, texts) :
              /\ c \in 0 .. Columns - 1 /\ \E t \in texts : c \in DOMAIN t
              /\ Drawn(row, texts)[c] = {t[c] : t \in {u \in texts : c \in DOMAIN u}}
  BY DEF Drawn, OnGrid

(* If no two texts share a column, a cell has one character.               *)
LEMMA DrawnOnce ==
  ASSUME NEW row \in Int, NEW texts, NEW c \in DOMAIN Drawn(row, texts),
         \A t, u \in texts : \A v \in DOMAIN t : v \in DOMAIN u => t = u
  PROVE  Cardinality(Drawn(row, texts)[c]) = 1
  <1>1. PICK t \in texts : c \in DOMAIN t
    BY DrawnIs
  <1>2. Drawn(row, texts)[c] = {t[c]}
    <2>1. Drawn(row, texts)[c] = {u[c] : u \in {v \in texts : c \in DOMAIN v}}
      BY DrawnIs
    <2>2. {u \in texts : c \in DOMAIN u} = {t}
      BY <1>1
    <2>3. QED BY <2>1, <2>2
  <1>3. QED BY <1>2, FS_Singleton

(* The loop draws entries of the list, on rows of the screen.              *)
LEMMA EntryDrawn ==
  ASSUME LayoutTypeOK, DrawsEntry
  PROVE  /\ text_index[i'] \in Entries /\ text_index' = text_index /\ i' \in 1 .. 15
         /\ i' = i + 1
         /\ screen' = <<Drawn(2 * i, FirstLine(text_index[i'])), Drawn(2 * i + 1, SecondLine(text_index[i']))>>
         /\ 2 * i \in 0 .. Rows - 1 /\ 2 * i + 1 \in 0 .. Rows - 1
  <1>1. text_index \in Seq(Entries) /\ i \in 0 .. 15
    BY LayoutAssumption DEF LayoutTypeOK, Entries
  <1>2. i < limit /\ i' = i + 1 /\ text_index' = text_index
        /\ screen' = <<Drawn(2 * i, FirstLine(text_index[i + 1])), Drawn(2 * i + 1, SecondLine(text_index[i + 1]))>>
    BY DEF DrawsEntry
  <1>3. limit <= 15 /\ limit <= Len(text_index) /\ limit \in Int
    BY <1>1 DEF limit
  <1>4. i + 1 \in 1 .. 15 /\ i + 1 \in 1 .. Len(text_index)
    BY <1>1, <1>2, <1>3
  <1>5. 2 * i \in 0 .. Rows - 1 /\ 2 * i + 1 \in 0 .. Rows - 1
    BY <1>4, <1>1, LayoutAssumption
  <1>6. text_index[i + 1] \in Entries
    BY <1>1, <1>4
  <1>7. QED BY <1>2, <1>4, <1>5, <1>6

(* No cell of either line is drawn twice ...                               *)
LEMMA DrawsApart ==
  ASSUME LayoutTypeOK, DrawsEntry  PROVE  NoOverlap'
  <1>1. PICK e \in Entries, row \in Int :
          screen' = <<Drawn(row, FirstLine(e)), Drawn(row + 1, SecondLine(e))>>
    BY EntryDrawn DEF LayoutTypeOK
  <1>2. ASSUME NEW c \in DOMAIN Drawn(row, FirstLine(e)) PROVE Cardinality(Drawn(row, FirstLine(e))[c]) = 1
    <2>1. \A t, u \in FirstLine(e) : \A v \in DOMAIN t : v \in DOMAIN u => t = u
      BY FirstLineApart
    <2>2. QED BY <2>1, DrawnOnce
  <1>3. ASSUME NEW c \in DOMAIN Drawn(row + 1, SecondLine(e))
        PROVE  Cardinality(Drawn(row + 1, SecondLine(e))[c]) = 1
    <2>1. \A t, u \in SecondLine(e) : \A v \in DOMAIN t : v \in DOMAIN u => t = u
      BY DEF SecondLine
    <2>2. row + 1 \in Int
      OBVIOUS
    <2>3. QED BY <2>1, <2>2, DrawnOnce
  <1>4. DOMAIN screen' = {1, 2}
    BY <1>1
  <1>5. QED BY <1>1, <1>2, <1>3, <1>4 DEF NoOverlap

(* ... the time is there, up to the edge ...                               *)
LEMMA DrawsTime ==
  ASSUME LayoutTypeOK, DrawsEntry
  PROVE  /\ Shows("stamp", 0, 14)' /\ Shows("delimiter", 0, 6)' /\ (~ Blank(Columns - 1))'
  <1>1. PICK e \in Entries, row \in 0 .. Rows - 1 : screen'[1] = Drawn(row, FirstLine(e))
    BY EntryDrawn
  <1>2. PICK col \in Nat : col = Columns /\ col >= 29
    BY LayoutAssumption
  <1>3. row \in Int
    BY LayoutAssumption
  <1>4. \A s \in Times : s \in FirstLine(e)
    BY DEF FirstLine, Times
  <1>5. ASSUME NEW k \in 0 .. 13 PROVE \E c \in DOMAIN screen'[1] : <<"stamp", k>> \in screen'[1][c]
    <2>1. PICK q \in 0 .. 6 : k = 2 * q \/ k = 2 * q + 1
      OBVIOUS
    <2>2. StampPair(q) \in FirstLine(e)
      BY <1>4 DEF Times
    <2>3. OnGrid(row, col - 20 + 3 * q) /\ OnGrid(row, col - 19 + 3 * q)
      BY <1>2 DEF OnGrid
    <2>4. /\ col - 20 + 3 * q \in DOMAIN screen'[1] /\ <<"stamp", 2 * q>> \in screen'[1][col - 20 + 3 * q]
          /\ col - 19 + 3 * q \in DOMAIN screen'[1] /\ <<"stamp", 2 * q + 1>> \in screen'[1][col - 19 + 3 * q]
      <3>1. /\ col - 20 + 3 * q \in DOMAIN StampPair(q) /\ StampPair(q)[col - 20 + 3 * q] = <<"stamp", 2 * q>>
            /\ col - 19 + 3 * q \in DOMAIN StampPair(q) /\ StampPair(q)[col - 19 + 3 * q] = <<"stamp", 2 * q + 1>>
        BY <1>2, TimeLies
      <3>2. \A c \in DOMAIN StampPair(q) : OnGrid(row, c) => c \in DOMAIN screen'[1] /\ StampPair(q)[c] \in screen'[1][c]
        BY <1>1, <1>3, <2>2, DrawnIs
      <3>3. QED BY <2>3, <3>1, <3>2
    <2>5. QED BY <2>1, <2>4
  <1>6. ASSUME NEW k \in 0 .. 5 PROVE \E c \in DOMAIN screen'[1] : <<"delimiter", k>> \in screen'[1][c]
    <2>1. Delimiter(k) \in FirstLine(e)
      BY <1>4 DEF Times
    <2>2. OnGrid(row, col - 18 + 3 * k)
      BY <1>2 DEF OnGrid
    <2>3. /\ col - 18 + 3 * k \in DOMAIN Delimiter(k) /\ Delimiter(k)[col - 18 + 3 * k] = <<"delimiter", k>>
      BY <1>2, TimeLies
    <2>4. \A c \in DOMAIN Delimiter(k) : OnGrid(row, c) => c \in DOMAIN screen'[1] /\ Delimiter(k)[c] \in screen'[1][c]
      BY <1>1, <1>3, <2>1, DrawnIs
    <2>5. QED BY <2>2, <2>3, <2>4
  <1>7. col - 1 \in DOMAIN screen'[1]
    <2>1. StampPair(6) \in FirstLine(e) /\ col - 1 = col - 19 + 3 * 6
      BY <1>4 DEF Times
    <2>2. OnGrid(row, col - 1)
      BY <1>2 DEF OnGrid
    <2>3. QED BY <1>1, <1>2, <1>3, <2>1, <2>2, TimeLies, DrawnIs
  <1>8. QED BY <1>2, <1>5, <1>6, <1>7 DEF Shows, Blank

(* ... and so are the count, the name or its start and dots, the blanks    *)
(* beside the count, and the message.                                      *)
LEMMA DrawsEntryTexts ==
  ASSUME LayoutTypeOK, DrawsEntry, NEW e, e = text_index[i']
  PROVE  /\ e.unreads # 0 => Shows("unreads", 0, unreads_width(e))'
         /\ Shows("name", 0, IF Fits(e) THEN e.name ELSE 1)'
         /\ ~ Fits(e) => Shows("dot", 0, 3)'
         /\ Blank(unreads_cursor(e) - 1)' /\ Blank(Columns - StampLen - 6 - 1)'
         /\ \A c \in 0 .. Min2(e.preview, Columns) - 1 : c \in DOMAIN screen'[2]
  <1> e \in Entries
    BY EntryDrawn
  <1>1. PICK row \in 0 .. Rows - 1 : screen'[1] = Drawn(row, FirstLine(e))
                                     /\ row + 1 \in 0 .. Rows - 1 /\ screen'[2] = Drawn(row + 1, SecondLine(e))
    BY EntryDrawn
  <1>2. PICK col \in Nat, w \in 1 .. 3, n \in Nat :
          /\ col = Columns /\ col >= 29 /\ w = unreads_width(e) /\ n = e.name
          /\ name_text_room(e) = col - 22 - w
    BY WidthsRight DEF Widths
  <1>3. row \in Int /\ row + 1 \in Int
    BY LayoutAssumption
  <1>4. Name(e) \in FirstLine(e) /\ Dots(e) \in FirstLine(e) /\ Unreads(e) \in FirstLine(e)
    BY DEF FirstLine
  <1>5. \A t \in {Name(e), Dots(e), Unreads(e)} : \A c \in DOMAIN t :
          c \in DOMAIN screen'[1] /\ t[c] \in screen'[1][c]
    <2> SUFFICES ASSUME NEW t \in {Name(e), Dots(e), Unreads(e)}, NEW c \in DOMAIN t
                 PROVE  c \in DOMAIN screen'[1] /\ t[c] \in screen'[1][c]
      OBVIOUS
    <2>1. c \in 0 .. Columns - 22
      BY HeadsApart
    <2>2. OnGrid(row, c)
      BY <1>2, <2>1 DEF OnGrid
    <2>3. QED BY <1>1, <1>3, <1>4, <2>2, DrawnIs
  <1>6. ASSUME e.unreads # 0, NEW k \in 0 .. w - 1
        PROVE  \E c \in DOMAIN screen'[1] : <<"unreads", k>> \in screen'[1][c]
    <2>1. PICK x \in Int : x = unreads_cursor(e)
      BY HeadsApart, <1>2
    <2>2. Unreads(e) = [c \in x .. x + w - 1 |-> <<"unreads", 0 + c - x>>]
      BY <1>2, <1>6, <2>1 DEF Unreads, Text
    <2>3. x + k \in x .. x + w - 1 /\ 0 + (x + k) - x = k
      BY <1>6
    <2>4. x + k \in DOMAIN Unreads(e) /\ Unreads(e)[x + k] = <<"unreads", k>>
      BY <2>2, <2>3
    <2>5. QED BY <1>5, <2>4
  <1>7. ASSUME NEW k \in 0 .. (IF Fits(e) THEN e.name ELSE 1) - 1
        PROVE  \E c \in DOMAIN screen'[1] : <<"name", k>> \in screen'[1][c]
    <2>1. PICK m \in Int : Name(e) = [c \in 0 .. 0 + m - 1 |-> <<"name", 0 + c - 0>>] /\ k \in 0 .. 0 + m - 1
      <3>1. CASE Fits(e)
        BY <1>2, <1>7, <3>1 DEF Name, Text
      <3>2. CASE ~ Fits(e)
        <4>1. PICK m \in Int : m = name_text_room(e) - 3 /\ m >= 1
          BY <1>2
        <4>2. Name(e) = [c \in 0 .. 0 + m - 1 |-> <<"name", 0 + c - 0>>]
          BY <3>2, <4>1 DEF Name, Text
        <4>3. k \in 0 .. 0 + m - 1
          BY <1>7, <3>2, <4>1
        <4>4. QED BY <4>2, <4>3
      <3>3. QED BY <3>1, <3>2
    <2>2. 0 + k - 0 = k
      OBVIOUS
    <2>3. QED BY <1>5, <2>1, <2>2
  <1>8. ASSUME ~ Fits(e), NEW k \in 0 .. 2
        PROVE  \E c \in DOMAIN screen'[1] : <<"dot", k>> \in screen'[1][c]
    <2>1. PICK x \in Int : x = name_text_room(e) - 3
      BY <1>2
    <2>2. Dots(e) = [c \in x .. x + 3 - 1 |-> <<"dot", 0 + c - x>>]
      BY <1>8, <2>1 DEF Dots, Text
    <2>3. x + k \in x .. x + 3 - 1 /\ 0 + (x + k) - x = k
      OBVIOUS
    <2>4. x + k \in DOMAIN Dots(e) /\ Dots(e)[x + k] = <<"dot", k>>
      BY <2>2, <2>3
    <2>5. QED BY <1>5, <2>4
  <1>9. ASSUME NEW c \in 0 .. col - 21, \A t \in {Name(e), Dots(e), Unreads(e)} : c \notin DOMAIN t
        PROVE  Blank(c)'
    <2>1. \A s \in Times : c \notin DOMAIN s
      <3>1. ASSUME NEW k \in 0 .. 6 PROVE c \notin DOMAIN StampPair(k)
        <4>1. c # col - 20 + 3 * k /\ c # col - 19 + 3 * k
          BY <1>2
        <4>2. QED BY <1>2, <4>1, TimeLies
      <3>2. ASSUME NEW k \in 0 .. 5 PROVE c \notin DOMAIN Delimiter(k)
        <4>1. c # col - 18 + 3 * k
          BY <1>2
        <4>2. QED BY <1>2, <4>1, TimeLies
      <3>3. QED BY <3>1, <3>2 DEF Times
    <2>2. \A t \in FirstLine(e) : c \notin DOMAIN t
      BY <1>9, <2>1 DEF FirstLine, Times
    <2>3. c \notin DOMAIN screen'[1]
      BY <1>1, <1>3, <2>2, DrawnIs
    <2>4. c \in 0 .. Columns - 1
      BY <1>2
    <2>5. QED BY <2>3, <2>4 DEF Blank
  <1>10. Blank(unreads_cursor(e) - 1)'
    <2>1. unreads_cursor(e) \in 1 .. col - 22
      BY <1>2, HeadsApart
    <2>2. unreads_cursor(e) - 1 \in 0 .. col - 21
      BY <1>2, <2>1
    <2>3. QED BY <1>9, <2>2, HeadsApart
  <1>11. Blank(Columns - StampLen - 6 - 1)'
    <2>1. Columns - StampLen - 6 - 1 = col - 21 /\ col - 21 \in 0 .. col - 21 /\ col - 21 \notin 0 .. Columns - 22
      BY <1>2 DEF StampLen
    <2>2. \A t \in {Name(e), Dots(e), Unreads(e)} : col - 21 \notin DOMAIN t
      BY <2>1, HeadsApart
    <2>3. Blank(col - 21)'
      BY <1>9, <2>1, <2>2
    <2>4. QED BY <2>1, <2>3, Zenon
  <1>12. ASSUME NEW c \in 0 .. Min2(e.preview, Columns) - 1 PROVE c \in DOMAIN screen'[2]
    <2>1. PICK p \in Nat : p = e.preview
      BY DEF Entries
    <2>2. c \in 0 .. 0 + p - 1 /\ c \in 0 .. col - 1
      BY <1>2, <1>12, <2>1 DEF Min2
    <2>3. c \in DOMAIN Text("preview", 0, e.preview, 0) /\ OnGrid(row + 1, c)
      BY <1>1, <1>2, <2>1, <2>2 DEF Text, OnGrid
    <2>4. QED BY <1>1, <1>3, <2>3, DrawnIs DEF SecondLine
  <1>13. Shows("unreads", 0, w)' <=> \A k \in 0 .. 0 + w - 1 : \E c \in DOMAIN screen'[1] : <<"unreads", k>> \in screen'[1][c]
    BY DEF Shows
  <1>14. QED BY <1>2, <1>6, <1>7, <1>8, <1>10, <1>11, <1>12, <1>13 DEF Shows

(* The list of conversations is legible whatever is in it: nothing that    *)
(* must be seen is dropped or drawn over (screen_texts.c:51-99), on any    *)
(* screen at least as large as the text fields take.                       *)
THEOREM ListLegible == LayoutSpec => []LayoutRight
  <1>1. LayoutInit => LayoutRight
    BY DEF LayoutInit, LayoutRight, LayoutTypeOK, NoOverlap, AllShown
  <1>2. LayoutRight /\ [DrawsEntry]_layoutVars => LayoutRight'
    <2> SUFFICES ASSUME LayoutRight, [DrawsEntry]_layoutVars PROVE LayoutRight'
      OBVIOUS
    <2>1. CASE DrawsEntry
      <3>1. LayoutTypeOK
        BY DEF LayoutRight
      <3>2. LayoutTypeOK'
        <4>1. Len(screen') = 2 /\ i' \in 1 .. 15 /\ text_index' \in Lists
          BY <2>1, <3>1, EntryDrawn DEF LayoutTypeOK
        <4>2. QED BY <4>1 DEF LayoutTypeOK
      <3>3. NoOverlap'
        BY <2>1, <3>1, DrawsApart
      <3>4. AllShown'
        <4>1. PICK e : e = text_index[i'] /\ e = text_index'[i']
          BY <2>1, <3>1, EntryDrawn
        <4>2. /\ e.unreads # 0 => Shows("unreads", 0, unreads_width(e))'
              /\ Shows("name", 0, IF Fits(e) THEN e.name ELSE 1)'
              /\ ~ Fits(e) => Shows("dot", 0, 3)'
              /\ Blank(unreads_cursor(e) - 1)' /\ Blank(Columns - StampLen - 6 - 1)'
              /\ \A c \in 0 .. Min2(e.preview, Columns) - 1 : c \in DOMAIN screen'[2]
          BY <2>1, <3>1, <4>1, DrawsEntryTexts
        <4>3. Shows("stamp", 0, 14)' /\ Shows("delimiter", 0, 6)' /\ (~ Blank(Columns - 1))'
          BY <2>1, <3>1, DrawsTime
        <4>4. QED BY <4>1, <4>2, <4>3 DEF AllShown
      <3>5. QED BY <3>2, <3>3, <3>4 DEF LayoutRight
    <2>2. CASE UNCHANGED layoutVars
      BY <2>2 DEF layoutVars, LayoutRight, LayoutTypeOK, NoOverlap, AllShown, Shows, Blank
    <2>3. QED BY <2>1, <2>2
  <1>3. QED BY <1>1, <1>2, PTL DEF LayoutSpec

-----------------------------------------------------------------------------
(* The skip lists.  What lfs_ctz_index rests on is a formula for the first *)
(* byte of a block, which holds as adding one clears the trailing ones of  *)
(* a number and sets the next bit; the walks rest on where each pointer    *)
(* leads, which the writes keep.                                           *)

(* Halves of a natural.                                                    *)
LEMMA Halves ==
  \A n \in Nat : /\ n \div 2 \in Nat /\ n % 2 \in 0 .. 1 /\ n = 2 * (n \div 2) + (n % 2)
                 /\ n # 0 => n \div 2 < n
                 /\ n # 0 /\ n % 2 = 0 => /\ n \div 2 # 0 /\ (n - 1) % 2 = 1
                                          /\ (n - 1) \div 2 = n \div 2 - 1
                 /\ n % 2 = 1 => (n - 1) % 2 = 0 /\ (n - 1) \div 2 = n \div 2
  OBVIOUS
(* The powers of two are what their recursion says ...                     *)
LEMMA Twos ==
  /\ two \in [Nat -> Nat \ {0}] /\ two[0] = 1
  /\ \A n \in Nat \ {0} : two[n] = 2 * two[n - 1]
  <1> DEFINE S == Nat \ {0}
             h == [n \in Nat |-> IF n = 0 THEN 0 ELSE n - 1]
             g == [p \in Nat \X S |-> 2 * p[2]]
  <1>1. h \in [Nat -> Nat] /\ \A n \in Nat \ {0} : h[n] < n
    OBVIOUS
  <1>2. Recursive(S, 1, h, g)
    <2>1. g \in [Nat \X S -> S] /\ 1 \in S
      OBVIOUS
    <2>2. QED BY <1>1, <2>1 DEF Recursive
  <1>3. PICK f \in [Nat -> S] : \A n \in Nat : f[n] = IF n = 0 THEN 1 ELSE g[<<n, f[h[n]]>>]
    <2> HIDE DEF h, g, S
    <2>1. QED BY <1>2, Recursion
  <1>4. ASSUME NEW n \in Nat PROVE f[n] = IF n = 0 THEN 1 ELSE 2 * f[n - 1]
    <2>1. n # 0 => n - 1 \in Nat /\ h[n] = n - 1 /\ <<n, f[n - 1]>> \in Nat \X S
      OBVIOUS
    <2>2. n # 0 => g[<<n, f[n - 1]>>] = 2 * f[n - 1]
      BY <2>1
    <2>3. QED BY <1>3, <2>1, <2>2
  <1>5. f = [n \in Nat |-> IF n = 0 THEN 1 ELSE 2 * f[n - 1]]
    BY <1>4
  <1>6. two = [n \in Nat |-> IF n = 0 THEN 1 ELSE 2 * two[n - 1]]
    BY <1>5 DEF two
  <1>7. \A n \in Nat : two[n] = IF n = 0 THEN 1 ELSE 2 * two[n - 1]
    BY <1>6
  <1>8. \A n \in Nat : two[n] \in S
    <2> DEFINE P == {n \in Nat : two[n] \in S}
    <2>1. 0 \in P
      BY <1>7
    <2>2. ASSUME NEW n \in P PROVE n + 1 \in P
      <3>1. two[n + 1] = 2 * two[n]
        BY <1>7, n + 1 # 0, n + 1 - 1 = n
      <3>2. QED BY <3>1
    <2>3. P = Nat
      <3> HIDE DEF P
      <3>1. P \in SUBSET Nat
        BY DEF P
      <3>2. QED BY <2>1, <2>2, <3>1, NatInducts
    <2>4. QED BY <2>3
  <1>9. two \in [Nat -> S]
    BY <1>6, <1>8
  <1>10. QED BY <1>7, <1>9
(* ... and so are the ones, ...                                          *)
LEMMA Ones ==
  /\ ones \in [Nat -> Nat] /\ ones[0] = 0
  /\ \A n \in Nat \ {0} : ones[n] = (n % 2) + ones[n \div 2]
  <1> DEFINE h == [n \in Nat |-> n \div 2]
             g == [p \in Nat \X Nat |-> (p[1] % 2) + p[2]]
  <1>1. Recursive(Nat, 0, h, g)
    <2>1. g \in [Nat \X Nat -> Nat]
      <3>1. \A p \in Nat \X Nat : p[1] \in Nat /\ p[2] \in Nat
        OBVIOUS
      <3>2. \A n, m \in Nat : (n % 2) + m \in Nat
        BY Halves
      <3>3. QED BY <3>1, <3>2
    <2>2. h \in [Nat -> Nat] /\ \A n \in Nat \ {0} : h[n] < n
      BY Halves
    <2>3. QED BY <2>1, <2>2 DEF Recursive
  <1>2. PICK f \in [Nat -> Nat] : \A n \in Nat : f[n] = IF n = 0 THEN 0 ELSE g[<<n, f[h[n]]>>]
    <2> HIDE DEF h, g
    <2>1. QED BY <1>1, Recursion
  <1>3. ASSUME NEW n \in Nat PROVE f[n] = IF n = 0 THEN 0 ELSE (n % 2) + f[n \div 2]
    <2>1. h[n] = n \div 2 /\ n \div 2 \in Nat /\ <<n, f[n \div 2]>> \in Nat \X Nat
      BY Halves
    <2>2. QED BY <1>2, <2>1
  <1>4. f = [n \in Nat |-> IF n = 0 THEN 0 ELSE (n % 2) + f[n \div 2]]
    BY <1>3
  <1>5. ones = [n \in Nat |-> IF n = 0 THEN 0 ELSE (n % 2) + ones[n \div 2]]
    BY <1>4 DEF ones
  <1>6. \A n \in Nat : ones[n] = IF n = 0 THEN 0 ELSE (n % 2) + ones[n \div 2]
    BY <1>5
  <1>7. \A n \in Nat : ones[n] \in Nat
    <2> DEFINE P == {n \in Nat : ones[n] \in Nat}
    <2>1. ASSUME NEW n \in Nat, \A m \in 0 .. n - 1 : m \in P PROVE n \in P
      <3>1. n # 0 => n \div 2 \in 0 .. n - 1
        BY Halves
      <3>2. n # 0 => ones[n \div 2] \in Nat
        BY <2>1, <3>1
      <3>3. QED BY <1>6, <3>2, Halves
    <2>2. P = Nat
      <3> HIDE DEF P
      <3>1. P \in SUBSET Nat
        BY DEF P
      <3>2. QED BY <2>1, <3>1, StrongInducts
    <2>3. QED BY <2>2
  <1>8. ones \in [Nat -> Nat]
    BY <1>5, <1>7
  <1>9. QED BY <1>6, <1>8
(* ... the trailing zeros ...                                            *)
LEMMA Zeros ==
  /\ zeros \in [Nat -> Nat] /\ zeros[0] = 0
  /\ \A n \in Nat \ {0} : zeros[n] = IF n % 2 = 1 THEN 0 ELSE 1 + zeros[n \div 2]
  <1> DEFINE h == [n \in Nat |-> n \div 2]
             g == [p \in Nat \X Nat |-> IF p[1] % 2 = 1 THEN 0 ELSE 1 + p[2]]
  <1>1. Recursive(Nat, 0, h, g)
    <2>1. g \in [Nat \X Nat -> Nat]
      <3>1. \A p \in Nat \X Nat : p[1] \in Nat /\ p[2] \in Nat
        OBVIOUS
      <3>2. \A n, m \in Nat : (IF n % 2 = 1 THEN 0 ELSE 1 + m) \in Nat
        BY Halves
      <3>3. QED BY <3>1, <3>2
    <2>2. h \in [Nat -> Nat] /\ \A n \in Nat \ {0} : h[n] < n
      BY Halves
    <2>3. QED BY <2>1, <2>2 DEF Recursive
  <1>2. PICK f \in [Nat -> Nat] : \A n \in Nat : f[n] = IF n = 0 THEN 0 ELSE g[<<n, f[h[n]]>>]
    <2> HIDE DEF h, g
    <2>1. QED BY <1>1, Recursion
  <1>3. ASSUME NEW n \in Nat PROVE f[n] = IF n = 0 \/ n % 2 = 1 THEN 0 ELSE 1 + f[n \div 2]
    <2>1. h[n] = n \div 2 /\ n \div 2 \in Nat /\ <<n, f[n \div 2]>> \in Nat \X Nat
      BY Halves
    <2>2. QED BY <1>2, <2>1
  <1>4. f = [n \in Nat |-> IF n = 0 \/ n % 2 = 1 THEN 0 ELSE 1 + f[n \div 2]]
    BY <1>3
  <1>5. zeros = [n \in Nat |-> IF n = 0 \/ n % 2 = 1 THEN 0 ELSE 1 + zeros[n \div 2]]
    BY <1>4 DEF zeros
  <1>6. \A n \in Nat : zeros[n] = IF n = 0 \/ n % 2 = 1 THEN 0 ELSE 1 + zeros[n \div 2]
    BY <1>5
  <1>7. \A n \in Nat : zeros[n] \in Nat
    <2> DEFINE P == {n \in Nat : zeros[n] \in Nat}
    <2>1. ASSUME NEW n \in Nat, \A m \in 0 .. n - 1 : m \in P PROVE n \in P
      <3>1. n # 0 => n \div 2 \in 0 .. n - 1
        BY Halves
      <3>2. n # 0 => zeros[n \div 2] \in Nat
        BY <2>1, <3>1
      <3>3. QED BY <1>6, <3>2, Halves
    <2>2. P = Nat
      <3> HIDE DEF P
      <3>1. P \in SUBSET Nat
        BY DEF P
      <3>2. QED BY <2>1, <3>1, StrongInducts
    <2>3. QED BY <2>2
  <1>8. zeros \in [Nat -> Nat]
    BY <1>5, <1>7
  <1>9. QED BY <1>6, <1>8
(* ... and the digits.                                                   *)
LEMMA Digits ==
  /\ digits \in [Nat -> Nat] /\ digits[0] = 0
  /\ \A n \in Nat \ {0} : digits[n] = 1 + digits[n \div 2]
  <1> DEFINE h == [n \in Nat |-> n \div 2]
             g == [p \in Nat \X Nat |-> 1 + p[2]]
  <1>1. Recursive(Nat, 0, h, g)
    <2>1. g \in [Nat \X Nat -> Nat]
      <3>1. \A p \in Nat \X Nat : p[1] \in Nat /\ p[2] \in Nat
        OBVIOUS
      <3>2. \A n, m \in Nat : 1 + m \in Nat
        BY Halves
      <3>3. QED BY <3>1, <3>2
    <2>2. h \in [Nat -> Nat] /\ \A n \in Nat \ {0} : h[n] < n
      BY Halves
    <2>3. QED BY <2>1, <2>2 DEF Recursive
  <1>2. PICK f \in [Nat -> Nat] : \A n \in Nat : f[n] = IF n = 0 THEN 0 ELSE g[<<n, f[h[n]]>>]
    <2> HIDE DEF h, g
    <2>1. QED BY <1>1, Recursion
  <1>3. ASSUME NEW n \in Nat PROVE f[n] = IF n = 0 THEN 0 ELSE 1 + f[n \div 2]
    <2>1. h[n] = n \div 2 /\ n \div 2 \in Nat /\ <<n, f[n \div 2]>> \in Nat \X Nat
      BY Halves
    <2>2. QED BY <1>2, <2>1
  <1>4. f = [n \in Nat |-> IF n = 0 THEN 0 ELSE 1 + f[n \div 2]]
    BY <1>3
  <1>5. digits = [n \in Nat |-> IF n = 0 THEN 0 ELSE 1 + digits[n \div 2]]
    BY <1>4 DEF digits
  <1>6. \A n \in Nat : digits[n] = IF n = 0 THEN 0 ELSE 1 + digits[n \div 2]
    BY <1>5
  <1>7. \A n \in Nat : digits[n] \in Nat
    <2> DEFINE P == {n \in Nat : digits[n] \in Nat}
    <2>1. ASSUME NEW n \in Nat, \A m \in 0 .. n - 1 : m \in P PROVE n \in P
      <3>1. n # 0 => n \div 2 \in 0 .. n - 1
        BY Halves
      <3>2. n # 0 => digits[n \div 2] \in Nat
        BY <2>1, <3>1
      <3>3. QED BY <1>6, <3>2, Halves
    <2>2. P = Nat
      <3> HIDE DEF P
      <3>1. P \in SUBSET Nat
        BY DEF P
      <3>2. QED BY <2>1, <3>1, StrongInducts
    <2>3. QED BY <2>2
  <1>8. digits \in [Nat -> Nat]
    BY <1>5, <1>7
  <1>9. QED BY <1>6, <1>8
(* Adding one clears the trailing ones and sets the next digit.            *)
LEMMA OnesOfNext ==
  \A n \in Nat \ {0} : ones[n] + zeros[n] = ones[n - 1] + 1
  <1> DEFINE P == {n \in Nat : n # 0 => ones[n] + zeros[n] = ones[n - 1] + 1}
  <1>1. ASSUME NEW n \in Nat, \A m \in 0 .. n - 1 : m \in P PROVE n \in P
    <2>1. SUFFICES ASSUME n # 0 PROVE ones[n] + zeros[n] = ones[n - 1] + 1
      OBVIOUS
    <2>2. PICK m \in Nat : m = n \div 2 /\ m < n
      BY <2>1, Halves
    <2>3. ones[n] \in Nat /\ ones[m] \in Nat /\ zeros[m] \in Nat /\ n - 1 \in Nat
      BY <2>1, Ones, Zeros
    <2>4. CASE n % 2 = 1
      <3>1. ones[n] = 1 + ones[m] /\ zeros[n] = 0
        BY <2>1, <2>2, <2>4, Ones, Zeros
      <3>2. (n - 1) % 2 = 0 /\ (n - 1) \div 2 = m
        BY <2>2, <2>4, Halves
      <3>3. ones[n - 1] = ones[m]
        <4>1. CASE n - 1 = 0
          <5>1. m = 0
            BY <4>1, <2>2
          <5>2. QED BY <4>1, <5>1
        <4>2. CASE n - 1 # 0
          <5>1. ones[n - 1] = ((n - 1) % 2) + ones[(n - 1) \div 2]
            BY <2>3, <4>2, Ones
          <5>2. QED BY <2>3, <3>2, <5>1
        <4>3. QED BY <4>1, <4>2
      <3>4. QED BY <2>3, <3>1, <3>3
    <2>5. CASE n % 2 # 1
      <3>1. n % 2 = 0
        BY <2>5, Halves
      <3>2. m # 0 /\ (n - 1) % 2 = 1 /\ (n - 1) \div 2 = m - 1 /\ n - 1 # 0
        BY <2>1, <2>2, <3>1, Halves
      <3>3. ones[n] = ones[m] /\ zeros[n] = 1 + zeros[m]
        BY <2>1, <2>2, <2>3, <3>1, Ones, Zeros
      <3>4. ones[n - 1] = 1 + ones[m - 1]
        BY <2>3, <3>2, Ones
      <3>5. ones[m] + zeros[m] = ones[m - 1] + 1
        BY <1>1, <2>2, <3>2
      <3>6. m - 1 \in Nat
        BY <3>2
      <3>7. ones[m - 1] \in Nat
        BY <3>6, Ones
      <3>8. QED BY <2>3, <3>3, <3>4, <3>5, <3>7
    <2>6. QED BY <2>4, <2>5
  <1>2. P = Nat
    <2> HIDE DEF P
    <2>1. P \in SUBSET Nat
      BY DEF P
    <2>2. QED BY <1>1, <2>1, StrongInducts
  <1>3. QED BY <1>2
(* A natural is not less than its first digit stands for.                  *)
LEMMA FirstDigit ==
  \A n \in Nat \ {0} : digits[n] # 0 /\ two[digits[n] - 1] <= n
  <1> DEFINE P == {n \in Nat : n # 0 => digits[n] # 0 /\ two[digits[n] - 1] <= n}
  <1>1. ASSUME NEW n \in Nat, \A m \in 0 .. n - 1 : m \in P PROVE n \in P
    <2>1. SUFFICES ASSUME n # 0 PROVE digits[n] # 0 /\ two[digits[n] - 1] <= n
      OBVIOUS
    <2>2. PICK m \in Nat : m = n \div 2 /\ m < n /\ 2 * m <= n
      BY <2>1, Halves
    <2>3. digits[m] \in Nat /\ digits[n] = 1 + digits[m]
      BY <2>1, <2>2, Digits
    <2>4. PICK k \in Nat : k = digits[m]
      BY <2>3
    <2>5. digits[n] # 0 /\ digits[n] - 1 = k
      BY <2>3, <2>4
    <2>6. CASE m = 0
      <3>1. two[k] = 1
        BY <2>4, <2>6, Digits, Twos
      <3>2. QED BY <2>1, <2>5, <3>1
    <2>7. CASE m # 0
      <3>1. k # 0 /\ two[k - 1] <= m
        BY <1>1, <2>2, <2>4, <2>7
      <3>2. two[k] = 2 * two[k - 1] /\ k - 1 \in Nat
        BY <3>1, Twos
      <3>3. PICK t \in Nat : t = two[k - 1]
        BY <3>2, Twos
      <3>4. 2 * t <= n
        BY <2>2, <3>1, <3>3
      <3>5. QED BY <2>5, <3>2, <3>3, <3>4
    <2>8. QED BY <2>6, <2>7
  <1>2. P = Nat
    <2> HIDE DEF P
    <2>1. P \in SUBSET Nat
      BY DEF P
    <2>2. QED BY <1>1, <2>1, StrongInducts
  <1>3. QED BY <1>2
(* What the trailing zeros of n allow to be taken off, and what is left    *)
(* then has as many zeros.                                                 *)
LEMMA TrailingZeros ==
  \A n \in Nat \ {0} : \A k \in 0 .. zeros[n] :
    /\ two[k] <= n
    /\ k # zeros[n] => n - two[k] \in Nat \ {0} /\ k <= zeros[n - two[k]]
  <1> DEFINE Q(n, k) == /\ two[k] <= n
                        /\ k # zeros[n] => n - two[k] \in Nat \ {0} /\ k <= zeros[n - two[k]]
             P == {n \in Nat : n # 0 => \A k \in 0 .. zeros[n] : Q(n, k)}
  <1>1. ASSUME NEW n \in Nat, \A m \in 0 .. n - 1 : m \in P PROVE n \in P
    <2>1. SUFFICES ASSUME n # 0, NEW k \in 0 .. zeros[n] PROVE Q(n, k)
      OBVIOUS
    <2>2. zeros[n] \in Nat /\ k \in Nat
      BY Zeros
    <2>3. CASE k = 0
      <3>1. two[k] = 1
        BY <2>3, Twos
      <3>2. ASSUME k # zeros[n] PROVE n - two[k] \in Nat \ {0} /\ k <= zeros[n - two[k]]
        <4>1. n % 2 # 1
          BY <2>1, <2>3, <3>2, Zeros
        <4>2. n - 1 # 0 /\ n - 1 \in Nat
          BY <2>1, <4>1
        <4>3. zeros[n - 1] \in Nat
          BY <4>2, Zeros
        <4>4. QED BY <2>3, <3>1, <4>2, <4>3
      <3>3. QED BY <2>1, <3>1, <3>2
    <2>4. CASE k # 0
      <3>1. n % 2 # 1
        BY <2>1, <2>2, <2>4, Zeros
      <3>2. n % 2 = 0
        BY <3>1, Halves
      <3>3. PICK m \in Nat \ {0} : m = n \div 2 /\ m < n /\ n = 2 * m
        BY <2>1, <3>2, Halves
      <3>4. zeros[n] = 1 + zeros[m] /\ zeros[m] \in Nat
        BY <2>1, <3>1, <3>3, Zeros
      <3>5. k - 1 \in 0 .. zeros[m]
        BY <2>2, <2>4, <3>4
      <3>6. Q(m, k - 1)
        BY <1>1, <3>3, <3>5
      <3>7. PICK t \in Nat \ {0} : t = two[k - 1] /\ two[k] = 2 * t
        BY <2>2, <2>4, Twos
      <3>8. two[k] <= n
        BY <3>3, <3>6, <3>7
      <3>9. ASSUME k # zeros[n] PROVE n - two[k] \in Nat \ {0} /\ k <= zeros[n - two[k]]
        <4>1. k - 1 # zeros[m]
          BY <2>2, <3>4, <3>9
        <4>2. m - t \in Nat \ {0} /\ k - 1 <= zeros[m - t]
          BY <3>6, <3>7, <4>1
        <4>3. PICK r \in Nat \ {0} : r = m - t
          BY <4>2
        <4>4. n - two[k] = 2 * r
          BY <3>3, <3>7, <4>3
        <4>5. 2 * r \in Nat \ {0} /\ (2 * r) \div 2 = r /\ (2 * r) % 2 # 1
          OBVIOUS
        <4>6. zeros[2 * r] = 1 + zeros[r] /\ zeros[r] \in Nat
          BY <4>5, Zeros
        <4>7. QED BY <2>2, <4>2, <4>3, <4>4, <4>5, <4>6
      <3>10. QED BY <3>8, <3>9
    <2>5. QED BY <2>3, <2>4
  <1>2. P = Nat
    <2> HIDE DEF P
    <2>1. P \in SUBSET Nat
      BY DEF P
    <2>2. QED BY <1>1, <2>1, StrongInducts
  <1>3. QED BY <1>2
-----------------------------------------------------------------------------
(* What a block holds but for two pointers, and the last block that a file *)
(* may reach.                                                              *)
Room == BlockSize - 2 * PtrSize
LastIndex == MaxSize \div Room
(* The sizes are naturals, and a block has room.                           *)
LEMMA Sizes ==
  /\ PtrSize \in Nat \ {0} /\ BlockSize \in Nat \ {0} /\ Room \in Nat \ {0}
  /\ BlockSize = Room + 2 * PtrSize /\ BlockCount \in Nat
  /\ MaxSize \in Nat /\ LastIndex \in Nat
  /\ \A n \in 0 .. LastIndex : PtrSize * (ones[n] + 4) <= BlockSize
  <1>1. /\ PtrSize \in Nat \ {0} /\ BlockSize \in Nat \ {0} /\ Room \in Nat \ {0}
        /\ BlockSize = Room + 2 * PtrSize /\ BlockCount \in Nat
    BY CtzAssumption DEF Room
  <1>2. MaxSize \in Nat
    BY WriterAssumption
  <1>3. LastIndex \in Nat
    <2>1. PICK r \in Nat \ {0}, m \in Int : r = Room /\ m = MaxSize /\ m >= 0
      BY <1>1, <1>2
    <2>2. PICK q \in Int, s \in 0 .. r - 1 : q = m \div r /\ s = m % r
      BY Division
    <2>3. m = r * q + s
      BY <2>2, Division
    <2>4. ASSUME q < 0 PROVE FALSE
      <3>1. r * q <= r * (-1)
        BY <2>4, Division
      <3>2. r * (-1) = -r /\ r * q \in Int
        OBVIOUS
      <3>3. QED BY <2>1, <2>3, <3>1, <3>2
    <2>5. QED BY <2>1, <2>2, <2>4 DEF LastIndex
  <1>4. ASSUME NEW n \in 0 .. LastIndex PROVE PtrSize * (ones[n] + 4) <= BlockSize
    BY WriterAssumption DEF LastIndex, Room, lfs_popc
  <1>5. QED BY <1>1, <1>2, <1>3, <1>4
(* The pointers of a block.                                                *)
LEMMA PointersAre ==
  /\ Pointers(0) = 0
  /\ \A n \in Nat : Pointers(n) \in Nat /\ (n # 0 => Pointers(n) = zeros[n] + 1)
  BY Zeros DEF Pointers, lfs_ctz
(* Where the blocks start is what its recursion says.                      *)
LEMMA Starts ==
  /\ Start \in [Nat -> Int] /\ Start[0] = 0
  /\ \A n \in Nat : Start[n + 1] = Start[n] + BlockSize - PtrSize * Pointers(n)
  <1> DEFINE h == [n \in Nat |-> IF n = 0 THEN 0 ELSE n - 1]
             held(n) == BlockSize - PtrSize * Pointers(n)
             g == [p \in Nat \X Int |-> IF p[1] = 0 THEN 0 ELSE p[2] + held(p[1] - 1)]
  <1>1. \A n \in Nat : held(n) \in Int
    <2>1. \A x, y, z \in Nat : x - y * z \in Int
      OBVIOUS
    <2>2. QED BY <2>1, Sizes, PointersAre
  <1>2. \A n \in Nat, x \in Int : x + held(n) = x + BlockSize - PtrSize * Pointers(n)
    <2>1. \A x \in Int, u, y, z \in Nat : x + (u - y * z) = x + u - y * z
      OBVIOUS
    <2>2. QED BY <2>1, Sizes, PointersAre
  <1> HIDE DEF held
  <1>3. Recursive(Int, 0, h, g)
    <2>1. g \in [Nat \X Int -> Int]
      <3>1. \A p \in Nat \X Int : p[1] \in Nat /\ p[2] \in Int
        OBVIOUS
      <3>2. \A n \in Nat, m \in Int : (IF n = 0 THEN 0 ELSE m + held(n - 1)) \in Int
        BY <1>1
      <3>3. QED BY <3>1, <3>2
    <2>2. h \in [Nat -> Nat] /\ \A n \in Nat \ {0} : h[n] < n
      OBVIOUS
    <2>3. QED BY <2>1, <2>2 DEF Recursive
  <1>4. PICK f \in [Nat -> Int] : \A n \in Nat : f[n] = IF n = 0 THEN 0 ELSE g[<<n, f[h[n]]>>]
    <2> HIDE DEF h, g
    <2>1. QED BY <1>3, Recursion
  <1>5. ASSUME NEW n \in Nat
        PROVE  f[n] = IF n = 0 THEN 0 ELSE f[n - 1] + BlockSize - PtrSize * Pointers(n - 1)
    <2>1. n # 0 => h[n] = n - 1 /\ n - 1 \in Nat /\ <<n, f[n - 1]>> \in Nat \X Int
      OBVIOUS
    <2>2. n # 0 => f[n] = f[n - 1] + held(n - 1)
      BY <1>4, <2>1
    <2>3. QED BY <1>2, <1>4, <2>1, <2>2
  <1>6. f = [n \in Nat |-> IF n = 0 THEN 0 ELSE f[n - 1] + BlockSize - PtrSize * Pointers(n - 1)]
    BY <1>5
  <1>7. Start = [n \in Nat |-> IF n = 0 THEN 0
                               ELSE Start[n - 1] + BlockSize - PtrSize * Pointers(n - 1)]
    BY <1>6, Zenon DEF Start
  <1>8. Start[0] = 0
    BY <1>7
  <1>9. \A n \in Nat : Start[n + 1] = Start[n] + BlockSize - PtrSize * Pointers(n)
    <2>1. ASSUME NEW n \in Nat
          PROVE  Start[n + 1] = Start[n] + BlockSize - PtrSize * Pointers(n)
      <3>1. n + 1 \in Nat /\ n + 1 # 0 /\ n + 1 - 1 = n
        OBVIOUS
      <3>2. QED BY <1>7, <3>1
    <2>2. QED BY <2>1
  <1>10. \A n \in Nat : Start[n] \in Int
    <2> DEFINE P == {n \in Nat : Start[n] \in Int}
    <2>1. 0 \in P
      BY <1>8
    <2>2. ASSUME NEW n \in P PROVE n + 1 \in P
      BY <1>1, <1>2, <1>9
    <2>3. P = Nat
      <3> HIDE DEF P
      <3>1. P \in SUBSET Nat
        BY DEF P
      <3>2. QED BY <2>1, <2>2, <3>1, NatInducts
    <2>4. QED BY <2>3
  <1>11. Start \in [Nat -> Int]
    BY <1>7, <1>10
  <1>12. QED BY <1>8, <1>9, <1>11
(* What that comes to: the formula lfs_ctz_index rests on.                 *)
LEMMA StartIs ==
  \A n \in Nat : Start[n + 1] = Room * (n + 1) + PtrSize * (ones[n] + 2)
  <1>1. PICK p \in Nat, r \in Nat : p = PtrSize /\ r = Room /\ BlockSize = r + 2 * p
    BY Sizes
  <1> DEFINE P == {n \in Nat : Start[n + 1] = r * (n + 1) + p * (ones[n] + 2)}
  <1>2. 0 \in P
    <2>1. Start[0 + 1] = Start[0] + BlockSize - PtrSize * Pointers(0)
      BY Starts
    <2>2. Start[0 + 1] = r * 1 + p * 2
      BY <1>1, <2>1, Starts, PointersAre
    <2>3. QED BY <2>2, Ones
  <1>3. ASSUME NEW n \in P PROVE n + 1 \in P
    <2>1. Start[n + 1 + 1] = Start[n + 1] + BlockSize - PtrSize * Pointers(n + 1)
      BY Starts
    <2>2. PICK z \in Nat, o \in Nat, q \in Nat : z = zeros[n + 1] /\ o = ones[n + 1] /\ q = ones[n]
      BY Ones, Zeros
    <2>3. o + z = q + 1
      BY <2>2, OnesOfNext, n + 1 - 1 = n
    <2>4. Start[n + 1] = r * (n + 1) + p * (q + 2)
      BY <2>2
    <2>5. Pointers(n + 1) = z + 1
      BY <2>2, PointersAre
    <2>6. Start[n + 1 + 1] = r * (n + 1) + p * (q + 2) + (r + 2 * p) - p * (z + 1)
      BY <1>1, <2>1, <2>4, <2>5
    <2>7. r * (n + 1) + p * (q + 2) + (r + 2 * p) - p * (z + 1) = r * (n + 1 + 1) + p * (o + 2)
      <3>1. q = o + z - 1
        BY <2>3
      <3>2. \A l \in Nat : r * (l + 1) + r = r * (l + 1 + 1)
        OBVIOUS
      <3>3. p * (o + z - 1 + 2) + 2 * p - p * (z + 1) = p * (o + 2)
        OBVIOUS
      <3>4. r * (n + 1) \in Int /\ r * (n + 1 + 1) \in Int /\ p * (q + 2) \in Int
            /\ p * (z + 1) \in Int /\ p * (o + 2) \in Int
        OBVIOUS
      <3>5. p * (q + 2) + 2 * p - p * (z + 1) = p * (o + 2)
        BY <3>1, <3>3
      <3>6. QED BY <3>2, <3>4, <3>5
    <2>8. QED BY <2>2, <2>6, <2>7
  <1>4. P = Nat
    <2> HIDE DEF P
    <2>1. P \in SUBSET Nat
      BY DEF P
    <2>2. QED BY <1>2, <1>3, <2>1, NatInducts
  <1>5. QED BY <1>1, <1>4
(* A block has room for its pointers, and for two more.                    *)
LEMMA PointersFit ==
  \A n \in 0 .. LastIndex + 1 :
    PtrSize * Pointers(n) \in Nat /\ PtrSize * Pointers(n) + 2 * PtrSize <= BlockSize
  <1> SUFFICES ASSUME NEW n \in 0 .. LastIndex + 1
               PROVE  /\ PtrSize * Pointers(n) \in Nat
                      /\ PtrSize * Pointers(n) + 2 * PtrSize <= BlockSize
    OBVIOUS
  <1>1. PICK p \in Nat \ {0} : p = PtrSize
    BY Sizes
  <1>2. PICK x \in Nat : x = Pointers(n)
    BY Sizes, PointersAre
  <1>3. \A x1, y1 \in Nat : p * x1 \in Nat /\ (x1 <= y1 => p * x1 <= p * y1)
    <2>1. \A x1, y1 \in Nat : x1 <= y1 => p * x1 <= p * y1
      BY Division
    <2>2. \A x1 \in Nat : p * x1 \in Int /\ p * 0 = 0
      OBVIOUS
    <2>3. QED BY <2>1, <2>2
  <1>4. CASE n = 0
    <2>1. PICK r \in Nat : BlockSize = r + 2 * p
      BY <1>1, Sizes
    <2>2. x = 0 /\ p * 0 = 0
      BY <1>2, <1>4, PointersAre
    <2>3. p * x = 0
      BY <2>2
    <2>4. QED BY <1>1, <1>2, <2>1, <2>3
  <1>5. CASE n # 0
    <2>1. n - 1 \in 0 .. LastIndex /\ n \in Nat \ {0}
      BY <1>5, Sizes
    <2>2. PICK o \in Nat : o = ones[n - 1] /\ p * (o + 4) <= BlockSize
      <3>1. PICK o \in Nat : o = ones[n - 1]
        BY <2>1, Ones
      <3>2. PtrSize * (ones[n - 1] + 4) <= BlockSize
        BY <2>1, Sizes
      <3>3. p * (o + 4) <= BlockSize
        BY <1>1, <3>1, <3>2
      <3>4. QED BY <3>1, <3>3
    <2>3. x = zeros[n] + 1 /\ ones[n] + zeros[n] = o + 1 /\ ones[n] \in Nat /\ zeros[n] \in Nat
      BY <1>2, <2>1, <2>2, PointersAre, OnesOfNext, Ones, Zeros
    <2>4. x <= o + 2
      BY <2>3
    <2>5. p * x <= p * (o + 2) /\ p * x \in Nat /\ p * (o + 2) \in Nat
      BY <1>3, <2>4
    <2>6. p * (o + 4) = p * (o + 2) + 2 * p
      OBVIOUS
    <2>7. QED BY <1>1, <1>2, <2>2, <2>5, <2>6, Sizes
  <1>6. QED BY <1>4, <1>5
(* So every block holds a byte of the file.                                *)
LEMMA StartsGrow ==
  \A n \in 0 .. LastIndex + 1 : Start[n] + 1 <= Start[n + 1] /\ Start[n] + BlockSize >= Start[n + 1]
  <1> SUFFICES ASSUME NEW n \in 0 .. LastIndex + 1
               PROVE  Start[n] + 1 <= Start[n + 1] /\ Start[n] + BlockSize >= Start[n + 1]
    OBVIOUS
  <1>1. n \in Nat
    OBVIOUS
  <1>2. PICK x \in Nat : x = PtrSize * Pointers(n)
    BY PointersFit
  <1>3. x + 2 * PtrSize <= BlockSize
    BY <1>2, PointersFit
  <1>4. Start[n + 1] = Start[n] + BlockSize - x /\ Start[n] \in Int
    BY <1>1, <1>2, Starts
  <1>5. QED BY <1>3, <1>4, Sizes
(* And the blocks follow one another.                                      *)
LEMMA StartsInOrder ==
  \A n \in 0 .. LastIndex + 2 : \A m \in 0 .. n : Start[m] <= Start[n]
  <1> DEFINE P == {n \in Nat : n <= LastIndex + 2 => \A m \in 0 .. n : Start[m] <= Start[n]}
  <1>1. 0 \in P
    BY Starts
  <1>2. ASSUME NEW n \in P PROVE n + 1 \in P
    <2>1. SUFFICES ASSUME n + 1 <= LastIndex + 2, NEW m \in 0 .. n + 1
                   PROVE  Start[m] <= Start[n + 1]
      OBVIOUS
    <2>2. m \in Nat /\ n \in 0 .. LastIndex + 1
      BY <2>1, Sizes
    <2>3. Start[n] <= Start[n + 1] /\ Start[n] \in Int /\ Start[n + 1] \in Int /\ Start[m] \in Int
      BY <2>2, StartsGrow, Starts
    <2>4. CASE m = n + 1
      BY <2>3, <2>4
    <2>5. CASE m # n + 1
      <3>1. Start[m] <= Start[n]
        BY <2>2, <2>5, Sizes
      <3>2. QED BY <2>3, <3>1
    <2>6. QED BY <2>4, <2>5
  <1>3. P = Nat
    <2> HIDE DEF P
    <2>1. P \in SUBSET Nat
      BY DEF P
    <2>2. QED BY <1>1, <1>2, <2>1, NatInducts
  <1>4. QED BY <1>3, Sizes
\* Byte n of a file is in block m.
In(n, m) == Start[m] <= n /\ n < Start[m + 1]
(* A byte is not in a block beyond the last ...                            *)
LEMMA BlockIsReached ==
  \A n \in 0 .. MaxSize, m \in Nat :
    Start[m] <= n => m \in 0 .. n /\ m \in 0 .. LastIndex /\ Room * m <= n
  <1> SUFFICES ASSUME NEW n \in 0 .. MaxSize, NEW m \in Nat, Start[m] <= n
               PROVE  m \in 0 .. n /\ m \in 0 .. LastIndex /\ Room * m <= n
    OBVIOUS
  <1>1. PICK r \in Nat \ {0} : r = Room
    BY Sizes
  <1>2. r * m <= n
    <2>1. CASE m = 0
      <3>1. r * 0 = 0
        OBVIOUS
      <3>2. QED BY <2>1, <3>1
    <2>2. CASE m # 0
      <3>1. m - 1 \in Nat /\ m - 1 + 1 = m
        BY <2>2
      <3>2. Start[m] = r * m + PtrSize * (ones[m - 1] + 2) /\ ones[m - 1] \in Nat
        BY <1>1, <3>1, StartIs, Ones
      <3>3. PtrSize * (ones[m - 1] + 2) >= 0 /\ PtrSize * (ones[m - 1] + 2) \in Int
        <4>1. \A x \in Nat \ {0}, y \in Nat : x * (y + 2) \in Int /\ (x * 0 <= x * (y + 2))
          BY Division
        <4>2. \A x \in Nat : x * 0 = 0
          OBVIOUS
        <4>3. QED BY <3>2, <4>1, <4>2, Sizes
      <3>4. r * m \in Int
        OBVIOUS
      <3>5. QED BY <3>2, <3>3, <3>4
    <2>3. QED BY <2>1, <2>2
  <1>3. m <= n
    <2>1. 0 <= (r - 1) * m
      <3>1. \A x, y \in Nat : 0 <= x * y
        <4>1. \A x \in Nat \ {0}, y \in Nat : x * 0 <= x * y /\ x * 0 = 0 /\ 0 * y = 0
          BY Division
        <4>2. QED BY <4>1
      <3>2. QED BY <3>1
    <2>2. (r - 1) * m = r * m - m /\ r * m \in Int
      OBVIOUS
    <2>3. QED BY <1>2, <2>1, <2>2
  <1>4. m <= LastIndex
    <2>1. PICK q \in Int : q = LastIndex
      BY Sizes
    <2>2. PICK s \in 0 .. r - 1 : MaxSize = r * q + s
      <3>1. PICK x \in Int : x = MaxSize
        BY Sizes
      <3>2. q = x \div r
        BY <1>1, <2>1, <3>1 DEF LastIndex
      <3>3. x % r \in 0 .. r - 1 /\ x = r * (x \div r) + (x % r)
        BY Division
      <3>4. QED BY <3>1, <3>2, <3>3
    <2>3. ASSUME q + 1 <= m PROVE FALSE
      <3>1. r * (q + 1) <= r * m
        BY <2>3, Division
      <3>2. r * (q + 1) = r * q + r /\ r * q \in Int /\ r * m \in Int
        OBVIOUS
      <3>3. QED BY <1>2, <2>2, <3>1, <3>2, Sizes
    <2>4. QED BY <2>1, <2>3
  <1>5. QED BY <1>1, <1>2, <1>3, <1>4
(* ... it is in some block ...                                             *)
LEMMA IsInBlock ==
  \A n \in 0 .. MaxSize : \E m \in 0 .. n : In(n, m)
  <1> SUFFICES ASSUME NEW n \in 0 .. MaxSize PROVE \E m \in 0 .. n : In(n, m)
    OBVIOUS
  <1> DEFINE T == {m \in Nat : n < Start[m]}
  <1>1. n + 1 \in T
    <2>1. n + 1 \in Nat
      OBVIOUS
    <2>2. Start[n + 1] \in Int
      BY <2>1, Starts
    <2>3. ~ (Start[n + 1] <= n)
      BY <2>1, BlockIsReached
    <2>4. QED BY <2>1, <2>2, <2>3
  <1>2. PICK m \in T : \A y \in T : m <= y
    <2>1. T \in SUBSET Nat /\ T # {}
      BY <1>1
    <2>2. QED BY <2>1, NatHasLeast
  <1>3. m # 0 /\ m \in Nat
    BY Starts
  <1>4. m - 1 \in Nat /\ m - 1 \notin T /\ m - 1 + 1 = m
    BY <1>2, <1>3
  <1>5. Start[m - 1] \in Int
    BY <1>4, Starts
  <1>6. Start[m - 1] <= n
    BY <1>4, <1>5
  <1>7. In(n, m - 1)
    BY <1>4, <1>6 DEF In
  <1>8. m - 1 \in 0 .. n
    BY <1>4, <1>6, BlockIsReached
  <1>9. QED BY <1>7, <1>8
(* ... and in no other: the reference definition is one.                   *)
LEMMA IndexOfIs ==
  \A n \in 0 .. MaxSize, m \in Nat : In(n, m) => IndexOf(n) = m
  <1> SUFFICES ASSUME NEW n \in 0 .. MaxSize, NEW m \in Nat, In(n, m) PROVE IndexOf(n) = m
    OBVIOUS
  <1>1. m \in 0 .. n /\ m \in 0 .. LastIndex
    BY BlockIsReached DEF In
  <1>2. ASSUME NEW l \in 0 .. n, In(n, l) PROVE l = m
    <2>1. l \in 0 .. LastIndex
      BY <1>2, BlockIsReached DEF In
    <2>2. /\ Start[l] \in Int /\ Start[m] \in Int /\ Start[l + 1] \in Int /\ Start[m + 1] \in Int
      BY Starts
    <2>3. ASSUME l < m PROVE FALSE
      <3>1. Start[l + 1] <= Start[m]
        BY <1>1, <2>1, <2>3, StartsInOrder, Sizes
      <3>2. QED BY <1>2, <2>2, <3>1 DEF In
    <2>4. ASSUME m < l PROVE FALSE
      <3>1. Start[m + 1] <= Start[l]
        BY <1>1, <2>1, <2>4, StartsInOrder, Sizes
      <3>2. QED BY <1>2, <2>2, <3>1 DEF In
    <2>5. QED BY <2>3, <2>4
  <1>3. IndexOf(n) = CHOOSE l \in 0 .. n : In(n, l)
    BY DEF IndexOf, In
  <1>4. QED BY <1>1, <1>2, <1>3
(* The quotient lfs_ctz_index takes first is the block or the one after it. *)
LEMMA FirstGuess ==
  \A n \in 0 .. MaxSize, m \in Nat :
    In(n, m) => n \div Room \in m .. m + 1 /\ (n \div Room = 0 => n < Room)
                /\ (n \div Room = m => n < Room * (m + 1))
                /\ (n \div Room = m + 1 => n >= Room * (m + 1))
  <1> SUFFICES ASSUME NEW n \in 0 .. MaxSize, NEW m \in Nat, In(n, m)
               PROVE  /\ n \div Room \in m .. m + 1
                      /\ n \div Room = 0 => n < Room
                      /\ n \div Room = m => n < Room * (m + 1)
                      /\ n \div Room = m + 1 => n >= Room * (m + 1)
    OBVIOUS
  <1>1. PICK r \in Nat \ {0} : r = Room
    BY Sizes
  <1>2. PICK q \in Int : q = n \div r
    <2>1. n \in Int
      OBVIOUS
    <2>2. QED BY <2>1, Division
  <1>3. PICK s \in 0 .. r - 1 : n = r * q + s
    <2>1. n \in Int
      OBVIOUS
    <2>2. n % r \in 0 .. r - 1 /\ n = r * (n \div r) + (n % r)
      BY <2>1, Division
    <2>3. QED BY <1>2, <2>2
  <1>4. m \in 0 .. LastIndex /\ r * m <= n
    BY <1>1, BlockIsReached DEF In
  <1>5. n < r * (m + 1 + 1)
    <2>1. Start[m + 1] = r * (m + 1) + PtrSize * (ones[m] + 2)
      BY <1>1, StartIs
    <2>2. PtrSize * (ones[m] + 4) <= BlockSize
      BY <1>4, Sizes
    <2>3. PICK p \in Nat, o \in Nat : p = PtrSize /\ o = ones[m] /\ BlockSize = r + 2 * p
      BY <1>1, Sizes, Ones
    <2>4. p * (o + 4) = p * (o + 2) + 2 * p /\ p * (o + 2) \in Int
      OBVIOUS
    <2>5. p * (o + 2) <= r
      BY <2>2, <2>3, <2>4
    <2>6. n < r * (m + 1) + p * (o + 2)
      BY <2>1, <2>3 DEF In
    <2>7. r * (m + 1 + 1) = r * (m + 1) + r /\ r * (m + 1) \in Int
      OBVIOUS
    <2>8. QED BY <2>4, <2>5, <2>6, <2>7
  <1>6. \A x, y \in Int : x + 1 <= y => r * x + r <= r * y
    <2>1. SUFFICES ASSUME NEW x \in Int, NEW y \in Int, x + 1 <= y PROVE r * x + r <= r * y
      OBVIOUS
    <2>2. r * (x + 1) <= r * y /\ r * (x + 1) = r * x + r
      BY <2>1, Division
    <2>3. QED BY <2>2
  <1>7. r * q \in Int /\ r * m \in Int /\ r * (m + 1) \in Int /\ r * (m + 1 + 1) \in Int
    OBVIOUS
  <1>8. m <= q
    <2>1. ASSUME q + 1 <= m PROVE FALSE
      BY <1>3, <1>4, <1>6, <1>7, <2>1
    <2>2. QED BY <2>1
  <1>9. q <= m + 1
    <2>1. ASSUME m + 1 + 1 <= q PROVE FALSE
      <3>1. r * (m + 1 + 1) <= r * q
        BY <2>1, Division
      <3>2. QED BY <1>3, <1>5, <1>7, <3>1
    <2>2. QED BY <2>1
  <1>10. r * (m + 1) = r * m + r
    OBVIOUS
  <1>11. q = m => n < r * (m + 1)
    BY <1>3, <1>7, <1>10
  <1>12. q = m + 1 => n >= r * (m + 1)
    BY <1>3, <1>7
  <1>13. q = 0 => n < r
    <2>1. r * 0 = 0
      OBVIOUS
    <2>2. QED BY <1>3, <2>1
  <1>14. QED BY <1>1, <1>2, <1>8, <1>9, <1>11, <1>12, <1>13
(* Where a byte is in the block it is in.                                  *)
PlaceOf(n, m) == [index |-> m, off |-> n - Start[m] + PtrSize * Pointers(m)]
(* lfs_ctz_index finds the block of every byte, and its place in the block. *)
LEMMA IndexIs ==
  \A n \in 0 .. MaxSize, m \in Nat : In(n, m) => lfs_ctz_index(n) = PlaceOf(n, m)
  <1> SUFFICES ASSUME NEW n \in 0 .. MaxSize, NEW m \in Nat, In(n, m)
               PROVE  lfs_ctz_index(n) = PlaceOf(n, m)
    OBVIOUS
  <1>1. PICK p \in Nat \ {0}, r \in Nat \ {0} : p = PtrSize /\ r = Room /\ BlockSize = r + 2 * p
    BY Sizes
  <1>2. PICK q \in Nat : q = n \div r /\ q \in m .. m + 1
    BY <1>1, FirstGuess
  <1>3. m \in 0 .. LastIndex /\ r * m <= n /\ n \in Int
    BY <1>1, BlockIsReached DEF In
  <1> DEFINE l == (n - p * (lfs_popc(q - 1) + 2)) \div r
  <1>4. lfs_ctz_index(n) = IF q = 0 THEN [index |-> 0, off |-> n]
                           ELSE [index |-> l, off |-> n - (r * l) - p * lfs_popc(l)]
    BY <1>1, <1>2 DEF lfs_ctz_index, Room
  <1> HIDE DEF l
  <1>5. CASE q = 0
    <2>1. m = 0
      BY <1>2, <1>5
    <2>2. p * 0 = 0
      OBVIOUS
    <2>3. n - Start[m] + PtrSize * Pointers(m) = n
      BY <1>1, <1>3, <2>1, <2>2, Starts, PointersAre
    <2>4. QED BY <1>4, <1>5, <2>1, <2>3 DEF PlaceOf
  <1>6. CASE q # 0
    <2>1. PICK o \in Nat : o = ones[q - 1]
      <3>1. q - 1 \in Nat
        BY <1>6
      <3>2. QED BY <3>1, Ones
    <2>2. PICK x \in Int : x = n - p * (o + 2)
      OBVIOUS
    <2>3. l = x \div r
      BY <2>1, <2>2 DEF l, lfs_popc
    <2>4. r * m <= x /\ x < r * m + r
      <3>1. p * (o + 2) \in Nat /\ r * m \in Int /\ r * (m + 1) = r * m + r
        <4>1. p * 0 <= p * (o + 2) /\ p * 0 = 0 /\ p * (o + 2) \in Int
          BY Division
        <4>2. QED BY <4>1
      <3>2. CASE q = m
        <4>1. Start[m] = r * m + p * (o + 2)
          <5>1. m - 1 \in Nat /\ m - 1 + 1 = m /\ o = ones[m - 1]
            BY <1>6, <2>1, <3>2
          <5>2. QED BY <1>1, <5>1, StartIs
        <4>2. n < r * (m + 1)
          BY <1>1, <1>2, <3>2, FirstGuess
        <4>3. Start[m] <= n
          BY DEF In
        <4>4. QED BY <1>3, <2>2, <3>1, <4>1, <4>2, <4>3
      <3>3. CASE q = m + 1
        <4>1. o = ones[m]
          BY <2>1, <3>3, m + 1 - 1 = m
        <4>2. Start[m + 1] = r * (m + 1) + p * (o + 2)
          BY <1>1, <4>1, StartIs
        <4>3. n < Start[m + 1]
          BY DEF In
        <4>4. n >= r * (m + 1)
          BY <1>1, <1>2, <3>3, FirstGuess
        <4>5. p * (o + 2) <= r
          <5>1. PtrSize * (ones[m] + 4) <= BlockSize
            BY <1>3, Sizes
          <5>2. p * (o + 4) <= r + 2 * p
            BY <1>1, <4>1, <5>1
          <5>3. p * (o + 4) = p * (o + 2) + 2 * p
            OBVIOUS
          <5>4. QED BY <3>1, <5>2, <5>3
        <4>6. QED BY <1>3, <2>2, <3>1, <4>2, <4>3, <4>4, <4>5
      <3>4. QED BY <1>2, <3>2, <3>3
    <2>5. l = m
      <3>1. PICK s \in 0 .. r - 1 : s = x - r * m
        <4>1. r * m \in Int
          OBVIOUS
        <4>2. QED BY <2>4, <4>1
      <3>2. x = r * m + s
        <4>1. r * m \in Int
          OBVIOUS
        <4>2. QED BY <3>1, <4>1
      <3>3. QED BY <2>3, <3>2, OneQuotient
    <2>6. n - (r * m) - p * ones[m] = n - Start[m] + PtrSize * Pointers(m)
      <3>1. CASE m = 0
        <4>1. r * 0 = 0 /\ p * 0 = 0
          OBVIOUS
        <4>2. ones[m] = 0 /\ Start[m] = 0 /\ Pointers(m) = 0
          BY <3>1, Ones, Starts, PointersAre
        <4>3. QED BY <1>1, <1>3, <3>1, <4>1, <4>2
      <3>2. CASE m # 0
        <4>1. m - 1 \in Nat /\ m - 1 + 1 = m /\ m \in Nat \ {0}
          BY <3>2
        <4>2. PICK y \in Nat, z \in Nat, w \in Nat : y = ones[m - 1] /\ z = zeros[m] /\ w = ones[m]
          BY <4>1, Ones, Zeros
        <4>3. Start[m] = r * m + p * (y + 2)
          BY <1>1, <4>1, <4>2, StartIs
        <4>4. Pointers(m) = z + 1 /\ w = y + 1 - z
          BY <4>1, <4>2, PointersAre, OnesOfNext
        <4>5. p * (y + 1 - z) = p * (y + 2) - p * (z + 1)
          OBVIOUS
        <4>6. r * m \in Int /\ p * (y + 2) \in Int /\ p * (z + 1) \in Int
          OBVIOUS
        <4>7. p * w = p * (y + 2) - p * (z + 1)
          BY <4>4, <4>5
        <4>8. n - r * m - p * w = n - (r * m + p * (y + 2)) + p * (z + 1)
          BY <1>3, <4>6, <4>7
        <4>9. QED BY <1>1, <4>2, <4>3, <4>4, <4>8
      <3>3. QED BY <3>1, <3>2
    <2>7. QED BY <1>4, <1>6, <2>5, <2>6 DEF PlaceOf, lfs_popc
  <1>7. QED BY <1>5, <1>6

(* The same of the reference: lfs_ctz_index is right for every byte of     *)
(* every file (lfs.c:2639-2651).                                           *)
THEOREM IndexRight ==
  \A n \in 0 .. MaxSize :
    /\ Start[IndexOf(n)] <= n /\ n < Start[IndexOf(n) + 1]
    /\ lfs_ctz_index(n) = [index |-> IndexOf(n),
                           off |-> n - Start[IndexOf(n)] + PtrSize * Pointers(IndexOf(n))]
  <1> SUFFICES ASSUME NEW n \in 0 .. MaxSize
               PROVE  In(n, IndexOf(n)) /\ lfs_ctz_index(n) = PlaceOf(n, IndexOf(n))
    BY DEF In, PlaceOf
  <1>1. PICK m \in Nat : In(n, m)
    BY IsInBlock
  <1>2. IndexOf(n) = m
    BY <1>1, IndexOfIs
  <1>3. QED BY <1>1, <1>2, IndexIs

-----------------------------------------------------------------------------
(* The powers of two grow.                                                 *)
LEMMA TwosGrow ==
  \A n \in Nat : \A k \in 0 .. n : two[k] <= two[n]
  <1> DEFINE P == {n \in Nat : \A k \in 0 .. n : two[k] <= two[n]}
  <1>1. 0 \in P
    BY Twos
  <1>2. ASSUME NEW n \in P PROVE n + 1 \in P
    <2>1. SUFFICES ASSUME NEW k \in 0 .. n + 1 PROVE two[k] <= two[n + 1]
      OBVIOUS
    <2>2. two[n + 1] = 2 * two[n]
      BY Twos, n + 1 # 0, n + 1 - 1 = n
    <2>3. two[n] \in Nat /\ two[k] \in Nat
      BY Twos
    <2>4. CASE k = n + 1
      BY <2>2, <2>3, <2>4
    <2>5. CASE k # n + 1
      <3>1. two[k] <= two[n]
        BY <2>5
      <3>2. QED BY <2>2, <2>3, <3>1
    <2>6. QED BY <2>4, <2>5
  <1>3. P = Nat
    <2> HIDE DEF P
    <2>1. P \in SUBSET Nat
      BY DEF P
    <2>2. QED BY <1>1, <1>2, <2>1, NatInducts
  <1>4. QED BY <1>3

(* A round of lfs_ctz_find goes to a block that it has a pointer to, and   *)
(* not beyond the one it looks for.                                        *)
LEMMA SkipIsNear ==
  \A c, t \in Nat : t < c => Skip(c, t) \in 0 .. zeros[c] /\ c - two[Skip(c, t)] \in t .. c - 1
  <1> SUFFICES ASSUME NEW c \in Nat, NEW t \in Nat, t < c
               PROVE  Skip(c, t) \in 0 .. zeros[c] /\ c - two[Skip(c, t)] \in t .. c - 1
    OBVIOUS
  <1>1. PICK e \in Nat \ {0} : e = c - t /\ c - t + 1 - 1 = e
    OBVIOUS
  <1>2. PICK x \in Nat : x = digits[e] - 1 /\ two[x] <= e
    <2>1. digits[e] \in Nat \ {0} /\ two[digits[e] - 1] <= e
      BY Digits, FirstDigit
    <2>2. QED BY <2>1
  <1>3. PICK z \in Nat : z = zeros[c]
    BY Zeros
  <1>4. Skip(c, t) = IF x < z THEN x ELSE z
    BY <1>1, <1>2, <1>3 DEF Skip, lfs_min, lfs_npw2, lfs_ctz
  <1>5. PICK s \in Nat : s = Skip(c, t) /\ s <= x /\ s <= z
    BY <1>4
  <1>6. two[s] <= two[x] /\ two[s] \in Nat \ {0} /\ two[x] \in Nat
    BY <1>5, Twos, TwosGrow
  <1>7. two[s] <= e
    BY <1>2, <1>6
  <1>8. c - two[s] \in t .. c - 1
    BY <1>1, <1>6, <1>7
  <1>9. QED BY <1>3, <1>5, <1>8

\* The pointers of the blocks u of a file lead to the blocks that they are for.
Linked(dev, u) ==
  \A m \in 1 .. Len(u) - 1 : \A k \in 0 .. zeros[m] : Pointer(dev, u[m + 1], k) = u[m - two[k] + 1]

\* f is the function that Walk defines.
IsWalk(f, dev, top, last, target) ==
  f = [k \in Nat |-> IF k = 0 THEN [current |-> last, head |-> top] ELSE Nearer(dev, f[k - 1], target)]

(* lfs_ctz_find comes to the block it looks for.                           *)
LEMMA WalkArrives ==
  ASSUME NEW dev, NEW u, NEW last \in Nat, NEW t \in 0 .. last,
         last + 1 = Len(u), Linked(dev, u)
  PROVE  Walk(dev, u[last + 1], t)[last].head = u[t + 1]
  <1> DEFINE S == t .. last
             top == u[last + 1]
             h == [n \in Nat |-> IF n = 0 THEN 0 ELSE n - 1]
             g == [p \in Nat \X S |-> IF p[2] <= t THEN p[2] ELSE p[2] - two[Skip(p[2], t)]]
  <1>1. t \in Nat /\ S \in SUBSET Nat
    OBVIOUS
  <1>2. Recursive(S, last, h, g)
    <2>1. ASSUME NEW c \in S, ~ (c <= t) PROVE c - two[Skip(c, t)] \in S
      <3>1. c \in Nat /\ t < c /\ c <= last
        BY <1>1, <2>1
      <3>2. c - two[Skip(c, t)] \in t .. c - 1
        BY <1>1, <3>1, SkipIsNear
      <3>3. QED BY <3>1, <3>2
    <2>2. \A p \in Nat \X S : p[2] \in S
      OBVIOUS
    <2>3. g \in [Nat \X S -> S]
      <3> HIDE DEF S
      <3>1. QED BY <2>1, <2>2
    <2>4. h \in [Nat -> Nat] /\ \A n \in Nat \ {0} : h[n] < n
      OBVIOUS
    <2>5. last \in S
      OBVIOUS
    <2>6. QED BY <2>3, <2>4, <2>5 DEF Recursive
  <1>3. PICK cur \in [Nat -> S] : \A n \in Nat : cur[n] = IF n = 0 THEN last ELSE g[<<n, cur[h[n]]>>]
    <2> HIDE DEF h, g, S
    <2>1. QED BY <1>2, Recursion
  <1>4. cur[0] = last
    BY <1>3
  <1>5. ASSUME NEW n \in Nat \ {0}
        PROVE  cur[n] = IF cur[n - 1] <= t THEN cur[n - 1] ELSE cur[n - 1] - two[Skip(cur[n - 1], t)]
    <2>1. h[n] = n - 1 /\ n - 1 \in Nat
      OBVIOUS
    <2>2. <<n, cur[n - 1]>> \in Nat \X S
      BY <2>1
    <2>3. cur[n] = g[<<n, cur[n - 1]>>]
      BY <1>3, <2>1
    <2>4. QED BY <2>2, <2>3
  <1> HIDE DEF h, g
  <1> DEFINE at(c) == [current |-> c, head |-> u[c + 1]]
             w == [n \in Nat |-> at(cur[n])]
  <1>6. IsWalk(w, dev, top, last, t)
    <2>1. w[0] = [current |-> last, head |-> top]
      BY <1>4
    <2>2. ASSUME NEW n \in Nat \ {0} PROVE w[n] = Nearer(dev, w[n - 1], t)
      <3>1. PICK c \in S : c = cur[n - 1]
        OBVIOUS
      <3>2. n - 1 \in Nat /\ w[n - 1] = at(c)
        <4> HIDE DEF at
        <4>1. QED BY <3>1
      <3>3. CASE c <= t
        <4>1. cur[n] = c
          BY <1>5, <3>1, <3>3
        <4>2. Nearer(dev, w[n - 1], t) = w[n - 1]
          BY <3>2, <3>3 DEF Nearer
        <4>3. QED BY <3>2, <4>1, <4>2
      <3>4. CASE ~ (c <= t)
        <4>1. c \in Nat /\ t < c /\ c \in 1 .. Len(u) - 1
          BY <1>1, <3>4
        <4>2. PICK k \in 0 .. zeros[c] : k = Skip(c, t)
          BY <1>1, <4>1, SkipIsNear
        <4>3. cur[n] = c - two[k]
          BY <1>5, <3>1, <3>4, <4>2
        <4>4. Pointer(dev, u[c + 1], k) = u[c - two[k] + 1]
          BY <4>1 DEF Linked
        <4>5. Nearer(dev, w[n - 1], t) = [current |-> c - two[k], head |-> Pointer(dev, u[c + 1], k)]
          <5> DEFINE v == [current |-> c, head |-> u[c + 1]]
          <5>1. Nearer(dev, v, t) = [current |-> c - two[k], head |-> Pointer(dev, v.head, k)]
            <6>1. v.current = c
              OBVIOUS
            <6> HIDE DEF v
            <6>2. QED BY <3>4, <4>2, <6>1 DEF Nearer
          <5>2. v.head = u[c + 1]
            OBVIOUS
          <5>3. QED BY <3>2, <5>1, <5>2
        <4>6. QED BY <4>3, <4>4, <4>5
      <3>5. QED BY <3>3, <3>4
    <2> HIDE DEF w
    <2>3. w = [n \in Nat |-> w[n]]
      BY DEF w
    <2>4. QED BY <2>1, <2>2, <2>3 DEF IsWalk
  <1> DEFINE f == CHOOSE x : IsWalk(x, dev, top, last, t)
  <1>7. IsWalk(f, dev, top, last, t)
    BY <1>6
  <1>8. Walk(dev, top, t)[last] = f[last]
    BY <1>1, Zenon DEF Walk, IsWalk
  <1> HIDE DEF f
  <1>9. \A n \in Nat : f[n] = w[n]
    <2> DEFINE P == {n \in Nat : f[n] = w[n]}
    <2>1. 0 \in P
      <3> HIDE DEF w
      <3>1. f[0] = w[0]
        BY <1>6, <1>7 DEF IsWalk
      <3>2. QED BY <3>1
    <2>2. ASSUME NEW n \in P PROVE n + 1 \in P
      <3> HIDE DEF w
      <3>0. n \in Nat /\ f[n] = w[n]
        OBVIOUS
      <3>1. PICK m \in Nat : m = n + 1 /\ m # 0 /\ m - 1 = n
        BY <3>0
      <3>2. \A k \in Nat : /\ f[k] = IF k = 0 THEN [current |-> last, head |-> top] ELSE Nearer(dev, f[k - 1], t)
                           /\ w[k] = IF k = 0 THEN [current |-> last, head |-> top] ELSE Nearer(dev, w[k - 1], t)
        BY <1>6, <1>7 DEF IsWalk
      <3>3. f[m] = Nearer(dev, f[n], t) /\ w[m] = Nearer(dev, w[n], t)
        BY <3>1, <3>2
      <3>4. f[n + 1] = w[n + 1]
        BY <3>0, <3>1, <3>3
      <3>5. QED BY <3>1, <3>4
    <2>3. P = Nat
      <3> HIDE DEF P
      <3>1. P \in SUBSET Nat
        BY DEF P
      <3>2. QED BY <2>1, <2>2, <3>1, NatInducts
    <2>4. QED BY <2>3
  <1>10. \A n \in Nat : cur[n] = t \/ cur[n] + n <= last
    <2> DEFINE P == {n \in Nat : cur[n] = t \/ cur[n] + n <= last}
    <2>1. 0 \in P
      BY <1>4
    <2>2. ASSUME NEW n \in P PROVE n + 1 \in P
      <3>0. n + 1 \in Nat \ {0} /\ n + 1 - 1 = n /\ n \in Nat
        OBVIOUS
      <3>1. PICK c \in S : c = cur[n] /\ (c = t \/ c + n <= last)
        OBVIOUS
      <3>2. cur[n + 1] = IF c <= t THEN c ELSE c - two[Skip(c, t)]
        <4>1. PICK m \in Nat \ {0} : m = n + 1 /\ m - 1 = n
          BY <3>0
        <4>2. QED BY <1>5, <3>1, <4>1
      <3>3. CASE c <= t
        BY <3>2, <3>3
      <3>4. CASE ~ (c <= t)
        <4>1. c \in Nat /\ t < c
          BY <1>1, <3>4
        <4>2. PICK e \in t .. c - 1 : e = c - two[Skip(c, t)]
          BY <1>1, <4>1, SkipIsNear
        <4>3. c + n <= last
          BY <3>1, <3>4, <4>1
        <4>4. e \in Int /\ e <= c - 1
          BY <4>1
        <4>5. e + (n + 1) <= last
          BY <3>0, <4>1, <4>3, <4>4
        <4>6. QED BY <3>0, <3>2, <3>4, <4>2, <4>5
      <3>5. QED BY <3>3, <3>4
    <2>3. P = Nat
      <3> HIDE DEF P
      <3>1. P \in SUBSET Nat
        BY DEF P
      <3>2. QED BY <2>1, <2>2, <3>1, NatInducts
    <2>4. QED BY <2>3
  <1>11. cur[last] = t
    <2>1. cur[last] \in S /\ (cur[last] = t \/ cur[last] + last <= last)
      BY <1>10
    <2>2. QED BY <2>1
  <1>12. w[last] = at(t)
    <2> HIDE DEF at
    <2>1. QED BY <1>11
  <1>13. f[last] = at(t)
    BY <1>9, <1>12
  <1>14. QED BY <1>8, <1>13

(* A byte of a pointer belongs to that pointer.                            *)
LEMMA PlaceOfPointer ==
  \A z \in Nat : \A k \in 1 .. PtrSize * (z + 1) : (k - 1) \div PtrSize \in 0 .. z
  <1> SUFFICES ASSUME NEW z \in Nat, NEW k \in 1 .. PtrSize * (z + 1)
               PROVE  (k - 1) \div PtrSize \in 0 .. z
    OBVIOUS
  <1>1. PICK p \in Nat \ {0} : p = PtrSize
    BY Sizes
  <1>2. p * (z + 1) \in Int
    OBVIOUS
  <1>3. PICK x \in Nat : x = k - 1 /\ x < p * (z + 1)
    BY <1>1, <1>2
  <1>4. PICK q \in Int : q = x \div p
    <2>1. x \in Int
      OBVIOUS
    <2>2. QED BY <2>1, Division
  <1>5. PICK r \in 0 .. p - 1 : x = p * q + r
    <2>1. x \in Int
      OBVIOUS
    <2>2. QED BY <1>4, <2>1, Division
  <1>6. p * q \in Int
    OBVIOUS
  <1>7. ASSUME z + 1 <= q PROVE FALSE
    <2>1. p * (z + 1) <= p * q
      BY <1>7, Division
    <2>2. QED BY <1>2, <1>3, <1>5, <1>6, <2>1
  <1>8. ASSUME q <= -1 PROVE FALSE
    <2>1. p * q <= p * (-1)
      BY <1>8, Division
    <2>2. p * (-1) = -p
      OBVIOUS
    <2>3. QED BY <1>3, <1>5, <1>6, <2>1, <2>2
  <1>9. QED BY <1>1, <1>3, <1>4, <1>7, <1>8

\* f is the function that Reports defines.
IsReports(f, dev, top, last) ==
  f = [k \in Nat |-> IF k = 0 THEN [index |-> last, head |-> top, told |-> {top}]
                     ELSE Reported(dev, f[k - 1])]

(* A round of lfs_ctz_traverse reports the blocks that it goes back by.    *)
LEMMA CountIs ==
  \A c \in Nat \ {0} : /\ Count(c) \in 1 .. 2 /\ c - Count(c) \in 0 .. c - 1
                       /\ Count(c) = 2 => zeros[c] >= 1
  <1> SUFFICES ASSUME NEW c \in Nat \ {0}
               PROVE  /\ Count(c) \in 1 .. 2 /\ c - Count(c) \in 0 .. c - 1
                      /\ Count(c) = 2 => zeros[c] >= 1
    OBVIOUS
  <1>1. PICK r \in 0 .. 1, q \in Nat : r = c % 2 /\ q = c \div 2 /\ c = 2 * q + r
    BY Halves
  <1>2. Count(c) = 2 - r
    BY <1>1 DEF Count
  <1>3. Count(c) = 2 => zeros[c] >= 1
    <2>1. SUFFICES ASSUME r = 0 PROVE zeros[c] >= 1
      BY <1>1, <1>2
    <2>2. zeros[c] = 1 + zeros[q] /\ zeros[q] \in Nat
      BY <1>1, <2>1, Zeros
    <2>3. QED BY <2>2
  <1>4. QED BY <1>1, <1>2, <1>3

\* The blocks u from the m-th on, and the first n that the block h points to.
Among(u, m) == {u[k] : k \in m .. Len(u)}
PointedAt(dev, h, n) == {Pointer(dev, h, k) : k \in 0 .. n - 1}

(* Its pointers lead to those blocks.                                      *)
LEMMA HeadsAre ==
  ASSUME NEW dev, NEW u, Len(u) \in Nat, Linked(dev, u), NEW c \in 1 .. Len(u) - 1
  PROVE  /\ Pointer(dev, u[c + 1], Count(c) - 1) = u[c - Count(c) + 1]
         /\ Among(u, c + 1) \cup PointedAt(dev, u[c + 1], Count(c)) = Among(u, c - Count(c) + 1)
  <1> DEFINE p(k) == Pointer(dev, u[c + 1], k)
  <1>1. c \in Nat \ {0} /\ c <= Len(u) - 1
    OBVIOUS
  <1>2. PICK z \in Nat : z = zeros[c]
    BY <1>1, Zeros
  <1>3. p(0) = u[c]
    <2>1. p(0) = u[c - two[0] + 1]
      BY <1>2 DEF Linked
    <2>2. c - two[0] + 1 = c
      BY <1>1, Twos
    <2>3. QED BY <2>1, <2>2
  <1>4. ASSUME Count(c) = 2 PROVE p(1) = u[c - 1] /\ c - 1 >= 1
    <2>1. 1 \in 0 .. zeros[c] /\ c - 2 \in Nat
      BY <1>1, <1>2, <1>4, CountIs
    <2>2. p(1) = u[c - two[1] + 1]
      BY <2>1 DEF Linked
    <2>3. two[1] = 2
      BY Twos, 1 - 1 = 0
    <2>4. c - two[1] + 1 = c - 1
      BY <1>1, <2>3
    <2>5. QED BY <1>1, <2>1, <2>2, <2>4
  <1> HIDE DEF p
  <1>5. CASE Count(c) = 1
    <2>1. PointedAt(dev, u[c + 1], Count(c)) = {u[c]}
      <3>1. 0 .. Count(c) - 1 = {0}
        BY <1>5
      <3>2. QED BY <1>3, <3>1 DEF PointedAt, p
    <2>2. Among(u, c) = Among(u, c + 1) \cup {u[c]}
      BY <1>1 DEF Among
    <2>3. c - Count(c) + 1 = c /\ Count(c) - 1 = 0
      BY <1>1, <1>5
    <2>4. QED BY <1>3, <2>1, <2>2, <2>3 DEF p
  <1>6. CASE Count(c) = 2
    <2>1. PointedAt(dev, u[c + 1], Count(c)) = {u[c], u[c - 1]}
      <3>1. 0 .. Count(c) - 1 = {0, 1}
        BY <1>6
      <3>2. QED BY <1>3, <1>4, <1>6, <3>1 DEF PointedAt, p
    <2>2. Among(u, c - 1) = Among(u, c + 1) \cup {u[c], u[c - 1]}
      <3>1. c - 1 .. Len(u) = (c + 1 .. Len(u)) \cup {c, c - 1}
        BY <1>1
      <3>2. QED BY <3>1 DEF Among
    <2>3. c - Count(c) + 1 = c - 1 /\ Count(c) - 1 = 1
      BY <1>1, <1>6
    <2>4. QED BY <1>4, <1>6, <2>1, <2>2, <2>3 DEF p
  <1>7. QED BY <1>1, <1>5, <1>6, CountIs

(* lfs_ctz_traverse reports the blocks of the file, all of them and no     *)
(* others.                                                                 *)
LEMMA ReportsAll ==
  ASSUME NEW dev, NEW u, NEW last \in Nat, last + 1 = Len(u), Linked(dev, u)
  PROVE  Reports(dev, u[last + 1])[last] = Among(u, 1)
  <1> DEFINE S == 0 .. last
             top == u[last + 1]
             h == [n \in Nat |-> IF n = 0 THEN 0 ELSE n - 1]
             g == [p \in Nat \X S |-> IF p[2] = 0 THEN p[2] ELSE p[2] - Count(p[2])]
  <1>1. S \in SUBSET Nat /\ Len(u) \in Nat /\ Len(u) - 1 = last
    OBVIOUS
  <1>2. Recursive(S, last, h, g)
    <2>1. ASSUME NEW c \in S, c # 0 PROVE c - Count(c) \in S
      <3>1. c \in Nat \ {0} /\ c <= last
        BY <1>1, <2>1
      <3>2. c - Count(c) \in 0 .. c - 1
        BY <3>1, CountIs
      <3>3. QED BY <3>1, <3>2
    <2>2. \A p \in Nat \X S : p[2] \in S
      OBVIOUS
    <2>3. g \in [Nat \X S -> S]
      <3> HIDE DEF S
      <3>1. QED BY <2>1, <2>2
    <2>4. h \in [Nat -> Nat] /\ \A n \in Nat \ {0} : h[n] < n
      OBVIOUS
    <2>5. last \in S
      OBVIOUS
    <2>6. QED BY <2>3, <2>4, <2>5 DEF Recursive
  <1>3. PICK cur \in [Nat -> S] : \A n \in Nat : cur[n] = IF n = 0 THEN last ELSE g[<<n, cur[h[n]]>>]
    <2> HIDE DEF h, g, S
    <2>1. QED BY <1>2, Recursion
  <1>4. cur[0] = last
    BY <1>3
  <1>5. ASSUME NEW n \in Nat \ {0}
        PROVE  cur[n] = IF cur[n - 1] = 0 THEN cur[n - 1] ELSE cur[n - 1] - Count(cur[n - 1])
    <2>1. h[n] = n - 1 /\ n - 1 \in Nat
      OBVIOUS
    <2>2. <<n, cur[n - 1]>> \in Nat \X S
      BY <2>1
    <2>3. cur[n] = g[<<n, cur[n - 1]>>]
      BY <1>3, <2>1
    <2>4. QED BY <2>2, <2>3
  <1> HIDE DEF h, g
  <1> DEFINE at(c) == [index |-> c, head |-> u[c + 1], told |-> Among(u, c + 1)]
             w == [n \in Nat |-> at(cur[n])]
  <1>6. ASSUME NEW c \in S PROVE Reported(dev, at(c)) = at(IF c = 0 THEN c ELSE c - Count(c))
    <2> DEFINE v == at(c)
    <2>1. v.index = c /\ v.head = u[c + 1] /\ v.told = Among(u, c + 1)
      OBVIOUS
    <2>2. CASE c = 0
      <3> HIDE DEF v
      <3>1. Reported(dev, v) = v
        BY <2>1, <2>2 DEF Reported
      <3>2. QED BY <2>2, <3>1 DEF v
    <2>3. CASE c # 0
      <3> HIDE DEF v
      <3>1. c \in Nat \ {0} /\ ~ (c <= 0) /\ c \in 1 .. Len(u) - 1
        BY <1>1, <2>3
      <3> DEFINE heads == PointedAt(dev, u[c + 1], Count(c))
      <3>2. Reported(dev, v) = [index |-> c - Count(c), head |-> Pointer(dev, u[c + 1], Count(c) - 1),
                                told |-> Among(u, c + 1) \cup heads]
        BY <2>1, <3>1 DEF Reported, PointedAt
      <3>3. /\ Pointer(dev, u[c + 1], Count(c) - 1) = u[c - Count(c) + 1]
            /\ Among(u, c + 1) \cup heads = Among(u, c - Count(c) + 1)
        <4> HIDE DEF at
        <4>1. Len(u) \in Nat
          BY <1>1
        <4>2. QED BY <3>1, <4>1, HeadsAre
      <3> HIDE DEF heads
      <3>4. Reported(dev, v) = at(c - Count(c))
        BY <3>2, <3>3
      <3>5. QED BY <2>3, <3>4 DEF v
    <2>4. QED BY <2>2, <2>3
  <1>7. at(last) = [index |-> last, head |-> top, told |-> {top}]
    <2>1. Among(u, last + 1) = {top}
      <3>1. PICK l \in Nat : l = last + 1 /\ l = Len(u)
        OBVIOUS
      <3>2. l .. l = {l}
        OBVIOUS
      <3>3. last + 1 .. Len(u) = {last + 1}
        BY <3>1, <3>2
      <3>4. QED BY <3>3 DEF Among
    <2>2. QED BY <2>1
  <1>8. IsReports(w, dev, top, last)
    <2>1. w[0] = at(last)
      <3> HIDE DEF at
      <3>1. QED BY <1>4
    <2>2. ASSUME NEW n \in Nat \ {0} PROVE w[n] = Reported(dev, w[n - 1])
      <3> HIDE DEF at, S
      <3>1. PICK c \in S : c = cur[n - 1] /\ n - 1 \in Nat
        OBVIOUS
      <3>2. w[n - 1] = at(c)
        BY <3>1
      <3>3. w[n] = at(IF c = 0 THEN c ELSE c - Count(c))
        BY <1>5, <3>1
      <3>4. QED BY <1>6, <3>1, <3>2, <3>3
    <2> HIDE DEF w, at
    <2>3. w = [n \in Nat |-> w[n]]
      BY DEF w
    <2>4. QED BY <1>7, <2>1, <2>2, <2>3 DEF IsReports
  <1> DEFINE f == CHOOSE x : IsReports(x, dev, top, last)
  <1>9. IsReports(f, dev, top, last)
    BY <1>8
  <1>10. Reports(dev, top)[last] = f[last].told
    BY <1>1, Zenon DEF Reports, IsReports
  <1> HIDE DEF f, at
  <1>11. \A n \in Nat : f[n] = w[n]
    <2> DEFINE P == {n \in Nat : f[n] = w[n]}
    <2>1. 0 \in P
      <3> HIDE DEF w
      <3>1. f[0] = w[0]
        BY <1>8, <1>9 DEF IsReports
      <3>2. QED BY <3>1
    <2>2. ASSUME NEW n \in P PROVE n + 1 \in P
      <3> HIDE DEF w
      <3>1. n \in Nat /\ f[n] = w[n]
        OBVIOUS
      <3>2. PICK m \in Nat : m = n + 1 /\ m # 0 /\ m - 1 = n
        BY <3>1
      <3>3. f[m] = Reported(dev, f[n]) /\ w[m] = Reported(dev, w[n])
        BY <1>8, <1>9, <3>2 DEF IsReports
      <3>4. f[n + 1] = w[n + 1]
        BY <3>1, <3>2, <3>3
      <3>5. QED BY <3>1, <3>4
    <2>3. P = Nat
      <3> HIDE DEF P
      <3>1. P \in SUBSET Nat
        BY DEF P
      <3>2. QED BY <2>1, <2>2, <3>1, NatInducts
    <2>4. QED BY <2>3
  <1>12. \A n \in Nat : cur[n] = 0 \/ cur[n] + n <= last
    <2> DEFINE P == {n \in Nat : cur[n] = 0 \/ cur[n] + n <= last}
    <2>1. 0 \in P
      BY <1>4
    <2>2. ASSUME NEW n \in P PROVE n + 1 \in P
      <3>0. n + 1 \in Nat \ {0} /\ n + 1 - 1 = n /\ n \in Nat
        OBVIOUS
      <3>1. PICK c \in S : c = cur[n] /\ (c = 0 \/ c + n <= last)
        OBVIOUS
      <3>2. cur[n + 1] = IF c = 0 THEN c ELSE c - Count(c)
        <4>1. PICK m \in Nat \ {0} : m = n + 1 /\ m - 1 = n
          BY <3>0
        <4>2. QED BY <1>5, <3>1, <4>1
      <3>3. CASE c = 0
        BY <3>0, <3>2, <3>3
      <3>4. CASE c # 0
        <4>1. c \in Nat \ {0}
          BY <1>1, <3>4
        <4>2. PICK e \in 0 .. c - 1 : e = c - Count(c)
          BY <4>1, CountIs
        <4>3. c + n <= last
          BY <3>1, <3>4
        <4>4. e \in Int /\ e <= c - 1
          BY <4>1
        <4>5. e + (n + 1) <= last
          BY <3>0, <4>1, <4>3, <4>4
        <4>6. QED BY <3>0, <3>2, <3>4, <4>2, <4>5
      <3>5. QED BY <3>3, <3>4
    <2>3. P = Nat
      <3> HIDE DEF P
      <3>1. P \in SUBSET Nat
        BY DEF P
      <3>2. QED BY <2>1, <2>2, <3>1, NatInducts
    <2>4. QED BY <2>3
  <1>13. cur[last] = 0
    <2>1. cur[last] \in S /\ (cur[last] = 0 \/ cur[last] + last <= last)
      BY <1>12
    <2>2. QED BY <2>1
  <1>14. f[last] = at(0)
    BY <1>11, <1>13
  <1>15. f[last].told = Among(u, 1)
    BY <1>14 DEF at
  <1>16. QED BY <1>10, <1>15

\* f is the function that NextPointers defines.
IsNext(f, dev, top, last) ==
  f = [k \in 0 .. Skips(last) - 1 |-> IF k = 0 THEN top ELSE Pointer(dev, f[k - 1], k - 1)]

\* The pointers of block m of a file with blocks u.
NextCells(u, m) ==
  [k \in 1 .. PtrSize * (zeros[m] + 1) |-> u[m - two[(k - 1) \div PtrSize] + 1]]

(* The pointers of the next block lead to the blocks that they are for.    *)
LEMMA NextPointersAre ==
  ASSUME NEW dev, NEW u, NEW last \in Nat, last + 1 = Len(u), Linked(dev, u)
  PROVE  NextPointers(dev, u[last + 1], last) = NextCells(u, last + 1)
  <1> DEFINE top == u[last + 1]
  <1>1. PICK c \in Nat \ {0} : c = last + 1
    OBVIOUS
  <1>2. PICK z \in Nat : z = zeros[c]
    BY <1>1, Zeros
  <1>3. Skips(last) = z + 1 /\ Skips(last) - 1 = z
    BY <1>1, <1>2 DEF Skips, lfs_ctz
  <1> DEFINE w == [k \in 0 .. z |-> u[c - two[k] + 1]]
  <1>4. ASSUME NEW k \in 0 .. z PROVE w[k] = IF k = 0 THEN top ELSE Pointer(dev, w[k - 1], k - 1)
    <2>1. CASE k = 0
      <3>1. c - two[k] + 1 = last + 1
        BY <1>1, <2>1, Twos
      <3>2. QED BY <2>1, <3>1
    <2>2. CASE k # 0
      <3>1. PICK l \in Nat : l = k - 1 /\ l \in 0 .. z /\ l # z
        BY <2>2
      <3>2. PICK m \in Nat \ {0} : m = c - two[l] /\ l <= zeros[m]
        BY <1>2, <3>1, TrailingZeros
      <3>3. two[l] \in Nat \ {0} /\ two[k] = 2 * two[l]
        <4>1. k \in Nat \ {0}
          BY <2>2
        <4>2. QED BY <3>1, <4>1, Twos
      <3>4. m \in 1 .. Len(u) - 1
        BY <1>1, <3>2, <3>3
      <3>5. zeros[m] \in Nat /\ l \in 0 .. zeros[m]
        BY <3>1, <3>2, Zeros
      <3>6. Pointer(dev, u[m + 1], l) = u[m - two[l] + 1]
        BY <3>4, <3>5 DEF Linked
      <3>7. m - two[l] + 1 = c - two[k] + 1
        BY <1>1, <3>2, <3>3
      <3>8. w[l] = u[m + 1]
        BY <3>1, <3>2
      <3>9. QED BY <2>2, <3>1, <3>6, <3>7, <3>8
    <2>3. QED BY <2>1, <2>2
  <1> HIDE DEF w
  <1>5. IsNext(w, dev, top, last)
    <2>1. w = [k \in 0 .. z |-> w[k]]
      BY DEF w
    <2>2. QED BY <1>3, <1>4, <2>1 DEF IsNext
  <1> DEFINE f == CHOOSE x : IsNext(x, dev, top, last)
  <1>6. IsNext(f, dev, top, last)
    BY <1>5
  <1>7. NextPointers(dev, top, last) = [k \in 1 .. PtrSize * Skips(last) |-> f[(k - 1) \div PtrSize]]
    BY Zenon DEF NextPointers, IsNext
  <1> HIDE DEF f
  <1>8. \A k \in 0 .. z : f[k] = w[k]
    <2> DEFINE P == {k \in Nat : k <= z => f[k] = w[k]}
    <2>1. 0 \in P
      <3>1. f[0] = w[0]
        BY <1>3, <1>5, <1>6 DEF IsNext
      <3>2. QED BY <3>1
    <2>2. ASSUME NEW k \in P PROVE k + 1 \in P
      <3>1. k \in Nat /\ (k <= z => f[k] = w[k])
        OBVIOUS
      <3>2. SUFFICES ASSUME k + 1 <= z PROVE f[k + 1] = w[k + 1]
        BY <3>1
      <3>3. PICK m \in 0 .. z : m = k + 1 /\ m # 0 /\ m - 1 = k /\ f[k] = w[k]
        BY <3>1, <3>2
      <3>4. f[m] = Pointer(dev, f[k], k) /\ w[m] = Pointer(dev, w[k], k)
        BY <1>3, <1>5, <1>6, <3>3 DEF IsNext
      <3>5. QED BY <3>3, <3>4
    <2>3. P = Nat
      <3> HIDE DEF P
      <3>1. P \in SUBSET Nat
        BY DEF P
      <3>2. QED BY <2>1, <2>2, <3>1, NatInducts
    <2>4. QED BY <2>3
  <1>9. ASSUME NEW k \in 1 .. PtrSize * (z + 1) PROVE (k - 1) \div PtrSize \in 0 .. z
    BY PlaceOfPointer
  <1>10. ASSUME NEW k \in 1 .. PtrSize * (z + 1)
         PROVE  f[(k - 1) \div PtrSize] = u[(last + 1) - two[(k - 1) \div PtrSize] + 1]
    <2>1. PICK q \in 0 .. z : q = (k - 1) \div PtrSize
      BY <1>9
    <2>2. f[q] = u[c - two[q] + 1]
      BY <1>8 DEF w
    <2>3. c - two[q] + 1 = (last + 1) - two[q] + 1
      <3>1. PICK x \in Int : x = two[q]
        BY Twos
      <3>2. QED BY <1>1, <3>1
    <2>4. f[q] = u[(last + 1) - two[q] + 1]
      BY <2>2, <2>3
    <2>5. QED BY <2>1, <2>4
  <1>11. QED
    <2>1. PtrSize * Skips(last) = PtrSize * (zeros[last + 1] + 1)
      BY <1>1, <1>2, <1>3
    <2>2. PtrSize * Skips(last) = PtrSize * (z + 1)
      BY <1>3
    <2>3. NextPointers(dev, top, last)
            = [k \in 1 .. PtrSize * (zeros[last + 1] + 1) |-> u[(last + 1) - two[(k - 1) \div PtrSize] + 1]]
      BY <1>7, <1>10, <2>1, <2>2
    <2>4. QED BY <2>3, Zenon DEF NextCells

-----------------------------------------------------------------------------
(* Where the bytes of a file are, and that writing it keeps them there.    *)

\* What is at place o of block m of a file with blocks u: a byte of a pointer,
\* or one of the file.
Cell(m, o, u) ==
  IF o <= PtrSize * Pointers(m) THEN u[m - two[(o - 1) \div PtrSize] + 1]
  ELSE Byte(Start[m] + (o - 1 - PtrSize * Pointers(m)))

\* s is block m of such a file, up to byte n of it.
IsBlock(s, m, n, u) ==
  /\ s \in Seq(Nat) /\ Len(s) = n - Start[m] + PtrSize * Pointers(m)
  /\ \A o \in 1 .. Len(s) : s[o] = Cell(m, o, u)

\* Where the bytes of the m-th of the blocks u of a file of n bytes end.
EndOf(u, n, m) == IF m = Len(u) THEN n ELSE Start[m]

\* The blocks u of the device hold a file of n bytes.
IsFile(dev, u, n) ==
  /\ dev \in [Blocks -> Seq(Nat)] /\ u \in Seq(Blocks) /\ n \in 0 .. MaxSize
  /\ \A k, l \in 1 .. Len(u) : u[k] = u[l] => k = l
  /\ IF n = 0 THEN u = <<>> ELSE u # <<>> /\ In(n - 1, Len(u) - 1)
  /\ \A m \in 1 .. Len(u) : IsBlock(dev[u[m]], m - 1, EndOf(u, n, m), u)

(* The pointers of a block lead to earlier blocks.                         *)
LEMMA PointersLeadBack ==
  \A m \in Nat : \A o \in Nat \ {0} :
    o <= PtrSize * Pointers(m) =>
      /\ m # 0 /\ (o - 1) \div PtrSize \in 0 .. zeros[m]
      /\ m - two[(o - 1) \div PtrSize] + 1 \in 1 .. m
  <1> SUFFICES ASSUME NEW m \in Nat, NEW o \in Nat \ {0}, o <= PtrSize * Pointers(m)
               PROVE  /\ m # 0 /\ (o - 1) \div PtrSize \in 0 .. zeros[m]
                      /\ m - two[(o - 1) \div PtrSize] + 1 \in 1 .. m
    OBVIOUS
  <1>1. m # 0
    <2>1. SUFFICES ASSUME m = 0 PROVE FALSE
      OBVIOUS
    <2>2. PICK p \in Nat : p = PtrSize /\ p * 0 = 0
      BY Sizes
    <2>3. PtrSize * Pointers(m) = 0
      BY <2>1, <2>2, PointersAre
    <2>4. QED BY <2>3
  <1>2. PICK z \in Nat : z = zeros[m] /\ Pointers(m) = z + 1
    BY <1>1, Zeros, PointersAre
  <1>3. o \in 1 .. PtrSize * (z + 1)
    <2>1. PICK p \in Nat : p = PtrSize
      BY Sizes
    <2>2. p * (z + 1) \in Int
      OBVIOUS
    <2>3. QED BY <1>2, <2>1, <2>2
  <1>4. PICK j \in 0 .. z : j = (o - 1) \div PtrSize
    BY <1>3, PlaceOfPointer
  <1>5. two[j] <= m /\ two[j] \in Nat \ {0}
    BY <1>1, <1>2, TrailingZeros, Twos
  <1>6. m - two[j] + 1 \in 1 .. m
    BY <1>5
  <1>7. QED BY <1>1, <1>2, <1>4, <1>6

(* So a block is also one of another file with the same blocks before it.  *)
LEMMA SameBlock ==
  \A s, u, v : \A m \in Nat, n \in Int :
    IsBlock(s, m, n, u) /\ (\A k \in 1 .. m : v[k] = u[k]) => IsBlock(s, m, n, v)
  <1> SUFFICES ASSUME NEW s, NEW u, NEW v, NEW m \in Nat, NEW n \in Int,
                      IsBlock(s, m, n, u), \A k \in 1 .. m : v[k] = u[k]
               PROVE  IsBlock(s, m, n, v)
    OBVIOUS
  <1>1. ASSUME NEW o \in 1 .. Len(s) PROVE s[o] = Cell(m, o, v)
    <2>1. s[o] = Cell(m, o, u)
      BY DEF IsBlock
    <2>2. CASE o <= PtrSize * Pointers(m)
      <3>1. o \in Nat \ {0}
        OBVIOUS
      <3>2. m - two[(o - 1) \div PtrSize] + 1 \in 1 .. m
        BY <2>2, <3>1, PointersLeadBack
      <3>3. QED BY <2>1, <2>2, <3>2 DEF Cell
    <2>3. CASE ~ (o <= PtrSize * Pointers(m))
      BY <2>1, <2>3 DEF Cell
    <2>4. QED BY <2>2, <2>3
  <1>2. QED BY <1>1 DEF IsBlock

(* The next byte goes where it belongs.                                    *)
LEMMA BlockGrows ==
  \A s, u : \A m \in 0 .. LastIndex, n \in 0 .. MaxSize :
    IsBlock(s, m, n, u) /\ Start[m] <= n => IsBlock(Append(s, Byte(n)), m, n + 1, u)
  <1> SUFFICES ASSUME NEW s, NEW u, NEW m \in 0 .. LastIndex, NEW n \in 0 .. MaxSize,
                      IsBlock(s, m, n, u), Start[m] <= n
               PROVE  IsBlock(Append(s, Byte(n)), m, n + 1, u)
    OBVIOUS
  <1>1. PICK x \in Nat : x = PtrSize * Pointers(m)
    BY PointersFit, Sizes
  <1>2. PICK y \in Int : y = Start[m]
    BY Starts, Sizes
  <1>3. s \in Seq(Nat) /\ Len(s) = n - y + x /\ n - y \in Nat /\ n \in Nat
    BY <1>1, <1>2, Sizes DEF IsBlock
  <1>4. Byte(n) \in Nat
    BY <1>3, Halves DEF Byte
  <1> DEFINE t == Append(s, Byte(n))
  <1>5. /\ t \in Seq(Nat) /\ Len(t) = n + 1 - y + x
        /\ \A o \in 1 .. Len(s) : t[o] = s[o]
        /\ t[Len(s) + 1] = Byte(n)
    BY <1>3, <1>4
  <1>6. ASSUME NEW o \in 1 .. Len(t) PROVE t[o] = Cell(m, o, u)
    <2> HIDE DEF t
    <2>1. CASE o \in 1 .. Len(s)
      BY <1>5, <2>1 DEF IsBlock
    <2>2. CASE o \notin 1 .. Len(s)
      <3>1. o = n - y + x + 1
        BY <1>3, <1>5, <2>2
      <3>2. ~ (o <= x) /\ y + (o - 1 - x) = n
        BY <1>3, <3>1
      <3>3. Cell(m, o, u) = Byte(n)
        BY <1>1, <1>2, <3>2 DEF Cell
      <3>4. QED BY <1>3, <1>5, <3>1, <3>3
    <2>3. QED BY <2>1, <2>2
  <1> HIDE DEF t
  <1>7. Len(t) = (n + 1) - Start[m] + PtrSize * Pointers(m)
    <2>1. Len(t) = n + 1 - y + x /\ n \in Nat
      BY <1>3, <1>5
    <2>2. Len(t) = (n + 1) - y + x
      BY <2>1
    <2>3. QED BY <1>1, <1>2, <2>2
  <1>8. IsBlock(t, m, n + 1, u)
    BY <1>5, <1>6, <1>7 DEF IsBlock
  <1>9. QED BY <1>8 DEF t

(* A block that has no byte of the file yet has its pointers.              *)
LEMMA FreshBlock ==
  ASSUME NEW dev, NEW u \in Seq(Blocks), NEW last \in Nat, last + 1 = Len(u), Linked(dev, u)
  PROVE  IsBlock(NextPointers(dev, u[last + 1], last), last + 1, Start[last + 1], u)
  <1> DEFINE m == last + 1
  <1>1. m \in Nat \ {0}
    OBVIOUS
  <1>2. PICK z \in Nat : z = zeros[m] /\ Pointers(m) = z + 1
    BY <1>1, Zeros, PointersAre
  <1>3. PICK x \in Nat : x = PtrSize * (z + 1)
    <2>1. PICK p \in Nat : p = PtrSize
      BY Sizes
    <2>2. \A q, r \in Nat : q * r \in Nat
      OBVIOUS
    <2>3. QED BY <2>1, <2>2
  <1> DEFINE s == NextPointers(dev, u[last + 1], last)
             c(o) == u[m - two[(o - 1) \div PtrSize] + 1]
  <1>4. s = [o \in 1 .. x |-> c(o)]
    <2>1. s = [k \in 1 .. PtrSize * (zeros[m] + 1) |-> c(k)]
      <3>1. s = NextCells(u, m)
        BY NextPointersAre
      <3>2. QED BY <3>1 DEF NextCells
    <2>2. PtrSize * (zeros[m] + 1) = x
      BY <1>2, <1>3
    <2> HIDE DEF s, c, m
    <2>3. QED BY <2>1, <2>2
  <1>5. \A o \in 1 .. x : c(o) \in Nat
    <2>1. SUFFICES ASSUME NEW o \in 1 .. x PROVE c(o) \in Nat
      OBVIOUS
    <2>2. o \in Nat \ {0} /\ o <= PtrSize * Pointers(m)
      BY <1>2, <1>3
    <2>3. PICK j \in 1 .. m : j = m - two[(o - 1) \div PtrSize] + 1
      BY <2>2, PointersLeadBack
    <2>4. j \in 1 .. Len(u)
      BY <1>1, <2>3
    <2>5. u[j] \in Blocks
      BY <2>4, ElementOfSeq
    <2>6. QED BY <2>3, <2>5 DEF Blocks
  <1>6. \A o \in 1 .. x : c(o) = Cell(m, o, u)
    BY <1>2, <1>3 DEF Cell
  <1> HIDE DEF c, s
  <1>7. s \in Seq(Nat) /\ Len(s) = x /\ \A o \in 1 .. x : s[o] = c(o)
    BY <1>4, <1>5
  <1>8. Start[m] \in Int /\ x = Start[m] - Start[m] + PtrSize * Pointers(m)
    <2>1. PICK y \in Int : y = Start[m]
      BY <1>1, Starts
    <2>2. x = PtrSize * Pointers(m)
      BY <1>2, <1>3
    <2>3. QED BY <2>1, <2>2
  <1>9. IsBlock(s, m, Start[m], u)
    BY <1>6, <1>7, <1>8 DEF IsBlock
  <1>10. QED BY <1>9 DEF s

(* Every block of a file has some of its bytes, and no more than it should. *)
LEMMA BlocksHoldBytes ==
  ASSUME NEW dev, NEW u, NEW n, IsFile(dev, u, n), n # 0
  PROVE  /\ n \in 1 .. MaxSize /\ n - 1 \in 0 .. MaxSize
         /\ Len(u) \in Nat \ {0} /\ Len(u) - 1 \in 0 .. LastIndex /\ In(n - 1, Len(u) - 1)
         /\ \A m \in 1 .. Len(u) :
              /\ m - 1 \in 0 .. LastIndex /\ EndOf(u, n, m) \in Int
              /\ Start[m - 1] + 1 <= EndOf(u, n, m) /\ EndOf(u, n, m) <= Start[m]
  <1>1. n \in 1 .. MaxSize /\ n - 1 \in 0 .. MaxSize
    BY Sizes DEF IsFile
  <1>2. u \in Seq(Blocks) /\ u # <<>> /\ In(n - 1, Len(u) - 1)
    BY DEF IsFile
  <1>3. Len(u) \in Nat \ {0}
    BY <1>2
  <1>4. PICK l \in Nat : l = Len(u) - 1 /\ l + 1 = Len(u)
    BY <1>3
  <1>5. l \in 0 .. LastIndex
    <2>1. Start[l] <= n - 1
      BY <1>2, <1>4 DEF In
    <2>2. QED BY <1>1, <1>4, <2>1, BlockIsReached
  <1>6. ASSUME NEW m \in 1 .. Len(u)
        PROVE  /\ m - 1 \in 0 .. LastIndex /\ EndOf(u, n, m) \in Int
               /\ Start[m - 1] + 1 <= EndOf(u, n, m) /\ EndOf(u, n, m) <= Start[m]
    <2>1. PICK j \in 0 .. LastIndex : j = m - 1 /\ j + 1 = m /\ j <= l
      BY <1>4, <1>5, Sizes
    <2>2. Start[j] \in Int /\ Start[m] \in Int /\ n \in Int
      BY <1>1, <2>1, Starts
    <2>3. CASE m = Len(u)
      <3>1. Start[j] <= n - 1 /\ n - 1 < Start[m]
        BY <1>2, <1>4, <2>1, <2>3 DEF In
      <3>2. EndOf(u, n, m) = n
        BY <2>3 DEF EndOf
      <3>3. QED BY <2>1, <2>2, <3>1, <3>2
    <2>4. CASE m # Len(u)
      <3>1. j \in 0 .. LastIndex + 1
        BY <2>1, Sizes
      <3>2. Start[j] + 1 <= Start[m]
        BY <2>1, <3>1, StartsGrow
      <3>3. EndOf(u, n, m) = Start[m]
        BY <2>4 DEF EndOf
      <3>4. QED BY <2>1, <2>2, <3>2, <3>3
    <2>5. QED BY <2>3, <2>4
  <1>7. QED BY <1>1, <1>2, <1>3, <1>4, <1>5, <1>6

(* So all its pointers are there.                                          *)
LEMMA FileIsLinked ==
  ASSUME NEW dev, NEW u, NEW n, IsFile(dev, u, n), n # 0
  PROVE  Linked(dev, u)
  <1> SUFFICES ASSUME NEW m \in 1 .. Len(u) - 1, NEW k \in 0 .. zeros[m]
               PROVE  Pointer(dev, u[m + 1], k) = u[m - two[k] + 1]
    BY DEF Linked
  <1>1. Len(u) \in Nat
    BY BlocksHoldBytes
  <1>2. PICK l \in 1 .. Len(u) : l = m + 1 /\ l - 1 = m
    BY <1>1
  <1>3. IsBlock(dev[u[l]], m, EndOf(u, n, l), u)
    BY <1>2 DEF IsFile
  <1>4. EndOf(u, n, l) \in Int /\ Start[m] + 1 <= EndOf(u, n, l)
    BY <1>2, BlocksHoldBytes
  <1>5. PICK p \in Nat \ {0}, z \in Nat, e \in Int, y \in Int :
          p = PtrSize /\ z = zeros[m] /\ e = EndOf(u, n, l) /\ y = Start[m]
    <2>1. m \in Nat
      OBVIOUS
    <2>2. zeros[m] \in Nat
      BY <2>1, Zeros
    <2>3. Start[m] \in Int
      BY <2>1, Starts
    <2>4. QED BY <1>4, <2>2, <2>3, Sizes
  <1>6. Pointers(m) = z + 1
    BY <1>5, PointersAre
  <1>7. p * k \in Nat /\ p * k <= p * z /\ p * (z + 1) = p * z + p /\ p * z \in Int
    <2>1. k \in Nat /\ k <= z
      BY <1>5
    <2>2. p * k <= p * z /\ p * 0 <= p * k /\ p * 0 = 0
      BY <2>1, Division
    <2>3. p * k \in Int /\ p * z \in Int
      BY <2>1
    <2>4. p * (z + 1) = p * z + p
      OBVIOUS
    <2>5. QED BY <2>2, <2>3, <2>4
  <1>8. PICK o \in Nat \ {0} : o = p * k + 1 /\ o - 1 = p * k /\ o <= p * (z + 1)
    BY <1>7
  <1>9. (o - 1) \div p = k
    <2>1. o - 1 \in Int /\ k \in Int /\ 0 \in 0 .. p - 1 /\ o - 1 = p * k + 0
      BY <1>7, <1>8
    <2>2. QED BY <2>1, OneQuotient
  <1>10. Len(dev[u[l]]) = e - y + p * (z + 1)
    BY <1>3, <1>5, <1>6 DEF IsBlock
  <1>11. o \in 1 .. Len(dev[u[l]])
    <2>1. p * (z + 1) \in Int /\ y + 1 <= e
      BY <1>4, <1>5
    <2>2. QED BY <1>8, <1>10, <2>1
  <1>12. dev[u[l]][o] = Cell(m, o, u)
    BY <1>3, <1>11 DEF IsBlock
  <1>13. Cell(m, o, u) = u[m - two[k] + 1]
    BY <1>5, <1>6, <1>8, <1>9 DEF Cell
  <1>14. Pointer(dev, u[l], k) = dev[u[l]][o]
    BY <1>5, <1>8 DEF Pointer
  <1>15. QED BY <1>2, <1>12, <1>13, <1>14

\* Byte pos of a file is found, in block t.
IsFound(dev, u, n, pos, t) ==
  /\ IndexOf(pos) = t
  /\ lfs_ctz_find(dev, u[Len(u)], n, pos) = [block |-> u[t + 1], off |-> PlaceOf(pos, t).off]
  /\ dev[u[t + 1]][PlaceOf(pos, t).off + 1] = Byte(pos)

(* lfs_ctz_find finds every byte.                                          *)
LEMMA ByteIsFound ==
  ASSUME NEW dev, NEW u, NEW n, IsFile(dev, u, n), n # 0, NEW pos \in 0 .. n - 1
  PROVE  \E t \in 0 .. Len(u) - 1 : IsFound(dev, u, n, pos, t)
  <1>1. PICK last \in Nat : last + 1 = Len(u) /\ last = Len(u) - 1 /\ last \in 0 .. LastIndex
    BY BlocksHoldBytes
  <1>2. n \in 1 .. MaxSize /\ n - 1 \in 0 .. MaxSize /\ In(n - 1, last)
    BY <1>1, BlocksHoldBytes
  <1>3. pos \in 0 .. MaxSize
    BY <1>2, Sizes
  <1>4. PICK t \in 0 .. pos : In(pos, t)
    BY <1>3, IsInBlock
  <1>5. t \in Nat /\ IndexOf(pos) = t
    BY <1>3, <1>4, IndexOfIs
  <1>6. t \in 0 .. last
    <2>1. SUFFICES ASSUME last + 1 <= t PROVE FALSE
      BY <1>1, <1>5
    <2>2. Start[t] \in Int /\ Start[last + 1] \in Int
      BY <1>1, <1>5, Starts
    <2>3. t \in 0 .. LastIndex
      BY <1>3, <1>4, <1>5, BlockIsReached DEF In
    <2>4. t \in 0 .. LastIndex + 2 /\ last + 1 \in 0 .. t
      BY <1>1, <2>1, <2>3, Sizes
    <2>5. Start[last + 1] <= Start[t]
      BY <2>4, StartsInOrder
    <2>6. Start[t] <= pos /\ n - 1 < Start[last + 1]
      BY <1>2, <1>4 DEF In
    <2>7. QED BY <1>2, <2>2, <2>5, <2>6
  <1>7. lfs_ctz_index(n - 1).index = last
    BY <1>1, <1>2, IndexIs DEF PlaceOf
  <1>8. lfs_ctz_index(pos) = PlaceOf(pos, t) /\ PlaceOf(pos, t).index = t
    BY <1>3, <1>4, <1>5, IndexIs DEF PlaceOf
  <1>9. Walk(dev, u[last + 1], t)[last].head = u[t + 1]
    <2>1. Linked(dev, u)
      BY FileIsLinked
    <2>2. last + 1 = Len(u)
      BY <1>1
    <2>3. QED BY <1>6, <2>1, <2>2, WalkArrives
  <1>10. lfs_ctz_find(dev, u[last + 1], n, pos)
           = [block |-> Walk(dev, u[last + 1], lfs_ctz_index(pos).index)[lfs_ctz_index(n - 1).index].head,
              off |-> lfs_ctz_index(pos).off]
    BY DEF lfs_ctz_find
  <1>11. lfs_ctz_find(dev, u[Len(u)], n, pos) = [block |-> u[t + 1], off |-> PlaceOf(pos, t).off]
    BY <1>1, <1>7, <1>8, <1>9, <1>10
  <1>12. PICK m \in 1 .. Len(u) : m = t + 1 /\ m - 1 = t
    BY <1>1, <1>6
  <1>13. IsBlock(dev[u[m]], t, EndOf(u, n, m), u)
    BY <1>12 DEF IsFile
  <1>14. EndOf(u, n, m) \in Int /\ t \in 0 .. LastIndex
    BY <1>12, BlocksHoldBytes
  <1>15. PICK x \in Nat, y \in Int, e \in Int : x = PtrSize * Pointers(t) /\ y = Start[t] /\ e = EndOf(u, n, m)
    <2>1. t \in 0 .. LastIndex + 1
      BY <1>14, Sizes
    <2>2. PtrSize * Pointers(t) \in Nat
      BY <2>1, PointersFit
    <2>3. Start[t] \in Int
      BY <1>5, Starts
    <2>4. QED BY <1>14, <2>2, <2>3
  <1>16. pos \in Nat /\ y <= pos /\ pos < e
    <2>1. pos \in Nat /\ y <= pos /\ pos < Start[m] /\ pos <= n - 1
      BY <1>2, <1>4, <1>12, <1>15 DEF In
    <2>2. CASE m = Len(u)
      BY <1>2, <1>15, <2>1, <2>2 DEF EndOf
    <2>3. CASE m # Len(u)
      BY <1>15, <2>1, <2>3 DEF EndOf
    <2>4. QED BY <2>2, <2>3
  <1>17. PICK o \in Nat \ {0} : o = pos - y + x + 1
    BY <1>16
  <1>18. Len(dev[u[m]]) = e - y + x
    BY <1>13, <1>15 DEF IsBlock
  <1>19. o \in 1 .. Len(dev[u[m]])
    BY <1>16, <1>17, <1>18
  <1>20. dev[u[m]][o] = Cell(t, o, u)
    BY <1>13, <1>19 DEF IsBlock
  <1>21. Cell(t, o, u) = Byte(pos)
    <2>1. ~ (o <= x) /\ y + (o - 1 - x) = pos
      BY <1>16, <1>17
    <2>2. QED BY <1>15, <2>1 DEF Cell
  <1>22. PlaceOf(pos, t).off + 1 = o
    BY <1>15, <1>17 DEF PlaceOf
  <1>23. IsFound(dev, u, n, pos, t)
    BY <1>5, <1>11, <1>12, <1>20, <1>21, <1>22 DEF IsFound
  <1>24. QED BY <1>1, <1>6, <1>23

\* The invariant: the blocks `used` of the device hold the file.
CtzInv ==
  /\ IsFile(d, used, size) /\ write \in Writes
  /\ size # 0 => head = used[Len(used)]

(* In such a state the file is right.                                      *)
LEMMA InvIsRight == CtzInv => FilesRight
  <1> SUFFICES ASSUME CtzInv PROVE FilesRight
    OBVIOUS
  <1>1. IsFile(d, used, size) /\ size \in Nat /\ used \in Seq(Blocks)
    BY Sizes DEF CtzInv, IsFile
  <1>2. Len(used) \in Nat /\ DOMAIN used = 1 .. Len(used)
    BY <1>1
  <1>3. CASE size = 0
    <2>1. used = <<>>
      BY <1>1, <1>3 DEF IsFile
    <2>2. DOMAIN used = {} /\ 0 .. size - 1 = {}
      BY <1>3, <2>1
    <2>3. QED BY <1>3, <2>2 DEF FilesRight, FindsAll, TraversesAll, BlocksFull
  <1>4. CASE size # 0
    <2>1. head = used[Len(used)]
      BY <1>4 DEF CtzInv
    <2>2. FindsAll
      <3>1. SUFFICES ASSUME NEW pos \in 0 .. size - 1
                     PROVE  LET at == lfs_ctz_find(d, head, size, pos)
                            IN /\ at.block = used[IndexOf(pos) + 1]
                               /\ at.off = pos - Start[IndexOf(pos)] + PtrSize * Pointers(IndexOf(pos))
                               /\ d[at.block][at.off + 1] = Byte(pos)
        BY DEF FindsAll
      <3>2. PICK t \in 0 .. Len(used) - 1 : IsFound(d, used, size, pos, t)
        BY <1>1, <1>4, ByteIsFound
      <3>3. /\ IndexOf(pos) = t
             /\ lfs_ctz_find(d, head, size, pos) = [block |-> used[t + 1], off |-> PlaceOf(pos, t).off]
             /\ d[used[t + 1]][PlaceOf(pos, t).off + 1] = Byte(pos)
        BY <2>1, <3>2 DEF IsFound
      <3>4. PlaceOf(pos, t).off = pos - Start[t] + PtrSize * Pointers(t)
        BY DEF PlaceOf
      <3> DEFINE at == lfs_ctz_find(d, head, size, pos)
      <3>5. at.block = used[t + 1] /\ at.off = PlaceOf(pos, t).off
        BY <3>3
      <3> HIDE DEF at
      <3>6. d[at.block][at.off + 1] = Byte(pos)
        BY <3>3, <3>5
      <3>7. QED BY <3>3, <3>4, <3>5, <3>6 DEF at
    <2>3. TraversesAll
      <3>1. PICK last \in Nat : last + 1 = Len(used) /\ last = Len(used) - 1
        <4>1. Len(used) \in Nat \ {0}
          BY <1>1, <1>4, BlocksHoldBytes
        <4>2. QED BY <4>1
      <3>2. size - 1 \in 0 .. MaxSize /\ In(size - 1, last)
        BY <1>1, <1>4, <3>1, BlocksHoldBytes
      <3>3. lfs_ctz_index(size - 1).index = last
        BY <3>1, <3>2, IndexIs DEF PlaceOf
      <3>4. Linked(d, used)
        BY <1>1, <1>4, FileIsLinked
      <3>5. Reports(d, head)[last] = Among(used, 1)
        BY <2>1, <3>1, <3>4, ReportsAll
      <3>6. lfs_ctz_traverse(d, head, size) = Among(used, 1)
        BY <1>4, <3>3, <3>5 DEF lfs_ctz_traverse
      <3>7. Among(used, 1) = {used[k] : k \in DOMAIN used}
        BY <1>2 DEF Among
      <3>8. QED BY <3>6, <3>7 DEF TraversesAll
    <2>4. BlocksFull
      <3>1. SUFFICES ASSUME NEW m \in 1 .. Len(used)
                     PROVE  IF m < Len(used) THEN Len(d[used[m]]) = BlockSize
                            ELSE Len(d[used[m]]) \in 1 .. BlockSize
        BY <1>2 DEF BlocksFull
      <3>2. PICK l \in 0 .. LastIndex : l = m - 1 /\ l + 1 = m
        BY <1>1, <1>4, BlocksHoldBytes
      <3>3. l \in Nat /\ l \in 0 .. LastIndex + 1
        BY <3>2, Sizes
      <3>4. PICK x \in Nat : x = PtrSize * Pointers(l)
        BY <3>3, PointersFit
      <3>5. PICK y \in Int, z \in Int : y = Start[l] /\ z = Start[m]
        BY <3>2, <3>3, Starts
      <3>6. z = y + BlockSize - x
        BY <3>2, <3>3, <3>4, <3>5, Starts
      <3>7. PICK e \in Int : e = EndOf(used, size, m) /\ y + 1 <= e /\ e <= z
        BY <1>1, <1>4, <3>2, <3>5, BlocksHoldBytes
      <3>8. Len(d[used[m]]) = e - y + x
        BY <1>1, <3>2, <3>4, <3>5, <3>7 DEF IsFile, IsBlock
      <3>9. CASE m < Len(used)
        <4>1. e = z
          BY <3>5, <3>7, <3>9 DEF EndOf
        <4>2. QED BY <3>6, <3>8, <3>9, <4>1, Sizes
      <3>10. CASE ~ (m < Len(used))
        BY <3>6, <3>7, <3>8, <3>10, Sizes
      <3>11. QED BY <3>9, <3>10
    <2>5. QED BY <2>2, <2>3, <2>4 DEF FilesRight
  <1>5. QED BY <1>3, <1>4

(* The empty file.                                                         *)
LEMMA EmptyIsFile == WriterInit => CtzInv
  <1> SUFFICES ASSUME WriterInit PROVE CtzInv
    OBVIOUS
  <1>1. d \in [Blocks -> Seq(Nat)] /\ size = 0 /\ used = <<>> /\ write \in Writes
    <2>1. <<>> \in Seq(Nat)
      OBVIOUS
    <2>2. QED BY <2>1 DEF WriterInit
  <1>2. used \in Seq(Blocks) /\ Len(used) = 0 /\ size \in 0 .. MaxSize
    BY <1>1, Sizes
  <1>3. 1 .. Len(used) = {}
    BY <1>2
  <1>4. IsFile(d, used, size)
    BY <1>1, <1>2, <1>3 DEF IsFile
  <1>5. QED BY <1>1, <1>4 DEF CtzInv

(* A file with one byte more: its last block is x, the others are as they  *)
(* were.                                                                   *)
LEMMA FileGrows ==
  ASSUME NEW dev, NEW u, NEW n, IsFile(dev, u, n), n < MaxSize,
         NEW v \in Seq(Blocks), NEW last \in Nat, Len(v) = last + 1, last <= Len(u),
         \A k \in 1 .. last : v[k] = u[k],
         NEW x \in Blocks, v[last + 1] = x, \A k \in 1 .. last : u[k] # x,
         \A k \in 1 .. last : EndOf(u, n, k) = Start[k],
         In(n, last), NEW s, IsBlock(s, last, n, u)
  PROVE  IsFile([dev EXCEPT ![x] = Append(s, Byte(n))], v, n + 1)
  <1> DEFINE e == [dev EXCEPT ![x] = Append(s, Byte(n))]
             r == Append(s, Byte(n))
  <1>1. /\ dev \in [Blocks -> Seq(Nat)] /\ u \in Seq(Blocks) /\ n \in 0 .. MaxSize
        /\ \A k, l \in 1 .. Len(u) : u[k] = u[l] => k = l
        /\ \A m \in 1 .. Len(u) : IsBlock(dev[u[m]], m - 1, EndOf(u, n, m), u)
    BY DEF IsFile
  <1>2. n \in Nat /\ n + 1 \in 0 .. MaxSize /\ n + 1 # 0 /\ n + 1 - 1 = n /\ Len(u) \in Nat
    BY <1>1, Sizes
  <1>3. last \in 0 .. LastIndex /\ Start[last] <= n
    BY <1>1, BlockIsReached DEF In
  <1>4. IsBlock(r, last, n + 1, v)
    <2>1. IsBlock(r, last, n + 1, u)
      BY <1>1, <1>3, BlockGrows
    <2>2. n + 1 \in Int
      BY <1>2
    <2> HIDE DEF r
    <2>3. QED BY <2>1, <2>2, SameBlock
  <1>5. r \in Seq(Nat)
    <2> HIDE DEF r
    <2>1. QED BY <1>4 DEF IsBlock
  <1>6. /\ e \in [Blocks -> Seq(Nat)] /\ e[x] = r
        /\ \A c \in Blocks : c # x => e[c] = dev[c]
    <2> HIDE DEF r
    <2>1. e = [dev EXCEPT ![x] = r]
      BY DEF r
    <2> HIDE DEF e
    <2>2. QED BY <1>1, <1>5, <2>1
  <1> HIDE DEF e, r
  <1>7. \A k, l \in 1 .. Len(v) : v[k] = v[l] => k = l
    <2>1. SUFFICES ASSUME NEW k \in 1 .. last + 1, NEW l \in 1 .. last + 1, v[k] = v[l] PROVE k = l
      OBVIOUS
    <2>2. CASE k # last + 1 /\ l # last + 1
      <3>1. k \in 1 .. last /\ l \in 1 .. last /\ k \in 1 .. Len(u) /\ l \in 1 .. Len(u)
        BY <1>2, <2>2
      <3>2. QED BY <1>1, <2>1, <3>1
    <2>3. CASE k = last + 1 /\ l # last + 1
      <3>1. l \in 1 .. last
        BY <2>3
      <3>2. QED BY <2>1, <2>3, <3>1
    <2>4. CASE k # last + 1 /\ l = last + 1
      <3>1. k \in 1 .. last
        BY <2>4
      <3>2. QED BY <2>1, <2>4, <3>1
    <2>5. QED BY <2>2, <2>3, <2>4
  <1>8. v # <<>> /\ In(n + 1 - 1, Len(v) - 1)
    <2>1. Len(v) - 1 = last
      OBVIOUS
    <2>2. v # <<>>
      OBVIOUS
    <2>3. QED BY <1>2, <2>1, <2>2
  <1>9. ASSUME NEW m \in 1 .. Len(v) PROVE IsBlock(e[v[m]], m - 1, EndOf(v, n + 1, m), v)
    <2>1. CASE m = last + 1
      <3>1. EndOf(v, n + 1, m) = n + 1 /\ m - 1 = last
        BY <2>1 DEF EndOf
      <3>2. QED BY <1>4, <1>6, <2>1, <3>1
    <2>2. CASE m # last + 1
      <3>1. m \in 1 .. last /\ m \in 1 .. Len(u) /\ m - 1 \in Nat /\ m \in Nat
        BY <1>2, <2>2
      <3>2. v[m] = u[m] /\ u[m] # x /\ u[m] \in Blocks
        BY <1>1, <3>1, ElementOfSeq
      <3>3. IsBlock(dev[u[m]], m - 1, Start[m], u)
        BY <1>1, <3>1
      <3>4. EndOf(v, n + 1, m) = Start[m] /\ Start[m] \in Int
        BY <2>2, <3>1, Starts DEF EndOf
      <3>5. \A k \in 1 .. m - 1 : v[k] = u[k]
        BY <3>1
      <3>6. IsBlock(dev[u[m]], m - 1, Start[m], v)
        BY <3>1, <3>3, <3>4, <3>5, SameBlock
      <3>7. QED BY <1>6, <3>2, <3>4, <3>6
    <2>3. QED BY <2>1, <2>2
  <1>10. IsFile(e, v, n + 1)
    BY <1>2, <1>6, <1>7, <1>8, <1>9 DEF IsFile
  <1>11. QED BY <1>10 DEF e

(* The blocks before the last.                                             *)
LEMMA Earlier ==
  \A n, l \in Nat : l + 1 = n =>
    n \in 1 .. n /\ l <= n /\ \A k \in 1 .. l : k \in 1 .. n /\ k # n
  OBVIOUS

(* A step that goes on in the last block keeps the invariant ...           *)
LEMMA ContinueKeeps == CtzInv /\ Continue => CtzInv'
  <1> SUFFICES ASSUME CtzInv, Continue PROVE CtzInv'
    OBVIOUS
  <1>1. IsFile(d, used, size) /\ write \in Writes /\ write' \in Writes
    BY DEF CtzInv, Continue
  <1>2. size \in 0 .. MaxSize /\ size \in Nat /\ used \in Seq(Blocks) /\ Len(used) \in Nat
    BY <1>1, Sizes DEF IsFile
  <1>3. size < MaxSize /\ size % write # 0 /\ size # Start[Len(used)]
    BY DEF Continue, AtEnd
  <1>4. size # 0
    <2>1. write \in Nat \ {0}
      BY <1>1, WriterAssumption
    <2>2. \A x \in Nat \ {0} : 0 % x = 0
      OBVIOUS
    <2>3. QED BY <1>3, <2>1, <2>2
  <1>5. PICK last \in Nat : last + 1 = Len(used) /\ last = Len(used) - 1 /\ last \in 0 .. LastIndex
    <2>1. Len(used) \in Nat \ {0} /\ Len(used) - 1 \in 0 .. LastIndex
      BY <1>1, <1>4, BlocksHoldBytes
    <2>2. QED BY <2>1
  <1>6. head = used[last + 1]
    BY <1>4, <1>5 DEF CtzInv
  <1>7. In(size, last)
    <2>1. In(size - 1, last)
      BY <1>1, <1>4, <1>5, BlocksHoldBytes
    <2>2. Start[last] \in Int /\ Start[last + 1] \in Int
      BY <1>5, Starts
    <2>3. QED BY <1>2, <1>3, <1>5, <2>1, <2>2 DEF In
  <1>8. used[last + 1] \in Blocks
    <2>1. last + 1 \in 1 .. Len(used)
      BY <1>5
    <2>2. QED BY <1>2, <2>1, ElementOfSeq
  <1>9. IsBlock(d[head], last, size, used)
    <2>1. PICK m \in 1 .. Len(used) : m = last + 1 /\ m - 1 = last
      <3>1. last + 1 \in 1 .. Len(used)
        BY <1>2, <1>5
      <3>2. QED BY <3>1
    <2>2. IsBlock(d[used[m]], m - 1, EndOf(used, size, m), used)
      BY <1>1, <2>1 DEF IsFile
    <2>3. EndOf(used, size, m) = size
      BY <1>5, <2>1 DEF EndOf
    <2>4. QED BY <1>6, <2>1, <2>2, <2>3
  <1>10. \A k \in 1 .. last : used[k] # used[last + 1] /\ EndOf(used, size, k) = Start[k]
    <2>1. SUFFICES ASSUME NEW k \in 1 .. last
                   PROVE  used[k] # used[last + 1] /\ EndOf(used, size, k) = Start[k]
      OBVIOUS
    <2>2. k # last + 1 /\ k \in 1 .. Len(used) /\ last + 1 \in 1 .. Len(used)
      BY <1>2, <1>5, Earlier
    <2>3. used[k] # used[last + 1]
      BY <1>1, <2>2 DEF IsFile
    <2>4. QED BY <1>5, <2>2, <2>3 DEF EndOf
  <1>11. IsFile([d EXCEPT ![head] = Append(d[head], Byte(size))], used, size + 1)
    <2>1. last <= Len(used)
      BY <1>5
    <2>2. QED BY <1>1, <1>2, <1>3, <1>5, <1>6, <1>7, <1>8, <1>9, <1>10, <2>1, FileGrows
  <1>12. d' = [d EXCEPT ![head] = Append(d[head], Byte(size))]
    BY DEF Continue
  <1>13. size' = size + 1 /\ head' = head /\ used' = used
    BY DEF Continue
  <1>14. QED BY <1>1, <1>5, <1>6, <1>11, <1>12, <1>13 DEF CtzInv

(* ... and so does one that copies the last block, or goes on in a new one. *)
LEMMA ExtendKeeps == CtzInv /\ (\E x \in Free : Extend(x)) => CtzInv'
  <1> SUFFICES ASSUME CtzInv, NEW x \in Free, Extend(x) PROVE CtzInv'
    OBVIOUS
  <1>1. IsFile(d, used, size) /\ write' \in Writes
    BY DEF CtzInv, Extend
  <1>2. size \in 0 .. MaxSize /\ size \in Nat /\ used \in Seq(Blocks) /\ Len(used) \in Nat
    BY <1>1, Sizes DEF IsFile
  <1>3. x \in Blocks /\ \A k \in 1 .. Len(used) : used[k] # x
    BY <1>2 DEF Free
  <1>4. size < MaxSize /\ size' = size + 1 /\ head' = x
    BY DEF Extend
  <1> DEFINE s == lfs_ctz_extend(d, head, size)
  <1>5. d' = [d EXCEPT ![x] = Append(s, Byte(size))]
    BY DEF Extend
  <1>6. used' = IF AtEnd THEN Append(used, x) ELSE [used EXCEPT ![Len(used)] = x]
    BY DEF Extend
  <1>7. AtEnd <=> size = Start[Len(used)]
    BY DEF AtEnd
  <1> HIDE DEF s
  \* It is enough that the block starts as block `last` should.
  <1>8. ASSUME NEW last \in Nat, used' \in Seq(Blocks), Len(used') = last + 1, last <= Len(used),
               \A k \in 1 .. last : used'[k] = used[k], used'[last + 1] = x,
               \A k \in 1 .. last : EndOf(used, size, k) = Start[k],
               In(size, last), IsBlock(s, last, size, used)
        PROVE  CtzInv'
    <2>1. \A k \in 1 .. last : used[k] # x
      BY <1>2, <1>3, <1>8
    <2> DEFINE v == used'
    <2>2. /\ v \in Seq(Blocks) /\ Len(v) = last + 1 /\ v[last + 1] = x
          /\ \A k \in 1 .. last : v[k] = used[k]
      BY <1>8
    <2> HIDE DEF v
    <2>3. IsFile([d EXCEPT ![x] = Append(s, Byte(size))], v, size + 1)
      BY <1>1, <1>3, <1>4, <1>8, <2>1, <2>2, FileGrows
    <2>4. IsFile(d', used', size')
      BY <1>4, <1>5, <2>3 DEF v
    <2>5. head' = used'[Len(used')]
      BY <1>4, <1>8
    <2>6. QED BY <1>1, <2>4, <2>5 DEF CtzInv
  <1>9. CASE size = 0
    <2>1. used = <<>> /\ Len(used) = 0
      BY <1>1, <1>9 DEF IsFile
    <2>2. used' = Append(<<>>, x)
      BY <1>6, <1>7, <1>9, <2>1, Starts
    <2>3. used' \in Seq(Blocks) /\ Len(used') = 0 + 1 /\ used'[0 + 1] = x
      BY <1>3, <2>2
    <2>4. 1 .. 0 = {} /\ 0 \in 0 .. LastIndex + 1
      BY Sizes
    <2>5. In(size, 0)
      <3>1. Start[0] = 0 /\ Start[0] + 1 <= Start[0 + 1] /\ Start[0 + 1] \in Int
        BY <2>4, Starts, StartsGrow
      <3>2. QED BY <1>9, <3>1 DEF In
    <2>6. IsBlock(s, 0, size, used)
      <3>1. s = <<>> /\ s \in Seq(Nat) /\ Len(s) = 0
        BY <1>9 DEF s, lfs_ctz_extend
      <3>2. PtrSize * Pointers(0) = 0
        <4>1. \A p \in Nat : p * 0 = 0
          OBVIOUS
        <4>2. QED BY <4>1, Sizes, PointersAre
      <3>3. 1 .. Len(s) = {} /\ Len(s) = size - Start[0] + PtrSize * Pointers(0)
        BY <1>9, <3>1, <3>2, Starts
      <3>4. QED BY <3>1, <3>3 DEF IsBlock
    <2>7. QED BY <1>8, <2>1, <2>3, <2>4, <2>5, <2>6
  <1>10. CASE size # 0
    <2>1. PICK l \in Nat : l + 1 = Len(used) /\ l = Len(used) - 1 /\ l \in 0 .. LastIndex
      <3>1. Len(used) \in Nat \ {0} /\ Len(used) - 1 \in 0 .. LastIndex
        BY <1>1, <1>10, BlocksHoldBytes
      <3>2. QED BY <3>1
    <2>2. head = used[l + 1]
      BY <1>10, <2>1 DEF CtzInv
    <2>3. In(size - 1, l) /\ size - 1 \in 0 .. MaxSize
      BY <1>1, <1>10, <2>1, BlocksHoldBytes
    <2>4. Start[l] \in Int /\ Start[l + 1] \in Int
      BY <2>1, Starts
    <2>5. PICK y \in Nat : y = PtrSize * Pointers(l)
      <3>1. l \in 0 .. LastIndex + 1
        BY <2>1, Sizes
      <3>2. QED BY <3>1, PointersFit
    <2>6. Start[l + 1] = Start[l] + BlockSize - y
      BY <2>1, <2>5, Starts
    <2>7. lfs_ctz_index(size - 1) = PlaceOf(size - 1, l)
      BY <2>1, <2>3, IndexIs
    <2>8. lfs_ctz_index(size - 1).index = l /\ lfs_ctz_index(size - 1).off = size - 1 - Start[l] + y
      BY <2>5, <2>7 DEF PlaceOf
    <2>9. PICK g \in Int, h \in Int : g = Start[l] /\ h = Start[l + 1]
      BY <2>4
    <2>10. (size - 1 - g + y) + 1 = size - g + y /\ size - g + y \in Int
      BY <1>2
    <2>11. PICK noff \in Int : noff = lfs_ctz_index(size - 1).off + 1 /\ noff = size - Start[l] + y
      BY <2>8, <2>9, <2>10
    <2>12. s = IF noff # BlockSize THEN SubSeq(d[head], 1, noff) ELSE NextPointers(d, head, l)
      BY <1>10, <2>8, <2>11 DEF s, lfs_ctz_extend
    <2>13. noff = BlockSize <=> size = Start[l + 1]
      <3>1. h = g + BlockSize - y /\ noff = size - g + y /\ BlockSize \in Int
        BY <2>6, <2>11, <2>9, Sizes
      <3>2. noff = BlockSize <=> size = h
        BY <1>2, <3>1
      <3>3. QED BY <2>9, <3>2
    <2>14. PICK m \in 1 .. Len(used) : m = l + 1 /\ m - 1 = l
      <3>1. l + 1 \in 1 .. Len(used)
        BY <1>2, <2>1
      <3>2. QED BY <3>1
    <2>15. IsBlock(d[head], l, size, used)
      <3>1. IsBlock(d[used[m]], m - 1, EndOf(used, size, m), used)
        BY <1>1, <2>14 DEF IsFile
      <3>2. EndOf(used, size, m) = size
        BY <2>1, <2>14 DEF EndOf
      <3>3. QED BY <2>2, <2>14, <3>1, <3>2
    <2>16. CASE AtEnd
      <3>1. size = Start[m] /\ In(size, m)
        <4>1. size = Start[m]
          BY <1>7, <2>1, <2>14, <2>16
        <4>2. m \in 0 .. LastIndex
          BY <1>2, <4>1, BlockIsReached
        <4>3. m \in 0 .. LastIndex + 1
          BY <4>2, Sizes
        <4>4. Start[m] + 1 <= Start[m + 1] /\ Start[m + 1] \in Int
          BY <4>3, StartsGrow, Starts
        <4>5. QED BY <1>2, <4>1, <4>4 DEF In
      <3>2. s = NextPointers(d, used[l + 1], l)
        BY <2>2, <2>12, <2>13, <2>14, <3>1
      <3>3. IsBlock(s, m, size, used)
        <4>1. Linked(d, used)
          BY <1>1, <1>10, FileIsLinked
        <4>2. IsBlock(NextPointers(d, used[l + 1], l), l + 1, Start[l + 1], used)
          BY <1>2, <2>1, <4>1, FreshBlock
        <4>3. QED BY <2>14, <3>1, <3>2, <4>2
      <3>4. used' = Append(used, x) /\ m \in Nat /\ m = Len(used)
        BY <1>6, <2>1, <2>14, <2>16
      <3>5. used' \in Seq(Blocks) /\ Len(used') = m + 1 /\ used'[m + 1] = x
            /\ \A k \in 1 .. m : used'[k] = used[k]
        BY <1>2, <1>3, <3>4
      <3>6. \A k \in 1 .. m : EndOf(used, size, k) = Start[k]
        BY <3>1, <3>4 DEF EndOf
      <3>7. m <= Len(used)
        BY <3>4
      <3>8. QED BY <1>8, <3>1, <3>3, <3>4, <3>5, <3>6, <3>7
    <2>17. CASE ~ AtEnd
      <3>1. size # Start[l + 1] /\ noff # BlockSize
        BY <1>7, <2>1, <2>13, <2>17
      <3>2. In(size, l)
        BY <1>2, <2>3, <2>4, <3>1 DEF In
      <3>3. d[head] \in Seq(Nat) /\ Len(d[head]) = noff
        BY <2>5, <2>11, <2>15 DEF IsBlock
      <3>4. SubSeq(d[head], 1, noff) = d[head]
        BY <3>3, SubSeqFull
      <3>5. IsBlock(s, l, size, used)
        BY <2>12, <2>15, <3>1, <3>4
      <3>6. used' = [used EXCEPT ![l + 1] = x]
        BY <1>6, <2>1, <2>17
      <3>7. used' \in Seq(Blocks) /\ Len(used') = l + 1 /\ used'[l + 1] = x
            /\ \A k \in 1 .. l : used'[k] = used[k]
        <4>1. /\ l + 1 = Len(used) /\ Len(used) \in 1 .. Len(used)
              /\ \A k \in 1 .. l : k \in 1 .. Len(used) /\ k # Len(used)
          BY <1>2, <2>1, Earlier
        <4>2. \A v \in Seq(Blocks) : \A j \in 1 .. Len(v) :
                /\ [v EXCEPT ![j] = x] \in Seq(Blocks) /\ Len([v EXCEPT ![j] = x]) = Len(v)
                /\ [v EXCEPT ![j] = x][j] = x
                /\ \A k \in 1 .. Len(v) : k # j => [v EXCEPT ![j] = x][k] = v[k]
          BY <1>3
        <4>3. /\ used' \in Seq(Blocks) /\ Len(used') = Len(used) /\ used'[Len(used)] = x
              /\ \A k \in 1 .. Len(used) : k # Len(used) => used'[k] = used[k]
          BY <1>2, <3>6, <4>1, <4>2
        <4>4. QED BY <4>1, <4>3
      <3>8. \A k \in 1 .. l : EndOf(used, size, k) = Start[k]
        BY <1>2, <2>1, Earlier DEF EndOf
      <3>9. l <= Len(used)
        BY <2>1
      <3>10. QED BY <1>8, <3>2, <3>5, <3>7, <3>8, <3>9
    <2>18. QED BY <2>16, <2>17
  <1>11. QED BY <1>9, <1>10

(* Whatever a file is written with, and whichever blocks it gets, every    *)
(* byte of it is found, all its blocks are reported, and no block          *)
(* overflows (lfs.c:2639-2828).                                            *)
THEOREM FilesLaidOut == WriterSpec => []FilesRight
  <1>1. WriterInit => CtzInv
    BY EmptyIsFile
  <1>2. CtzInv /\ [WriterNext]_writerVars => CtzInv'
    <2>1. CtzInv /\ UNCHANGED writerVars => CtzInv'
      <3>1. SUFFICES ASSUME CtzInv, UNCHANGED writerVars PROVE CtzInv'
        OBVIOUS
      <3>2. d' = d /\ head' = head /\ size' = size /\ used' = used /\ write' = write
        BY <3>1 DEF writerVars
      <3>3. QED BY <3>1, <3>2 DEF CtzInv
    <2>2. QED BY <2>1, ContinueKeeps, ExtendKeeps DEF WriterNext
  <1>3. CtzInv => FilesRight
    BY InvIsRight
  <1>4. QED BY <1>1, <1>2, <1>3, PTL DEF WriterSpec
=============================================================================
