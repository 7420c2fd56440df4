----------------------------- MODULE LfsRecord -----------------------------
(***************************************************************************)
(* What a metadata pair of littlefs promises: it is a record that is       *)
(* replaced as a whole.  A call that stores a value may take effect at any *)
(* time until it returns, and has when it returns without an error; a loss *)
(* of power ends the call and changes nothing.                             *)
(***************************************************************************)
CONSTANTS Values, Nothing

VARIABLES
  value,   \* what a mount would find
  asked,   \* the value a call is storing, or Nothing
  answer   \* of the last call: "ok", "error", or "none" if power was lost

vars == <<value, asked, answer>>

Init == value \in Values /\ asked = Nothing /\ answer = "none"

Ask == asked = Nothing /\ asked' \in Values /\ answer' = "none" /\ UNCHANGED value
TakesEffect == asked # Nothing /\ value' = asked /\ UNCHANGED <<asked, answer>>
Returns ==
  /\ asked # Nothing /\ asked' = Nothing /\ value' \in {value, asked}
  /\ answer' = "error" \/ (answer' = "ok" /\ value' = asked)
PowerLost == asked' = Nothing /\ answer' = "none" /\ UNCHANGED value

Next == Ask \/ TakesEffect \/ Returns \/ PowerLost
Spec == Init /\ [][Next]_vars
=============================================================================
