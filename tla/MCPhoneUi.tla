----------------------------- MODULE MCPhoneUi -----------------------------
(* PhoneUi for TLC.  The user turns the encoder back by five steps at once, *)
(* from the first entry to the second: turning back is where the selection *)
(* needs the correction of a negative remainder, and the second entry      *)
(* opens the texts.                                                        *)
EXTENDS PhoneUi

MCTurn == {-5}
MCTask == HostCaller \cup Loaders

=============================================================================
