---------------------------- MODULE MCHostBridge ----------------------------
(* HostBridge for TLC: encoder_reader has no argument and a result, like   *)
(* the button's and the encoder's calls; display has an argument and no    *)
(* result; file has both.                                                  *)
EXTENDS HostBridge

CONSTANTS encoder_reader, display, file

MCArg == [c \in Caller |-> IF c = encoder_reader THEN 0 ELSE IF c = display THEN 2 ELSE 1]
MCRet == [c \in Caller |-> IF c = encoder_reader THEN 2 ELSE IF c = display THEN 0 ELSE 1]

=============================================================================
