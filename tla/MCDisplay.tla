----------------------------- MODULE MCDisplay -----------------------------
(***************************************************************************)
(* The frame buffer and the driver that sends it, for TLC.  The driver     *)
(* keeps to one byte of the buffer, so that the two are checked by turns:  *)
(* a behaviour is one of drawing, with every glyph of black and white      *)
(* lines, or one of sending, with a byte drawn at any moment.              *)
(***************************************************************************)
EXTENDS Display, DisplayDriver

VARIABLE part

MCPicture == {0, 255}
MCGlyph == [GlyphLine -> MCPicture]

Draws == part = "drawing" /\ UNCHANGED <<part, driverVars>>
Sends == part = "sending" /\ UNCHANGED <<part, display_fb>>

MCInit == part \in {"drawing", "sending"} /\ Init /\ DriverInit

MCNext ==
  \/ \E val \in Picture : Draws /\ display_fill(val)
  \/ \E glyph \in Glyph, x \in -Bound .. Columns + Bound, y \in -Bound .. TextRows + Bound,
        invert \in BOOLEAN : Draws /\ display_draw_glyph(glyph, x, y, invert)
  \/ Sends /\ Alarm
  \/ Sends /\ dma_done_handler
  \/ Sends /\ DmaSends
  \/ Sends /\ SpiShifts
  \/ Sends /\ CoreDraws
  \/ Sends /\ Tick

mcVars == <<part, display_fb, driverVars>>

\* The hardware keeps sending and the interrupts it raises are handled.
MCSpec ==
  /\ MCInit /\ [][MCNext]_mcVars
  /\ WF_mcVars(Alarm /\ Sends) /\ WF_mcVars(dma_done_handler /\ Sends)
  /\ WF_mcVars(DmaSends /\ Sends) /\ WF_mcVars(SpiShifts /\ Sends) /\ WF_mcVars(Tick /\ Sends)

(* Transmissions go on for ever, and what the core has drawn is shown.     *)
(* (The handlers of display_driver.c start each other, without end.)       *)
DrawingsAreSent == part = "sending" => SendsForever /\ DrawnIsShown

=============================================================================
