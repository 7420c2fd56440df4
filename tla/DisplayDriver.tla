--------------------------- MODULE DisplayDriver ---------------------------
(***************************************************************************)
(* pico-phone/platform/display_driver.c: the frame buffer is sent to the   *)
(* display over and over, by DMA, without the processor but for two        *)
(* interrupt handlers.  When a transfer is done, dma_done_handler ends it  *)
(* and sets an alarm; the alarm's callback starts the next.                *)
(*                                                                         *)
(* The DMA feeds the queue of the SPI, which shifts the bytes out; the     *)
(* display takes what is shifted out while it is selected.  Meanwhile the  *)
(* core draws: one byte of the buffer is followed on its way.              *)
(*                                                                         *)
(* Time is in ticks of 100 us.  The DMA and the SPI move a byte when they  *)
(* like, and an interrupt is handled some time after it was raised: the    *)
(* core code masks none, but handlers of other devices may run first.      *)
(***************************************************************************)
EXTENDS Integers

CONSTANTS
  SendLen,    \* bytes of a transmission
  FifoDepth,  \* bytes the SPI's transmit queue holds
  Watched,    \* position of a byte that the core draws into
  MaxLatency, \* bound: ticks until an interrupt is handled
  MaxLow      \* bound: ticks counted of the select line being low

ASSUME DriverAssumption ==
  SendLen \in Nat \ {0} /\ FifoDepth \in Nat \ {0} /\ Watched \in 1 .. SendLen - FifoDepth - 1
  /\ MaxLatency \in Nat /\ MaxLow \in Nat /\ MaxLow > 2 + MaxLatency

VARIABLES
  vcom,       \* the command byte, display_fb[0]
  cs,         \* the select line, active high
  dma_left,   \* bytes the DMA has still to send
  fifo,       \* bytes in the SPI's queue
  drawn,      \* the byte at Watched: in the frame buffer,
  queued,     \*   as the DMA read it last,
  shown,      \*   and on the display
  ints0,      \* the DMA's interrupt is raised
  alarm,      \* ticks until the alarm, or NoAlarm; negative when it is late
  irq_age,    \* ticks since the DMA's interrupt was raised
  low_for,    \* ticks since cs went low, up to MaxLow
  sent        \* the command bytes of the current and of the last transmission

spi == <<fifo, drawn, queued, shown>>
driverVars == <<vcom, cs, dma_left, spi, ints0, alarm, irq_age, low_for, sent>>

VCOM_HIGH == 192  \* 0b11000000
VCOM_LOW == 128   \* 0b10000000

NoAlarm == 1000

Bug_not_toggled(byte) == VCOM_HIGH
Bug_wrong_mask(byte) == VCOM_HIGH - byte  \* byte ^ VCOM_HIGH
Toggled(byte) == IF byte = VCOM_HIGH THEN VCOM_LOW ELSE VCOM_HIGH

(* The DMA reads the command byte first, once it has been started. *)
transmit_alarm_callback ==
  /\ vcom' = Toggled(vcom)
  /\ cs' = 1
  /\ low_for' = 0
  /\ dma_left' = SendLen
  /\ sent' = <<Toggled(vcom), sent[1]>>

Alarm ==
  /\ alarm <= 0
  /\ alarm' = NoAlarm
  /\ transmit_alarm_callback
  /\ UNCHANGED <<ints0, irq_age, spi>>

(* add_alarm_in_us(200, ...) *)
Bug_no_alarm == NoAlarm
AlarmDelay == 2

dma_done_handler ==
  /\ ints0
  /\ cs' = 0
  /\ ints0' = FALSE
  /\ irq_age' = 0
  /\ alarm' = AlarmDelay
  /\ UNCHANGED <<vcom, dma_left, low_for, sent, spi>>

(* The DMA passes a byte to the SPI when that has room (its DREQ), and     *)
(* after the last raises its interrupt.                                    *)
Bug_raised_early == dma_left = 2
LastByte == dma_left = 1

Bug_not_incremented == 0
ReadAt == SendLen - dma_left

DmaSends ==
  /\ dma_left > 0 /\ fifo < FifoDepth
  /\ dma_left' = dma_left - 1
  /\ fifo' = fifo + 1
  /\ queued' = IF ReadAt = Watched THEN drawn ELSE queued
  /\ ints0' = LastByte
  /\ UNCHANGED <<vcom, cs, alarm, irq_age, low_for, sent, drawn, shown>>

\* Position of the byte at the front of the queue.
Front == SendLen - dma_left - fifo

SpiShifts ==
  /\ fifo > 0
  /\ fifo' = fifo - 1
  /\ shown' = IF Front = Watched /\ cs = 1 THEN queued ELSE shown
  /\ UNCHANGED <<vcom, cs, dma_left, alarm, ints0, irq_age, low_for, sent, drawn, queued>>

(* display_draw_glyph and display_fill, at any moment. *)
CoreDraws ==
  /\ drawn' = 1 - drawn
  /\ UNCHANGED <<vcom, cs, dma_left, alarm, ints0, irq_age, low_for, sent, fifo, queued, shown>>

\* At 2 MHz the queue is empty again within a tick.
Tick ==
  /\ dma_left = 0 => fifo = 0
  /\ ints0 => irq_age < MaxLatency
  /\ alarm > - MaxLatency
  /\ irq_age' = IF ints0 THEN irq_age + 1 ELSE 0
  /\ alarm' = IF alarm = NoAlarm THEN NoAlarm ELSE alarm - 1
  /\ low_for' = IF cs = 0 /\ low_for < MaxLow THEN low_for + 1 ELSE low_for
  /\ UNCHANGED <<vcom, cs, dma_left, spi, ints0, sent>>

(* display_driver_init calls transmit_alarm_callback itself; the select    *)
(* line has been low since the reset.                                      *)
DriverInit ==
  /\ vcom = Toggled(0) /\ sent = <<Toggled(0), 0>>
  /\ cs = 1 /\ low_for = 0
  /\ dma_left = SendLen
  /\ fifo = 0 /\ drawn = 0 /\ queued = 0 /\ shown = 0
  /\ ints0 = FALSE /\ irq_age = 0
  /\ alarm = NoAlarm

DriverNext == Alarm \/ dma_done_handler \/ DmaSends \/ SpiShifts \/ CoreDraws \/ Tick

(* The hardware keeps sending and the interrupts it raises are handled.    *)
DriverSpec ==
  /\ DriverInit /\ [][DriverNext]_driverVars
  /\ WF_driverVars(Alarm) /\ WF_driverVars(dma_done_handler) /\ WF_driverVars(DmaSends) /\ WF_driverVars(SpiShifts)
  /\ WF_driverVars(Tick)

-----------------------------------------------------------------------------
(* Properties *)

(* The types of the driver's state. *)
DriverTypeOK ==
  /\ vcom \in {VCOM_HIGH, VCOM_LOW} /\ cs \in {0, 1}
  /\ dma_left \in 0 .. SendLen /\ fifo \in 0 .. FifoDepth
  /\ drawn \in 0 .. 1 /\ queued \in 0 .. 1 /\ shown \in 0 .. 1
  /\ ints0 \in BOOLEAN /\ irq_age \in 0 .. MaxLatency
  /\ alarm \in - MaxLatency .. AlarmDelay \/ alarm = NoAlarm
  /\ low_for \in 0 .. MaxLow

(* The line stays selected until the whole transmission is out, and what   *)
(* sent it is over before the next is prepared: the interrupt and the      *)
(* alarm take turns.  (dma_done_handler, transmit_alarm_callback.)         *)
OneTransmission ==
  /\ dma_left > 0 => cs = 1 /\ ~ ints0 /\ alarm = NoAlarm
  /\ ints0 => alarm = NoAlarm

(* Consecutive transmissions carry opposite VCOM bits.  (The display's     *)
(* polarity has to be inverted all the time.)                              *)
VcomAlternates == sent[1] # sent[2]

(* Transmissions never cease: each leads to the next through both handlers. *)
SendsForever == []<>(dma_left = SendLen)

(* What the core has drawn reaches the display once it draws no more, even *)
(* if it drew while the byte was being sent (display_driver.c:24,          *)
(* display.c:30-53 without any lock): the next transmission has it.        *)
DrawnIsShown == \A v \in 0 .. 1 : <>[](drawn = v) => <>[](shown = v)

(* All that holds of the driver between any two steps.                     *)
DriverInv == DriverTypeOK /\ OneTransmission /\ VcomAlternates

(* When the select line is dropped the transmission is done, as the        *)
(* comment in dma_done_handler says: no byte of it is still to be shifted  *)
(* out.                                                                    *)
TransmissionDone == [][cs = 1 /\ cs' = 0 => fifo = 0]_driverVars

(* Between two transmissions the select line is low for 100 ms at least,   *)
(* the shortest the comment in dma_done_handler says to work.              *)
LowLongEnough == [][cs = 0 /\ cs' = 1 => low_for >= 1000]_driverVars

=============================================================================
