--------------------------- MODULE DisplayProofs ---------------------------
(***************************************************************************)
(* For a display of any size: drawing stays inside the frame buffer and    *)
(* off its framing, and the buffer is the grid of cells TextGrid.          *)
(***************************************************************************)
EXTENDS Display, DisplayDriver, TLAPS

(* A larger multiple is larger by at least the factor.                     *)
LEMMA Multiples ==
  ASSUME NEW w \in Nat \ {0}, NEW k \in Int, NEW m \in Int, k < m
  PROVE  w * k + w <= w * m
  <1>1. w * (m - k - 1) >= 0
    BY m - k - 1 >= 0, SMT
  <1>2. w * (m - k - 1) = w * m - w * k - w
    OBVIOUS
  <1> QED
    BY <1>1, <1>2

(* Quotient and remainder are unique.                                      *)
LEMMA Unique ==
  ASSUME NEW w \in Nat \ {0}, NEW k \in Int, NEW m \in Int,
         NEW r \in 0 .. w - 1, NEW s \in 0 .. w - 1, w * k + r = w * m + s
  PROVE  k = m /\ r = s
  <1>1. w * k \in Int /\ w * m \in Int
    OBVIOUS
  <1>2. CASE k < m
    BY <1>1, <1>2, Multiples
  <1>3. CASE m < k
    BY <1>1, <1>3, Multiples
  <1>4. CASE k = m
    BY <1>1, <1>4
  <1> QED
    BY <1>2, <1>3, <1>4

(* Division with remainder.                                                *)
LEMMA DivMod ==
  ASSUME NEW w \in Nat \ {0}, NEW n \in Int
  PROVE  n \div w \in Int /\ n % w \in 0 .. w - 1 /\ n = w * (n \div w) + (n % w)
  BY SMT

(* The lines of the glyphs in a row of cells are lines of the display.     *)
LEMMA LineOnDisplay ==
  ASSUME NEW y \in 0 .. TextRows - 1, NEW i \in GlyphLine
  PROVE  FirstLine(y) + i \in LineNumbers
  <1> USE DisplayAssumption
  <1>1. y * GlyphLines \in Nat /\ TextRows * GlyphLines \in Nat
    OBVIOUS
  <1>2. GlyphLines * y + GlyphLines <= GlyphLines * TextRows
    BY Multiples
  <1>3. GlyphLines * y = y * GlyphLines /\ GlyphLines * TextRows = TextRows * GlyphLines
    OBVIOUS
  <1> QED
    BY <1>1, <1>2, <1>3 DEF FirstLine, GlyphLine, LineNumbers

(* A byte of a cell is a byte of pixels.                                   *)
LEMMA CellInPixels ==
  ASSUME NEW x \in 0 .. Columns - 1, NEW y \in 0 .. TextRows - 1, NEW i \in GlyphLine
  PROVE  ByteAt(x, y, i) \in PixelArea
  <1>1. FirstLine(y) + i \in LineNumbers /\ LineLen * (FirstLine(y) + i) \in Int
    BY LineOnDisplay, DisplayAssumption DEF LineNumbers, LineLen
  <1>2. ByteAt(x, y, i) = AddressAt(FirstLine(y) + i) + 1 + x
    BY <1>1 DEF ByteAt, PixelsAt, AddressAt
  <1> QED
    BY <1>1, <1>2 DEF PixelArea

(* The fill and the layout agree on where the pixels are.                  *)
LEMMA FillIsPixels ==
  {PixelsAt(l) + x : l \in LineNumbers, x \in 0 .. Columns - 1} = PixelArea
  <1>1. \A l \in LineNumbers, x \in 0 .. Columns - 1 : PixelsAt(l) + x = AddressAt(l) + 1 + x
    <2> SUFFICES ASSUME NEW l \in LineNumbers, NEW x \in 0 .. Columns - 1
                 PROVE  PixelsAt(l) + x = AddressAt(l) + 1 + x
      OBVIOUS
    <2>1. LineLen * l \in Int /\ x \in Int
      BY DisplayAssumption DEF LineNumbers, LineLen
    <2> QED
      BY <2>1 DEF PixelsAt, AddressAt
  <1> QED
    BY <1>1 DEF PixelArea

(* The pixels are in the frame buffer.                                     *)
LEMMA PixelsInBuffer == PixelArea \subseteq 0 .. FB_LEN - 1
  <1> USE DisplayAssumption
  <1>1. SUFFICES ASSUME NEW l \in LineNumbers, NEW x \in 0 .. Columns - 1
                 PROVE  AddressAt(l) + 1 + x \in 0 .. FB_LEN - 1
    BY DEF PixelArea
  <1>2. LineLen \in Nat \ {0} /\ TextRows * GlyphLines \in Nat
    BY DEF LineLen
  <1>3. l \in Nat /\ l < TextRows * GlyphLines
    BY <1>2 DEF LineNumbers
  <1>4. LineLen * l + LineLen <= LineLen * (TextRows * GlyphLines)
    BY <1>2, <1>3, Multiples
  <1>5. LineLen * l \in Nat /\ LineLen * (TextRows * GlyphLines) \in Nat
    BY <1>2, <1>3
  <1> QED
    BY <1>4, <1>5 DEF AddressAt, FB_LEN, LineLen

(* The buffer keeps its extent, and what is not pixels its initial value.  *)
FramingInv ==
  /\ DOMAIN display_fb = 0 .. FB_LEN - 1
  /\ FramingIntact

(* A store into pixels only keeps the framing.                             *)
LEMMA StoreKeepsFraming ==
  ASSUME FramingInv, NEW bytes, DOMAIN bytes \subseteq PixelArea,
         display_fb' = Store(display_fb, bytes)
  PROVE  FramingInv'
  <1>1. DOMAIN display_fb' = 0 .. FB_LEN - 1
    BY PixelsInBuffer DEF FramingInv, Store
  <1>2. FramingIntact'
    <2> SUFFICES ASSUME NEW p \in 0 .. FB_LEN - 1, p \notin PixelArea
                 PROVE  display_fb'[p] = display_init[p]
      BY DEF FramingIntact
    <2>1. display_fb'[p] = display_fb[p]
      BY DEF Store, FramingInv
    <2> QED
      BY <2>1 DEF FramingInv, FramingIntact
  <1> QED
    BY <1>1, <1>2 DEF FramingInv

(* The invariant is inductive.                                             *)
LEMMA FramingStep == FramingInv /\ [Next]_display_fb => FramingInv'
  <1> SUFFICES ASSUME FramingInv, [Next]_display_fb PROVE FramingInv'
    OBVIOUS
  <1>1. ASSUME NEW val \in Picture, display_fill(val) PROVE FramingInv'
    <2> DEFINE bytes == [p \in PixelArea |-> val]
    <2>1. DOMAIN bytes \subseteq PixelArea /\ display_fb' = Store(display_fb, bytes)
      BY <1>1, FillIsPixels DEF display_fill
    <2> QED
      BY <2>1, StoreKeepsFraming
  <1>2. ASSUME NEW glyph \in Glyph, NEW x \in -Bound .. Columns + Bound,
               NEW y \in -Bound .. TextRows + Bound, NEW invert \in BOOLEAN,
               display_draw_glyph(glyph, x, y, invert)
        PROVE  FramingInv'
    <2> DEFINE bytes == [p \in {ByteAt(x, y, i) : i \in GlyphLine} |->
                           Drawn(glyph, invert, (p \div LineLen) - FirstLine(y))]
    <2>1. x \in 0 .. Columns - 1 /\ y \in 0 .. TextRows - 1
      BY <1>2, DisplayAssumption DEF display_draw_glyph, OnGrid
    <2>2. DOMAIN bytes \subseteq PixelArea
      BY <2>1, CellInPixels
    <2>3. display_fb' = Store(display_fb, bytes)
      BY <1>2 DEF display_draw_glyph
    <2> QED
      BY <2>2, <2>3, StoreKeepsFraming
  <1>3. CASE UNCHANGED display_fb
    BY <1>3 DEF FramingInv, FramingIntact
  <1> QED
    BY <1>1, <1>2, <1>3 DEF Next

(* display_init writes the framing, and nothing drawn after that, at any   *)
(* position and for a display of any size, touches it again.               *)
THEOREM FramingKept == Spec => []FramingIntact
  <1>1. Init => FramingInv
    BY DEF Init, display_init, FramingInv, FramingIntact
  <1>2. FramingInv => FramingIntact
    BY DEF FramingInv
  <1> QED
    BY <1>1, <1>2, FramingStep, PTL DEF Spec

-----------------------------------------------------------------------------
(* The buffer as a grid *)

CellPlaces == (0 .. Columns - 1) \X (0 .. TextRows - 1)
CellBytes(fb) == [c \in CellPlaces |-> [i \in GlyphLine |-> fb[ByteAt(c[1], c[2], i)]]]

(* A byte determines the cell and the line it is of.                       *)
LEMMA ByteOfOne ==
  ASSUME NEW x \in 0 .. Columns - 1, NEW y \in 0 .. TextRows - 1, NEW i \in GlyphLine,
         NEW u \in 0 .. Columns - 1, NEW v \in 0 .. TextRows - 1, NEW j \in GlyphLine,
         ByteAt(x, y, i) = ByteAt(u, v, j)
  PROVE  x = u /\ y = v /\ i = j
  <1> USE DisplayAssumption
  <1> DEFINE k == FirstLine(y) + i
             m == FirstLine(v) + j
  <1>1. k \in Int /\ m \in Int
    BY LineOnDisplay DEF LineNumbers
  <1>2. LineLen * k + (x + 2) = LineLen * m + (u + 2)
    <2>1. LineLen * k \in Int /\ LineLen * m \in Int
      BY <1>1 DEF LineLen
    <2> QED
      BY <2>1 DEF ByteAt, PixelsAt
  <1>3. LineLen \in Nat \ {0} /\ x + 2 \in 0 .. LineLen - 1 /\ u + 2 \in 0 .. LineLen - 1
    BY DEF LineLen
  <1>4. k = m /\ x + 2 = u + 2
    <2> HIDE DEF k, m
    <2> QED
      BY <1>1, <1>2, <1>3, Unique
  <1>5. GlyphLines * y + i = GlyphLines * v + j
    BY <1>4 DEF FirstLine
  <1>6. y = v /\ i = j
    <2>1. GlyphLines \in Nat \ {0} /\ y \in Int /\ v \in Int
      OBVIOUS
    <2>2. i \in 0 .. GlyphLines - 1 /\ j \in 0 .. GlyphLines - 1
      BY DEF GlyphLine
    <2> HIDE DisplayAssumption
    <2> HIDE DEF k, m
    <2> QED
      BY <1>5, <2>1, <2>2, Unique
  <1> QED
    BY <1>4, <1>6

(* The line of the glyph a byte is of, as display_draw_glyph counts it.    *)
LEMMA LineOfByte ==
  ASSUME NEW x \in 0 .. Columns - 1, NEW y \in 0 .. TextRows - 1, NEW i \in GlyphLine
  PROVE  (ByteAt(x, y, i) \div LineLen) - FirstLine(y) = i
  <1> USE DisplayAssumption
  <1> DEFINE k == FirstLine(y) + i
             q == ByteAt(x, y, i) \div LineLen
             r == ByteAt(x, y, i) % LineLen
  <1>1. k \in Int /\ FirstLine(y) \in Int
    <2>1. FirstLine(y) \in Int
      BY DEF FirstLine
    <2> QED
      BY <2>1, LineOnDisplay DEF LineNumbers
  <1>2. LineLen \in Nat \ {0} /\ x + 2 \in 0 .. LineLen - 1
    BY DEF LineLen
  <1>3. ByteAt(x, y, i) \in Int /\ ByteAt(x, y, i) = LineLen * k + (x + 2)
    <2>1. LineLen * k \in Int
      BY <1>1, <1>2
    <2> QED
      BY <2>1 DEF ByteAt, PixelsAt
  <1>4. q \in Int /\ r \in 0 .. LineLen - 1 /\ ByteAt(x, y, i) = LineLen * q + r
    BY <1>2, <1>3, DivMod
  <1>5. q = k
    <2> HIDE DEF k, q, r
    <2> QED
      BY <1>1, <1>2, <1>3, <1>4, Unique
  <1> QED
    BY <1>1, <1>5 DEF GlyphLine

(* No byte of pixels is the address of a line.                             *)
LEMMA PixelsAreNotAddresses ==
  ASSUME NEW p \in PixelArea, NEW m \in LineNumbers
  PROVE  p # AddressAt(m)
  <1> USE DisplayAssumption
  <1>1. PICK l \in LineNumbers, x \in 0 .. Columns - 1 : p = AddressAt(l) + 1 + x
    BY DEF PixelArea
  <1>2. LineLen \in Nat \ {0} /\ x + 1 \in 0 .. LineLen - 1 /\ 0 \in 0 .. LineLen - 1
    BY DEF LineLen
  <1>3. l \in Int /\ m \in Int
    BY DEF LineNumbers
  <1>4. LineLen * l \in Int /\ LineLen * m \in Int
    BY <1>2, <1>3
  <1> SUFFICES ASSUME p = AddressAt(m) PROVE FALSE
    OBVIOUS
  <1>5. LineLen * l + (x + 1) = LineLen * m + 0
    BY <1>1, <1>4 DEF AddressAt
  <1>6. x + 1 = 0
    BY <1>2, <1>3, <1>5, Unique
  <1> QED
    BY <1>6

(* The buffer starts as a blank grid.                                      *)
LEMMA GridInit == Init => Grid!Init
  <1> SUFFICES ASSUME Init PROVE CellBytes(display_fb) = Grid!Filled(0)
    BY DisplayAssumption DEF Grid!Init, CellBytes, CellPlaces, Grid!Cells
  <1>1. ASSUME NEW x \in 0 .. Columns - 1, NEW y \in 0 .. TextRows - 1, NEW i \in GlyphLine
        PROVE  display_fb[ByteAt(x, y, i)] = 0
    <2>1. ByteAt(x, y, i) \in PixelArea /\ ByteAt(x, y, i) \in 0 .. FB_LEN - 1
      BY CellInPixels, PixelsInBuffer
    <2> QED
      BY <2>1, PixelsAreNotAddresses DEF Init, display_init
  <1> QED
    BY <1>1 DEF CellBytes, CellPlaces, Grid!Filled, Grid!Cells, Grid!Lines, GlyphLine

(* A fill fills every cell. *)
LEMMA GridFill ==
  ASSUME NEW val \in Picture, display_fill(val)
  PROVE  Grid!Fill
  <1>1. ASSUME NEW x \in 0 .. Columns - 1, NEW y \in 0 .. TextRows - 1, NEW i \in GlyphLine
        PROVE  display_fb'[ByteAt(x, y, i)] = val
    BY CellInPixels, FillIsPixels DEF display_fill, Store
  <1>2. CellBytes(display_fb') = Grid!Filled(val)
    BY <1>1 DEF CellBytes, CellPlaces, Grid!Filled, Grid!Cells, Grid!Lines, GlyphLine
  <1> QED
    BY <1>2 DEF Grid!Fill, CellBytes, CellPlaces

(* A glyph drawn on the grid sets its cell and no other. *)
LEMMA GridDraw ==
  ASSUME FramingInv,
         NEW glyph \in Glyph, NEW x \in Int, NEW y \in Int, NEW invert \in BOOLEAN,
         display_draw_glyph(glyph, x, y, invert)
  PROVE  \E c \in Grid!Cells : Grid!Draw(c)
  <1> DEFINE picture == [i \in GlyphLine |-> Drawn(glyph, invert, i)]
  <1>1. x \in 0 .. Columns - 1 /\ y \in 0 .. TextRows - 1
    BY DisplayAssumption DEF display_draw_glyph, OnGrid
  <1>2. picture \in [Grid!Lines -> Picture]
    <2>1. \A i \in GlyphLine : glyph[i] \in Picture
      BY DisplayAssumption DEF GlyphLine
    <2> QED
      BY <2>1, DisplayAssumption DEF Drawn, Grid!Lines, GlyphLine
  <1>3. ASSUME NEW i \in GlyphLine
        PROVE  display_fb'[ByteAt(x, y, i)] = picture[i]
    BY <1>1, LineOfByte DEF display_draw_glyph, Store
  <1>4. ASSUME NEW u \in 0 .. Columns - 1, NEW v \in 0 .. TextRows - 1, NEW j \in GlyphLine,
               <<u, v>> # <<x, y>>
        PROVE  display_fb'[ByteAt(u, v, j)] = display_fb[ByteAt(u, v, j)]
    <2>1. \A i \in GlyphLine : ByteAt(u, v, j) # ByteAt(x, y, i)
      BY <1>1, <1>4, ByteOfOne
    <2>2. ByteAt(u, v, j) \in DOMAIN display_fb
      BY CellInPixels, PixelsInBuffer DEF FramingInv
    <2> QED
      BY <2>1, <2>2 DEF display_draw_glyph, Store
  <1>5. CellBytes(display_fb') = [CellBytes(display_fb) EXCEPT ![<<x, y>>] = picture]
    <2>1. ASSUME NEW c \in CellPlaces
          PROVE  CellBytes(display_fb')[c]
                   = [CellBytes(display_fb) EXCEPT ![<<x, y>>] = picture][c]
      <3>1. c = <<c[1], c[2]>> /\ c[1] \in 0 .. Columns - 1 /\ c[2] \in 0 .. TextRows - 1
        BY DEF CellPlaces
      <3>2. CASE c = <<x, y>>
        BY <3>1, <3>2, <1>3 DEF CellBytes
      <3>3. CASE c # <<x, y>>
        BY <3>1, <3>3, <1>4 DEF CellBytes
      <3> QED
        BY <3>2, <3>3
    <2> QED
      BY <2>1 DEF CellBytes
  <1>6. <<x, y>> \in Grid!Cells
    BY <1>1 DEF Grid!Cells
  <1> QED
    BY <1>2, <1>5, <1>6 DEF Grid!Draw, CellBytes, CellPlaces

(* The frame buffer is a grid of cells, of any size: drawing at (x, y)     *)
(* changes the lines of that cell and nothing else on the screen.          *)
THEOREM BufferIsGrid == Spec => ImplementsTextGrid
  <1>1. FramingInv /\ [Next]_display_fb => [Grid!Next]_(CellBytes(display_fb))
    <2> SUFFICES ASSUME FramingInv, [Next]_display_fb
                 PROVE  [Grid!Next]_(CellBytes(display_fb))
      OBVIOUS
    <2>1. ASSUME NEW val \in Picture, display_fill(val) PROVE Grid!Next
      BY <2>1, GridFill DEF Grid!Next
    <2>2. ASSUME NEW glyph \in Glyph, NEW x \in -Bound .. Columns + Bound,
                 NEW y \in -Bound .. TextRows + Bound, NEW invert \in BOOLEAN,
                 display_draw_glyph(glyph, x, y, invert)
          PROVE  Grid!Next
      BY <2>2, GridDraw, DisplayAssumption DEF Grid!Next
    <2>3. CASE UNCHANGED display_fb
      BY <2>3 DEF CellBytes
    <2> QED
      BY <2>1, <2>2, <2>3 DEF Next
  <1>2. Init => FramingInv
    BY DEF Init, display_init, FramingInv, FramingIntact
  <1> QED
    BY <1>1, <1>2, GridInit, FramingStep, PTL DEF Spec, ImplementsTextGrid, Grid!Spec, CellBytes, CellPlaces


-----------------------------------------------------------------------------
(* The driver.  Of the DMA sending, its interrupt raised and the alarm set *)
(* exactly one is the case; the line is selected but while the alarm is    *)
(* set; and by the time the alarm may go off the SPI's queue is empty, as  *)
(* it empties within the first tick.                                       *)
TakeTurns ==
  /\ dma_left > 0 <=> ~ ints0 /\ alarm = NoAlarm
  /\ ints0 => alarm = NoAlarm
  /\ cs = IF alarm = NoAlarm THEN 1 ELSE 0
  /\ alarm < AlarmDelay => fifo = 0
  /\ sent[1] = vcom

DriverIndInv == DriverTypeOK /\ TakeTurns /\ VcomAlternates

(* Every step of the driver keeps it.                                      *)
LEMMA DriverStep == DriverIndInv /\ [DriverNext]_driverVars => DriverIndInv'
  <1> SUFFICES ASSUME DriverIndInv, [DriverNext]_driverVars  PROVE DriverIndInv'
    OBVIOUS
  <1>0. /\ SendLen \in Nat \ {0} /\ FifoDepth \in Nat \ {0} /\ MaxLatency \in Nat
        /\ MaxLow \in Nat /\ NoAlarm = 1000 /\ AlarmDelay = 2
    BY DriverAssumption DEF DriverAssumption, NoAlarm, AlarmDelay
  <1> USE DEF DriverIndInv, DriverTypeOK, TakeTurns, VcomAlternates
  <1> USE DEF NoAlarm, AlarmDelay
  <1>1. CASE Alarm
    <2>1. /\ alarm <= 0 /\ alarm # NoAlarm /\ fifo = 0 /\ dma_left = 0 /\ ~ ints0
      BY <1>0, <1>1 DEF Alarm
    <2>2. /\ vcom' = Toggled(vcom) /\ sent' = <<Toggled(vcom), sent[1]>>
          /\ cs' = 1 /\ low_for' = 0 /\ dma_left' = SendLen /\ alarm' = NoAlarm
          /\ UNCHANGED <<ints0, irq_age, fifo, drawn, queued, shown>>
      BY <1>1 DEF Alarm, transmit_alarm_callback, spi
    <2>3. /\ vcom' \in {VCOM_HIGH, VCOM_LOW} /\ vcom' # vcom
          /\ sent'[1] = vcom' /\ sent'[2] = vcom
      BY <2>2 DEF Toggled, VCOM_HIGH, VCOM_LOW
    <2>4. TakeTurns'
      BY <1>0, <2>1, <2>2, <2>3 DEF AlarmDelay, NoAlarm
    <2>5. DriverTypeOK'
      BY <1>0, <2>1, <2>2, <2>3 DEF NoAlarm
    <2>6. QED BY <2>3, <2>4, <2>5
  <1>2. CASE dma_done_handler
    <2>1. /\ ints0 /\ alarm = NoAlarm /\ dma_left = 0
          /\ cs' = 0 /\ ints0' = FALSE /\ irq_age' = 0 /\ alarm' = AlarmDelay
          /\ UNCHANGED <<vcom, dma_left, low_for, sent, fifo, drawn, queued, shown>>
      BY <1>0, <1>2 DEF dma_done_handler, spi
    <2>2. DriverTypeOK'
      <3>1. ints0' \in BOOLEAN
        BY <2>1
      <3>2. cs' \in {0, 1} /\ irq_age' \in 0 .. MaxLatency /\ alarm' \in - MaxLatency .. AlarmDelay
        BY <1>0, <2>1
      <3>3. QED BY <2>1, <3>1, <3>2
    <2>3. TakeTurns' /\ VcomAlternates'
      BY <1>0, <2>1
    <2>4. QED BY <2>2, <2>3
  <1>3. CASE DmaSends
    <2>1. /\ dma_left > 0 /\ fifo < FifoDepth /\ ~ ints0 /\ alarm = NoAlarm
          /\ dma_left' = dma_left - 1 /\ fifo' = fifo + 1
          /\ queued' \in 0 .. 1 /\ (ints0' <=> dma_left = 1) /\ ints0' \in BOOLEAN
          /\ UNCHANGED <<vcom, cs, alarm, irq_age, low_for, sent, drawn, shown>>
      BY <1>0, <1>3, ZenonT(30) DEF DmaSends, LastByte
    <2>2. DriverTypeOK'
      <3>1. dma_left' \in 0 .. SendLen /\ fifo' \in 0 .. FifoDepth
        BY <1>0, <2>1
      <3>2. ints0' \in BOOLEAN
        BY <2>1
      <3>3. cs' \in {0, 1} /\ alarm' = NoAlarm
        BY <2>1
      <3>4. irq_age' \in 0 .. MaxLatency /\ low_for' \in 0 .. MaxLow
        BY <2>1
      <3>5. drawn' \in 0 .. 1 /\ queued' \in 0 .. 1 /\ shown' \in 0 .. 1 /\ vcom' \in {VCOM_HIGH, VCOM_LOW}
        BY <2>1
      <3>6. QED BY <3>1, <3>2, <3>3, <3>4, <3>5
    <2>3. TakeTurns'
      <3>1. dma_left' > 0 <=> ~ ints0'
        BY <1>0, <2>1
      <3>2. QED BY <1>0, <2>1, <3>1
    <2>4. VcomAlternates'
      BY <2>1
    <2>5. QED BY <2>2, <2>3, <2>4
  <1>4. CASE SpiShifts
    BY <1>0, <1>4 DEF SpiShifts
  <1>5. CASE CoreDraws
    BY <1>0, <1>5 DEF CoreDraws
  <1>6. CASE Tick
    BY <1>0, <1>6 DEF Tick, spi
  <1>7. CASE UNCHANGED driverVars
    BY <1>0, <1>7 DEF driverVars, spi
  <1>8. QED BY <1>1, <1>2, <1>3, <1>4, <1>5, <1>6, <1>7 DEF DriverNext

(* The invariant of the driver.                                            *)
LEMMA DriverIndInvariant == DriverSpec => []DriverIndInv
  <1>1. DriverInit => DriverIndInv
    <2> SUFFICES ASSUME DriverInit  PROVE DriverIndInv
      OBVIOUS
    <2>1. /\ SendLen \in Nat \ {0} /\ FifoDepth \in Nat /\ MaxLatency \in Nat /\ MaxLow \in Nat
      BY DriverAssumption DEF DriverAssumption
    <2>2. vcom = 192 /\ sent[1] = 192 /\ sent[2] = 0
      BY DEF DriverInit, Toggled, VCOM_HIGH, VCOM_LOW
    <2>3. /\ cs = 1 /\ low_for = 0 /\ dma_left = SendLen /\ fifo = 0 /\ drawn = 0
          /\ queued = 0 /\ shown = 0 /\ ints0 = FALSE /\ irq_age = 0 /\ alarm = NoAlarm
      BY DEF DriverInit
    <2>4. DriverTypeOK
      <3>1. dma_left \in 0 .. SendLen /\ fifo \in 0 .. FifoDepth
        BY <2>1, <2>3
      <3>2. ints0 \in BOOLEAN
        BY <2>3
      <3>3. cs \in {0, 1} /\ alarm = NoAlarm
        BY <2>3
      <3>4. irq_age \in 0 .. MaxLatency /\ low_for \in 0 .. MaxLow
        BY <2>1, <2>3
      <3>5. drawn \in 0 .. 1 /\ queued \in 0 .. 1 /\ shown \in 0 .. 1 /\ vcom \in {VCOM_HIGH, VCOM_LOW}
        BY <2>2, <2>3 DEF VCOM_HIGH
      <3>6. QED BY <3>1, <3>2, <3>3, <3>4, <3>5 DEF DriverTypeOK
    <2>5. TakeTurns
      BY <2>1, <2>2, <2>3 DEF TakeTurns, NoAlarm, AlarmDelay
    <2>6. VcomAlternates
      BY <2>2 DEF VcomAlternates
    <2>7. QED BY <2>4, <2>5, <2>6 DEF DriverIndInv
  <1>2. QED BY <1>1, DriverStep, PTL DEF DriverSpec

(* The driver's types; the interrupt and the alarm take turns, and the     *)
(* line stays selected while the DMA sends; consecutive transmissions      *)
(* carry opposite VCOM bits.  (dma_done_handler, transmit_alarm_callback.) *)
THEOREM DriverCorrect == DriverSpec => []DriverInv
  <1>1. DriverIndInv => DriverInv
    BY DEF DriverIndInv, DriverTypeOK, TakeTurns, DriverInv, OneTransmission
  <1>2. QED BY <1>1, DriverIndInvariant, PTL

(* A transmission starts with nothing of the last one left in the SPI's    *)
(* queue, although the one before was deselected with bytes still in it:   *)
(* the display takes no byte for one of another position.  (The delay of   *)
(* dma_done_handler's alarm.)                                              *)
THEOREM StartsClean == DriverSpec => [][cs = 0 /\ cs' = 1 => fifo = 0 /\ fifo' = 0]_driverVars
  <1>1. DriverIndInv /\ [DriverNext]_driverVars =>
          [cs = 0 /\ cs' = 1 => fifo = 0 /\ fifo' = 0]_driverVars
    <2> SUFFICES ASSUME DriverIndInv, DriverNext, cs = 0, cs' = 1
                 PROVE  fifo = 0 /\ fifo' = 0
      OBVIOUS
    <2>1. Alarm
      BY DEF DriverNext, dma_done_handler, DmaSends, SpiShifts, CoreDraws, Tick
    <2>2. fifo = 0
      BY <2>1, DriverAssumption
         DEF DriverAssumption, Alarm, DriverIndInv, DriverTypeOK, TakeTurns, AlarmDelay
    <2>3. QED BY <2>1, <2>2 DEF Alarm, spi
  <1>2. QED BY <1>1, DriverIndInvariant, PTL DEF DriverSpec
=============================================================================
