--------------------------- MODULE LfsCacheProofs ---------------------------
(***************************************************************************)
(* What LfsCache promises, for devices and caches of any size.             *)
(***************************************************************************)
EXTENDS LfsCache, SequenceTheorems, TLAPS

-----------------------------------------------------------------------------
(* Multiples of a unit, and the roundings to it. *)

(* A remainder is less than the divisor, and only of zero do the multiples *)
(* reach no further.                                                       *)
LEMMA Remainders ==
  /\ \A x \in Int, d \in Nat \ {0} : (x % d) \in 0 .. d - 1 /\ x = (d * (x \div d)) + (x % d)
                                     /\ (x \div d) \in Int
  /\ \A d \in Nat \ {0}, q \in Int : (d * q) % d = 0 /\ d * q \in Int
  /\ \A d \in Nat \ {0}, a, b \in Int : a <= b => d * a <= d * b
  OBVIOUS

(* The multiples of d are those of the form d * q ...                      *)
LEMMA Quotient ==
  ASSUME NEW d \in Nat \ {0}, NEW x \in Int, x % d = 0
  PROVE  \E q \in Int : x = d * q
  <1>1. x = (d * (x \div d)) + 0 /\ (x \div d) \in Int
    BY Remainders
  <1>2. d * (x \div d) \in Int
    BY <1>1, Remainders
  <1>3. QED BY <1>1, <1>2

(* ... and their sums and differences are multiples ...                    *)
LEMMA Multiples ==
  \A d \in Nat \ {0} : \A a, b \in Int :
    a % d = 0 /\ b % d = 0 => (a + b) % d = 0 /\ (a - b) % d = 0
  <1> SUFFICES ASSUME NEW d \in Nat \ {0}, NEW a \in Int, NEW b \in Int, a % d = 0, b % d = 0
               PROVE  (a + b) % d = 0 /\ (a - b) % d = 0
    OBVIOUS
  <1>1. PICK p \in Int : a = d * p
    BY Quotient
  <1>2. PICK q \in Int : b = d * q
    BY Quotient
  <1>3. a + b = d * (p + q) /\ a - b = d * (p - q)
    BY <1>1, <1>2
  <1>4. (d * (p + q)) % d = 0 /\ (d * (p - q)) % d = 0
    BY Remainders
  <1>5. QED BY <1>3, <1>4

(* ... as are their multiples.                                             *)
LEMMA MultiplesOfMultiples ==
  \A d, e \in Nat \ {0} : \A a \in Int : a % d = 0 /\ d % e = 0 => a % e = 0
  <1> SUFFICES ASSUME NEW d \in Nat \ {0}, NEW e \in Nat \ {0}, NEW a \in Int, a % d = 0, d % e = 0
               PROVE  a % e = 0
    OBVIOUS
  <1>1. PICK p \in Int : a = d * p
    BY Quotient
  <1>2. PICK q \in Int : d = e * q
    BY Quotient
  <1>3. a = e * (q * p) /\ q * p \in Int
    BY <1>1, <1>2
  <1>4. QED BY <1>3, Remainders

(* A multiple that is a unit away from another is past it by as much.      *)
LEMMA NextMultiple ==
  \A d \in Nat \ {0} : \A a, b \in Int : a % d = 0 /\ b % d = 0 /\ a < b => a + d <= b
  <1> SUFFICES ASSUME NEW d \in Nat \ {0}, NEW a \in Int, NEW b \in Int, a % d = 0, b % d = 0, a < b
               PROVE  a + d <= b
    OBVIOUS
  <1>1. PICK p \in Int : a = d * p
    BY Quotient
  <1>2. PICK q \in Int : b = d * q
    BY Quotient
  <1>3. p < q
    <2>1. SUFFICES ASSUME q <= p PROVE FALSE
      OBVIOUS
    <2>2. d * q <= d * p
      BY <2>1, Remainders
    <2>3. QED BY <1>1, <1>2, <2>2
  <1>4. d * (p + 1) <= d * q
    BY <1>3, Remainders
  <1>5. d * (p + 1) = d * p + d
    OBVIOUS
  <1>6. QED BY <1>1, <1>2, <1>4, <1>5

(* lfs_alignup(a, d) is the least multiple of d that is a or more ...      *)
LEMMA AlignedUp ==
  \A d \in Nat \ {0} : \A a \in Nat :
    /\ lfs_alignup(a, d) \in Nat /\ a <= lfs_alignup(a, d) /\ lfs_alignup(a, d) % d = 0
    /\ \A m \in Int : m % d = 0 /\ a <= m => lfs_alignup(a, d) <= m
    /\ a % d = 0 => lfs_alignup(a, d) = a
  <1> SUFFICES ASSUME NEW d \in Nat \ {0}, NEW a \in Nat
               PROVE  /\ lfs_alignup(a, d) \in Nat /\ a <= lfs_alignup(a, d) /\ lfs_alignup(a, d) % d = 0
                      /\ \A m \in Int : m % d = 0 /\ a <= m => lfs_alignup(a, d) <= m
                      /\ a % d = 0 => lfs_alignup(a, d) = a
    OBVIOUS
  <1>1. PICK x \in Int : x = a + d - 1
    OBVIOUS
  <1>2. PICK r \in 0 .. d - 1 : r = x % d
    BY <1>1, Remainders
  <1>3. PICK u \in Int : u = x - r
    OBVIOUS
  <1>4. lfs_alignup(a, d) = u
    BY <1>1, <1>2, <1>3 DEF lfs_alignup, lfs_aligndown
  <1>5. u \in Nat /\ a <= u /\ u < a + d
    BY <1>1, <1>2, <1>3
  <1>6. u % d = 0
    <2>1. x = (d * (x \div d)) + r /\ (x \div d) \in Int
      BY <1>2, Remainders
    <2>2. PICK k \in Int : k = d * (x \div d) /\ k % d = 0
      BY <2>1, Remainders
    <2>3. QED BY <1>3, <2>1, <2>2
  <1>7. ASSUME NEW m \in Int, m % d = 0, a <= m  PROVE u <= m
    <2>1. m < u => m + d <= u
      BY <1>6, <1>7, NextMultiple
    <2>2. QED BY <1>5, <1>7, <2>1
  <1>8. a % d = 0 => u = a
    BY <1>5, <1>7
  <1>9. QED BY <1>4, <1>5, <1>6, <1>7, <1>8

(* ... and moves with a by multiples of d.                                 *)
LEMMA AlignedSum ==
  \A d \in Nat \ {0} : \A a, n \in Nat :
    a % d = 0 => lfs_alignup(a + n, d) = a + lfs_alignup(n, d)
  <1> SUFFICES ASSUME NEW d \in Nat \ {0}, NEW a \in Nat, NEW n \in Nat, a % d = 0
               PROVE  lfs_alignup(a + n, d) = a + lfs_alignup(n, d)
    OBVIOUS
  <1>1. PICK u \in Nat : /\ u = lfs_alignup(n, d) /\ n <= u /\ u % d = 0
                         /\ \A m \in Int : m % d = 0 /\ n <= m => u <= m
    BY AlignedUp
  <1>2. PICK w \in Nat : /\ w = lfs_alignup(a + n, d) /\ a + n <= w /\ w % d = 0
                         /\ \A m \in Int : m % d = 0 /\ a + n <= m => w <= m
    <2>1. a + n \in Nat
      OBVIOUS
    <2>2. QED BY <2>1, AlignedUp
  <1>3. (a + u) % d = 0 /\ (w - a) % d = 0
    BY <1>1, <1>2, Multiples
  <1>4. w <= a + u
    BY <1>1, <1>2, <1>3
  <1>5. u <= w - a
    BY <1>1, <1>2, <1>3
  <1>6. QED BY <1>1, <1>2, <1>4, <1>5

(* lfs_aligndown(a, d) is no more than a, and a if that is a multiple of d.*)
LEMMA AlignedDown ==
  \A d \in Nat \ {0} : \A a \in Nat :
    /\ lfs_aligndown(a, d) \in Nat /\ lfs_aligndown(a, d) <= a
    /\ a % d = 0 => lfs_aligndown(a, d) = a
  <1> SUFFICES ASSUME NEW d \in Nat \ {0}, NEW a \in Nat
               PROVE  /\ lfs_aligndown(a, d) \in Nat /\ lfs_aligndown(a, d) <= a
                      /\ a % d = 0 => lfs_aligndown(a, d) = a
    OBVIOUS
  <1>1. a % d \in 0 .. d - 1 /\ a % d <= a
    OBVIOUS
  <1>2. QED BY <1>1 DEF lfs_aligndown

-----------------------------------------------------------------------------
(* The inductive invariant: CacheInv, with the sets the state is in. *)

Bytes == {Erased} \cup 0 .. 2 * BlockCount * BlockSize - 1
Places == 0 .. BlockSize - 1
Cells == 0 .. CacheSize - 1
Contents == [Places -> Bytes]
Buffers == [Cells -> Bytes]
Caches == [block : Blocks \cup {LFS_BLOCK_NULL}, off : 0 .. BlockSize, size : 0 .. CacheSize, buffer : Buffers]
\* What a read may have left behind it.
ReadBytes == Bytes \cup {Unknown}
ReadCaches == [block : Blocks \cup {LFS_BLOCK_NULL}, off : 0 .. BlockSize, size : 0 .. CacheSize,
               buffer : [Cells -> ReadBytes]]
ReadCalls == [op : {"read"}, withPcache : BOOLEAN, block : Blocks, off : Nat, size : Nat, hint : Nat,
              start : Nat, data : Seq(ReadBytes)]
ProgCalls == [op : {"prog", "full"}, validate : BOOLEAN, block : Blocks, off : Nat, data : Seq(Bytes)]

Shapes ==
  /\ disk \in [Blocks -> Contents] /\ pcache \in Caches /\ rcache \in ReadCaches
  /\ call \in {Idle} \cup ReadCalls \cup ProgCalls
  /\ ret \in {"ok", "corrupt", "error"}
  /\ content \in [Blocks -> Seq(Bytes)] /\ readable \in [Blocks -> Nat] /\ life \in [Blocks -> 0 .. 1]
  /\ \A b \in Blocks : Len(content[b]) <= BlockSize

\* A byte read of block b is the one it should be, or what a failed read left.
Answer(b, byte, right) == byte = right \/ (b \in Unreadable /\ byte = Unknown)

ReadSoFar == call.op = "read" =>
  /\ call.off <= Len(content[call.block])
  /\ \A k \in 1 .. Len(call.data) :
       Answer(call.block, call.data[k], content[call.block][call.start + k])

CacheIndInv ==
  Shapes /\ PcacheIsTail /\ DiskIsRest /\ RcacheFresh /\ CallOnItsWay /\ ReadSoFar

(* The sizes, as the proofs use them.                                      *)
LEMMA Sizes ==
  /\ {BlockCount, BlockSize, CacheSize, ReadSize, ProgSize} \subseteq Nat \ {0}
  /\ CacheSize % ProgSize = 0 /\ BlockSize % ProgSize = 0
  /\ ClientReads \subseteq Nat \ {0} /\ ClientProgs \subseteq Nat \ {0} /\ Hints \subseteq Nat
  /\ LFS_BLOCK_NULL \notin Blocks /\ Blocks \subseteq Nat /\ Validated \subseteq Blocks /\ BadBlocks \subseteq Validated
  <1>1. {BlockCount, BlockSize, CacheSize, ReadSize, ProgSize} \subseteq Nat \ {0}
    BY CacheAssumption
  <1>2. CacheSize % ProgSize = 0 /\ BlockSize % CacheSize = 0
    BY CacheAssumption
  <1>3. BlockSize % ProgSize = 0
    BY <1>1, <1>2, MultiplesOfMultiples
  <1>4. LFS_BLOCK_NULL \notin Blocks /\ Blocks \subseteq Nat
    BY DEF LFS_BLOCK_NULL, Blocks
  <1>5. /\ ClientReads \subseteq Nat \ {0} /\ ClientProgs \subseteq Nat \ {0} /\ Hints \subseteq Nat
        /\ Validated \subseteq Blocks /\ BadBlocks \subseteq Validated
    BY CacheAssumption DEF Blocks
  <1>6. QED BY <1>1, <1>2, <1>3, <1>4, <1>5

(* What the invariant says implies what the runs check.                    *)
LEMMA IndImpliesCacheInv == CacheIndInv => CacheInv
  <1> SUFFICES ASSUME CacheIndInv PROVE CacheInv
    OBVIOUS
  <1> USE DEF CacheIndInv
  <1>1. TypeOK
    <2>1. Shapes
      OBVIOUS
    <2>2. \A b \in Blocks : \A o \in 0 .. BlockSize - 1 :
            disk[b][o] \in {Erased} \cup 0 .. 2 * BlockCount * BlockSize - 1
      BY <2>1 DEF Shapes, Contents, Places, Bytes
    <2>3. \A c \in {pcache, rcache} :
            c.block \in Blocks \cup {LFS_BLOCK_NULL} /\ c.off \in 0 .. BlockSize /\ c.size \in 0 .. CacheSize
      BY <2>1 DEF Shapes, Caches, ReadCaches
    <2>4. \A b \in Blocks : readable[b] \in 0 .. BlockSize
      <3> SUFFICES ASSUME NEW b \in Blocks PROVE readable[b] \in 0 .. BlockSize
        OBVIOUS
      <3>1. readable[b] \in Nat /\ readable[b] <= Settled(b)
        BY <2>1 DEF Shapes, DiskIsRest
      <3>2. Settled(b) \in 0 .. BlockSize
        BY <2>1, Sizes DEF Settled, Shapes, Caches
      <3>3. QED BY <3>1, <3>2, Sizes
    <2>5. QED BY <2>1, <2>2, <2>3, <2>4 DEF TypeOK, Shapes
  <1>2. ReadsBack
    BY DEF ReadsBack, ReadSoFar, CallOnItsWay, Answer
  <1>3. FlushedIsOnDisk
    <2> SUFFICES ASSUME NEW b \in Blocks, NEW o \in 0 .. readable[b] - 1 PROVE disk[b][o] = content[b][o + 1]
      BY DEF FlushedIsOnDisk
    <2>1. readable[b] \in Nat /\ readable[b] <= Settled(b) /\ Settled(b) \in Int
      BY Sizes DEF Shapes, DiskIsRest, Settled, Caches
    <2>2. o \in 0 .. Settled(b) - 1
      BY <2>1
    <2>3. QED BY <2>2 DEF DiskIsRest
  <1>4. PcacheFree
    <2> SUFFICES ASSUME Programming, pcache.block # LFS_BLOCK_NULL PROVE FitsPcache
      BY DEF PcacheFree
    <2>1. call \in ProgCalls /\ call.op = "prog"
      BY DEF Programming, Shapes, ReadCalls, Idle
    <2>2. pcache.block = call.block /\ call.off = Len(content[call.block]) /\ call.block \in Blocks
      BY <2>1 DEF CallOnItsWay, ProgCalls
    <2>3. pcache.off + pcache.size = Len(content[pcache.block]) /\ pcache.size # CacheSize
      BY <2>1 DEF PcacheIsTail, Failed, Idle
    <2>4. pcache.off \in Nat /\ pcache.size \in 0 .. CacheSize
      BY Sizes DEF Shapes, Caches
    <2>5. QED BY <2>2, <2>3, <2>4, Sizes DEF FitsPcache
  <1>5. QED BY <1>1, <1>2, <1>3, <1>4 DEF CacheInv

-----------------------------------------------------------------------------
(* Nothing is stored at first. *)
LEMMA InitCacheInv == Init => CacheIndInv
  <1> SUFFICES ASSUME Init PROVE CacheIndInv
    OBVIOUS
  <1>1. NullCache \in Caches /\ NullCache \in ReadCaches /\ NullCache.block = LFS_BLOCK_NULL
    BY Sizes DEF NullCache, Caches, ReadCaches, ReadBytes, Buffers, Blank, Cells, Bytes
  <1>2. \A b \in Blocks : /\ disk[b] \in Contents /\ \A o \in 0 .. BlockSize - 1 : disk[b][o] = Erased
                          /\ content[b] = <<>> /\ readable[b] = 0
    BY DEF Init, Contents, Bytes, Places
  <1>3. pcache = NullCache /\ rcache = NullCache /\ call = Idle /\ ret = "ok"
    BY DEF Init
  <1>4. Shapes
    <2>1. disk \in [Blocks -> Contents]
      BY DEF Init, Contents, Bytes, Places
    <2>2. content \in [Blocks -> Seq(Bytes)] /\ readable \in [Blocks -> Nat] /\ life \in [Blocks -> 0 .. 1]
      BY DEF Init
    <2>3. QED BY <1>1, <1>2, <1>3, <2>1, <2>2, Sizes DEF Shapes
  <1>5. PcacheIsTail
    <2>1. 0 % ProgSize = 0
      BY Sizes
    <2>2. QED BY <1>1, <1>2, <1>3, <2>1 DEF PcacheIsTail
  <1>6. DiskIsRest
    <2>1. \A b \in Blocks : Settled(b) = 0
      BY <1>1, <1>2, <1>3, Sizes DEF Settled
    <2>2. QED BY <1>2, <2>1 DEF DiskIsRest
  <1>7. RcacheFresh /\ CallOnItsWay /\ ReadSoFar
    BY <1>1, <1>3 DEF RcacheFresh, CallOnItsWay, ReadSoFar, Idle
  <1>8. QED BY <1>4, <1>5, <1>6, <1>7 DEF CacheIndInv

-----------------------------------------------------------------------------
(* Reading. *)

(* What is known of a read under way.                                      *)
LEMMA ReadFacts ==
  ASSUME CacheIndInv, call.op = "read"
  PROVE  /\ call \in ReadCalls /\ call.block \in Blocks /\ ~ Failed
         /\ call.off \in Nat /\ call.size \in Nat /\ call.hint \in Nat /\ call.start \in Nat
         /\ call.data \in Seq(ReadBytes) /\ Len(call.data) \in Nat
         /\ content[call.block] \in Seq(Bytes) /\ Len(content[call.block]) \in Nat
         /\ readable[call.block] \in Nat
         /\ call.off = call.start + Len(call.data) /\ call.off + call.size <= BlockSize
         /\ call.off <= Len(content[call.block])
         /\ call.off .. call.off + call.size - 1 \subseteq
              0 .. readable[call.block] - 1 \cup (IF call.withPcache THEN Pending(call.block) ELSE {})
  <1>1. call \in ReadCalls
    BY DEF CacheIndInv, Shapes, ProgCalls, Idle
  <1>2. call.block \in Blocks /\ call.off \in Nat /\ call.size \in Nat /\ call.hint \in Nat /\ call.start \in Nat
        /\ call.data \in Seq(ReadBytes)
    BY <1>1 DEF ReadCalls
  <1>3. content[call.block] \in Seq(Bytes) /\ readable[call.block] \in Nat
    BY <1>2 DEF CacheIndInv, Shapes
  <1>4. ~ Failed
    BY DEF Failed, Idle
  <1>5. Len(call.data) \in Nat /\ Len(content[call.block]) \in Nat
    BY <1>2, <1>3
  <1>6. QED BY <1>1, <1>2, <1>3, <1>4, <1>5 DEF CacheIndInv, CallOnItsWay, ReadSoFar

(* One sequence after another, byte by byte.                               *)
Joined(d, g, e) ==
  /\ e = d \o g /\ Len(e) = Len(d) + Len(g)
  /\ \A k \in 1 .. Len(d) : e[k] = d[k]
  /\ \A k \in 1 .. Len(g) : e[Len(d) + k] = g[k]

(* There is always such a sequence.                                        *)
LEMMA Joins ==
  \A S : \A d, g \in Seq(S) : \E e \in Seq(S) : Joined(d, g, e)
  <1> SUFFICES ASSUME NEW S, NEW d \in Seq(S), NEW g \in Seq(S) PROVE \E e \in Seq(S) : Joined(d, g, e)
    OBVIOUS
  <1>1. d \o g \in Seq(S) /\ Len(d \o g) = Len(d) + Len(g)
    OBVIOUS
  <1>2. \A k \in 1 .. Len(d) : (d \o g)[k] = d[k]
    OBVIOUS
  <1>3. \A k \in 1 .. Len(g) : (d \o g)[Len(d) + k] = g[k]
    OBVIOUS
  <1>4. QED BY <1>1, <1>2, <1>3 DEF Joined

(* A call that has gone n bytes further has as much less to go ...         *)
LEMMA Onward == \A f, s, n \in Nat : f + n + (s - n) = f + s
  OBVIOUS

(* ... and stays within what it was to pass.                               *)
LEMMA WithinRest ==
  \A f, s \in Nat : \A n \in 0 .. s : f + n .. f + n + (s - n) - 1 \subseteq f .. f + s - 1
  OBVIOUS

(* A read copies some bytes, which are those of the contents.              *)
LEMMA CopyStep ==
  ASSUME CacheIndInv, call.op = "read", NEW n \in 0 .. call.size, NEW g \in Seq(ReadBytes), Len(g) = n,
         n > 0 => call.off + n <= Len(content[call.block]),
         \A k \in 1 .. n : Answer(call.block, g[k], content[call.block][call.off + k]),
         call' = [call EXCEPT !.off = @ + n, !.size = @ - n, !.data = @ \o g],
         UNCHANGED <<disk, pcache, rcache, ret, content, readable, life>>
  PROVE  CacheIndInv'
  <1>1. PICK d \in Seq(ReadBytes) : d = call.data
    BY ReadFacts, Zenon
  <1>2. PICK e \in Seq(ReadBytes) : /\ e = d \o g /\ Len(e) = Len(d) + n
                                    /\ \A k \in 1 .. Len(d) : e[k] = d[k]
                                    /\ \A k \in 1 .. n : e[Len(d) + k] = g[k]
    <2>1. PICK e \in Seq(ReadBytes) : Joined(d, g, e)
      BY Joins, Zenon
    <2>2. QED BY <2>1, Zenon DEF Joined
  <1>3. /\ call'.op = "read" /\ call'.off = call.off + n /\ call'.size = call.size - n /\ call'.data = e
        /\ call'.block = call.block /\ call'.start = call.start /\ call'.withPcache = call.withPcache
        /\ call' \in ReadCalls
    <2>1. call' = [call EXCEPT !.off = @ + n, !.size = @ - n, !.data = e]
      BY <1>1, <1>2
    <2>2. call \in ReadCalls /\ call.off \in Nat /\ call.size \in Nat
      BY ReadFacts
    <2>3. call.off + n \in Nat /\ call.size - n \in Nat
      BY <2>2
    <2>4. QED BY <1>2, <2>1, <2>2, <2>3 DEF ReadCalls
  <1>4. ~ Failed /\ ~ Failed'
    BY <1>3, ReadFacts DEF Failed, Idle
  <1>5. Shapes'
    BY <1>3 DEF CacheIndInv, Shapes
  <1>6. PcacheIsTail'
    BY <1>3, <1>4 DEF CacheIndInv, PcacheIsTail, Pending
  <1>7. DiskIsRest' /\ RcacheFresh'
    BY <1>4 DEF CacheIndInv, DiskIsRest, RcacheFresh, Settled
  <1>8. CallOnItsWay'
    <2>1. call.off + n = call.start + Len(e)
      BY <1>1, <1>2, ReadFacts
    <2>2. PICK f \in Nat, s \in Nat : f = call.off /\ s = call.size
      BY ReadFacts
    <2>3. f + n + (s - n) = f + s /\ f + n .. f + n + (s - n) - 1 \subseteq f .. f + s - 1
      <3>1. n \in 0 .. s
        BY <2>2, Zenon
      <3>2. n \in Nat
        BY <2>2, <3>1
      <3>3. f + n .. f + n + (s - n) - 1 \subseteq f .. f + s - 1
        BY <3>1, WithinRest, Zenon
      <3>4. f + n + (s - n) = f + s
        BY <3>2, Onward, Zenon
      <3>5. QED BY <3>3, <3>4, Zenon
    <2>4. Pending(call.block)' = Pending(call.block)
      BY <1>3 DEF Pending
    <2>5. call.off + n .. call.off + n + (call.size - n) - 1 \subseteq
             0 .. readable[call.block] - 1 \cup (IF call.withPcache THEN Pending(call.block) ELSE {})
      BY <2>2, <2>3, ReadFacts
    <2>6. call.off + n + (call.size - n) <= BlockSize
      BY <2>2, <2>3, ReadFacts
    <2>7. QED BY <1>3, <2>1, <2>4, <2>5, <2>6 DEF CallOnItsWay
  <1>9. ReadSoFar'
    <2>1. call.off + n <= Len(content[call.block])
      BY ReadFacts
    <2>2. ASSUME NEW k \in 1 .. Len(e) PROVE Answer(call.block, e[k], content[call.block][call.start + k])
      <3>1. CASE k \in 1 .. Len(d)
        <4>1. Answer(call.block, d[k], content[call.block][call.start + k])
          BY <1>1, <3>1 DEF CacheIndInv, ReadSoFar
        <4>2. QED BY <1>2, <3>1, <4>1
      <3>2. CASE k \notin 1 .. Len(d)
        <4>1. PICK j \in 1 .. n : k = Len(d) + j
          <5>1. k - Len(d) \in 1 .. n /\ k = Len(d) + (k - Len(d))
            BY <1>2, <3>2
          <5>2. QED BY <5>1
        <4>2. call.off + j = call.start + k
          <5>1. call.start \in Int /\ Len(d) \in Int /\ call.off = call.start + Len(d)
            BY <1>1, ReadFacts
          <5>2. j \in Int
            OBVIOUS
          <5>3. QED BY <4>1, <5>1, <5>2
        <4>3. QED BY <1>2, <4>1, <4>2
      <3>3. QED BY <3>1, <3>2
    <2>3. QED BY <1>3, <2>1, <2>2 DEF ReadSoFar
  <1>10. QED BY <1>5, <1>6, <1>7, <1>8, <1>9 DEF CacheIndInv

(* A function of the first numbers is a sequence.                          *)
LEMMA Listed ==
  \A S : \A n \in Nat : \A f \in [1 .. n -> S] : f \in Seq(S) /\ Len(f) = n
  OBVIOUS

(* What the two caches may be, and where.                                  *)
LEMMA CacheFacts ==
  ASSUME CacheIndInv
  PROVE  /\ pcache \in Caches /\ pcache.off \in 0 .. BlockSize /\ pcache.size \in 0 .. CacheSize
         /\ pcache.off \in Nat /\ pcache.size \in Nat
         /\ pcache.block \in Blocks \cup {LFS_BLOCK_NULL} /\ pcache.buffer \in [Cells -> Bytes]
         /\ rcache \in ReadCaches /\ rcache.off \in 0 .. BlockSize /\ rcache.size \in 0 .. CacheSize
         /\ rcache.off \in Nat /\ rcache.size \in Nat
         /\ rcache.block \in Blocks \cup {LFS_BLOCK_NULL} /\ rcache.buffer \in [Cells -> ReadBytes]
         /\ pcache.block # LFS_BLOCK_NULL =>
              /\ pcache.block \in Blocks /\ pcache.off % ProgSize = 0
              /\ pcache.off + pcache.size = Len(content[pcache.block])
  BY Sizes DEF CacheIndInv, Shapes, Caches, ReadCaches, Buffers, PcacheIsTail

(* A read copies bytes of a cache or of the device, which are those of the *)
(* contents.                                                               *)
LEMMA TakenStep ==
  ASSUME CacheIndInv, call.op = "read",
         NEW buffer, NEW from \in Nat, NEW n \in 0 .. call.size,
         \A k \in 1 .. n : /\ buffer[from + k - 1] \in ReadBytes
                           /\ Answer(call.block, buffer[from + k - 1], content[call.block][call.off + k]),
         n > 0 => call.off + n <= Len(content[call.block]),
         Copies(Taken(buffer, from, n)), UNCHANGED <<disk, pcache, rcache, ret, content, readable, life>>
  PROVE  CacheIndInv'
  <1>1. n \in Nat
    BY ReadFacts
  <1>2. PICK g \in [1 .. n -> ReadBytes] : g = Taken(buffer, from, n)
    BY DEF Taken
  <1>3. g \in Seq(ReadBytes) /\ Len(g) = n
    BY <1>1, <1>2, Listed, Zenon
  <1>4. call' = [call EXCEPT !.off = @ + n, !.size = @ - n, !.data = @ \o g]
    BY <1>2, <1>3 DEF Copies
  <1>5. \A k \in 1 .. n : Answer(call.block, g[k], content[call.block][call.off + k])
    BY <1>2 DEF Taken
  <1>6. QED BY <1>3, <1>4, <1>5, CopyStep

(* The program cache is read.                                              *)
LEMMA ReadsPcacheKeeps ==
  ASSUME CacheIndInv, ReadsPcache  PROVE  CacheIndInv'
  <1>0. call.op = "read" /\ call.size > 0 /\ InPcache
    BY DEF ReadsPcache, Reading
  <1>1. PICK off \in Nat, size \in Nat, b \in Blocks : off = call.off /\ size = call.size /\ b = call.block /\ size > 0
    BY <1>0, ReadFacts
  <1>2. PICK at \in Nat, held \in 0 .. CacheSize : at = pcache.off /\ held = pcache.size
    BY CacheFacts
  <1>3. b = pcache.block /\ off < at + held /\ off >= at
    BY <1>0, <1>1, <1>2 DEF InPcache, Overlaps
  <1>4. PICK n \in Nat : n = lfs_min(size, held - (off - at)) /\ n <= size /\ off + n <= at + held
    BY <1>1, <1>2, <1>3, Sizes DEF lfs_min
  <1>5. PICK from \in Nat : from = off - at
    BY <1>3
  <1>6. Copies(Taken(pcache.buffer, from, n))
    BY <1>1, <1>2, <1>4, <1>5 DEF ReadsPcache
  <1>7. at + held = Len(content[b])
    BY <1>1, <1>2, <1>3, CacheFacts, Sizes
  <1>8. ASSUME NEW k \in 1 .. n PROVE /\ pcache.buffer[from + k - 1] \in Bytes
                                      /\ pcache.buffer[from + k - 1] = content[b][off + k]
    <2>1. off + k - 1 \in Pending(b) /\ from + k - 1 \in Cells
      BY <1>1, <1>2, <1>3, <1>4, <1>5, Sizes DEF Pending, Cells
    <2>2. \A o \in Pending(pcache.block) : pcache.buffer[o - pcache.off] = content[pcache.block][o + 1]
      BY <1>3, Sizes DEF CacheIndInv, PcacheIsTail
    <2>3. pcache.buffer[off + k - 1 - at] = content[b][off + k - 1 + 1]
      BY <1>2, <1>3, <2>1, <2>2
    <2>4. off + k - 1 + 1 = off + k /\ off + k - 1 - at = from + k - 1
      BY <1>1, <1>2, <1>5
    <2>5. QED BY <2>1, <2>3, <2>4, CacheFacts
  <1>9. n \in 0 .. call.size /\ (n > 0 => call.off + n <= Len(content[call.block]))
    BY <1>1, <1>4, <1>2, <1>7
  <1>10. \A k \in 1 .. n :
           /\ pcache.buffer[from + k - 1] \in ReadBytes
           /\ Answer(call.block, pcache.buffer[from + k - 1], content[call.block][call.off + k])
    BY <1>1, <1>8 DEF Answer, ReadBytes
  <1>11. UNCHANGED <<disk, pcache, rcache, ret, content, readable, life>>
    BY DEF ReadsPcache
  <1>12. QED BY <1>0, <1>5, <1>6, <1>9, <1>10, <1>11, TakenStep

(* What may be read back is on the device.                                 *)
LEMMA ReadableOnDisk ==
  ASSUME CacheIndInv, NEW b \in Blocks, NEW o \in 0 .. readable[b] - 1
  PROVE  /\ disk[b][o] = content[b][o + 1] /\ o < Len(content[b]) /\ o \in Places
         /\ disk[b][o] \in Bytes
  <1>1. readable[b] \in Nat /\ readable[b] <= Settled(b) /\ Len(content[b]) \in Nat
    BY DEF CacheIndInv, Shapes, DiskIsRest
  <1>2. Settled(b) \in Nat /\ Settled(b) <= Len(content[b])
    <2>1. CASE pcache.block = b
      <3>1. pcache.off + pcache.size = Len(content[b]) /\ pcache.off \in Nat /\ pcache.size \in Nat
        BY <2>1, CacheFacts, Sizes
      <3>2. QED BY <2>1, <3>1, <1>1 DEF Settled
    <2>2. CASE pcache.block # b
      BY <1>1, <2>2 DEF Settled
    <2>3. QED BY <2>1, <2>2
  <1>3. o \in 0 .. Settled(b) - 1 /\ o < Len(content[b]) /\ o \in Nat
    BY <1>1, <1>2
  <1>4. disk[b][o] = content[b][o + 1]
    BY <1>3 DEF CacheIndInv, DiskIsRest
  <1>5. o \in Places
    <2>1. Len(content[b]) <= BlockSize /\ BlockSize \in Nat
      BY Sizes DEF CacheIndInv, Shapes
    <2>2. QED BY <1>1, <1>3, <2>1 DEF Places
  <1>6. disk[b][o] \in Bytes
    BY <1>5 DEF CacheIndInv, Shapes, Contents
  <1>7. QED BY <1>3, <1>4, <1>5, <1>6

(* What is read where the program cache has nothing may be read back.      *)
LEMMA ReadableThere ==
  ASSUME CacheIndInv, Reading, ~ InPcache
  PROVE  /\ UpToPcache \in 0 .. call.size
         /\ \A o \in call.off .. call.off + UpToPcache - 1 : o \in 0 .. readable[call.block] - 1
  <1>1. call.op = "read"
    BY DEF Reading
  <1>2. PICK off \in Nat, size \in Nat, b \in Blocks : off = call.off /\ size = call.size /\ b = call.block
    BY <1>1, ReadFacts
  <1>3. off .. off + size - 1 \subseteq 0 .. readable[b] - 1 \cup (IF call.withPcache THEN Pending(b) ELSE {})
    BY <1>1, <1>2, ReadFacts
  <1>4. PICK at \in Nat, held \in Nat : at = pcache.off /\ held = pcache.size
    BY CacheFacts
  <1>5. CASE call.withPcache /\ Overlaps(pcache)
    <2>1. b = pcache.block /\ off < at
      BY <1>2, <1>4, <1>5 DEF InPcache, Overlaps
    <2>2. PICK m \in Nat : m = UpToPcache /\ m <= size /\ m <= at - off
      BY <1>2, <1>4, <1>5, <2>1 DEF UpToPcache, lfs_min
    <2>3. ASSUME NEW o \in off .. off + m - 1 PROVE o \in 0 .. readable[b] - 1
      <3>1. o \in off .. off + size - 1 /\ o < at
        BY <2>2, <2>3
      <3>2. o \notin Pending(b)
        BY <1>4, <2>1, <3>1 DEF Pending
      <3>3. QED BY <1>3, <3>1, <3>2
    <2>4. QED BY <1>2, <2>2, <2>3
  <1>6. CASE ~ (call.withPcache /\ Overlaps(pcache))
    <2>1. UpToPcache = size
      BY <1>2, <1>6 DEF UpToPcache
    <2>2. ASSUME NEW o \in off .. off + size - 1 PROVE o \in 0 .. readable[b] - 1
      <3>1. call.withPcache => o \notin Pending(b)
        BY <1>2, <1>4, <1>6 DEF Pending, Overlaps
      <3>2. QED BY <1>3, <2>2, <3>1
    <2>3. QED BY <1>2, <2>1, <2>2
  <1>7. QED BY <1>5, <1>6

(* The read cache is read.                                                 *)
LEMMA ReadsRcacheKeeps ==
  ASSUME CacheIndInv, ReadsRcache  PROVE  CacheIndInv'
  <1>0. call.op = "read" /\ Reading /\ ~ InPcache /\ InRcache
    BY DEF ReadsRcache, Reading
  <1>1. PICK off \in Nat, size \in Nat, b \in Blocks : off = call.off /\ size = call.size /\ b = call.block
    BY <1>0, ReadFacts
  <1>2. PICK at \in Nat, held \in 0 .. CacheSize : at = rcache.off /\ held = rcache.size
    BY CacheFacts
  <1>3. PICK up \in 0 .. size : up = UpToPcache /\ \A o \in off .. off + up - 1 : o \in 0 .. readable[b] - 1
    BY <1>0, <1>1, ReadableThere
  <1>4. b = rcache.block /\ off < at + held /\ off >= at
    BY <1>0, <1>1, <1>2 DEF InRcache, Overlaps
  <1>5. PICK n \in Nat : n = lfs_min(up, held - (off - at)) /\ n <= up /\ n <= size /\ off + n <= at + held
    BY <1>1, <1>2, <1>3, <1>4, Sizes DEF lfs_min
  <1>6. PICK from \in Nat : from = off - at
    BY <1>4
  <1>7. Copies(Taken(rcache.buffer, from, n))
    BY <1>1, <1>2, <1>3, <1>5, <1>6 DEF ReadsRcache
  <1>8. ASSUME NEW k \in 1 .. n PROVE /\ rcache.buffer[from + k - 1] \in ReadBytes
                                      /\ Answer(b, rcache.buffer[from + k - 1], content[b][off + k])
                                      /\ off + k <= Len(content[b])
    <2>1. PICK o \in Nat : o = off + k - 1
      BY <1>1
    <2>2. o \in 0 .. readable[b] - 1
      BY <1>3, <1>5, <2>1
    <2>3. from + k - 1 \in Cells
      BY <1>1, <1>2, <1>4, <1>5, <1>6, Sizes DEF Cells
    <2>4. Answer(b, rcache.buffer[o - at], disk[b][o])
      <3>1. o \in at .. at + held - 1 /\ o < readable[b]
        <4>1. readable[b] \in Nat
          BY DEF CacheIndInv, Shapes
        <4>2. held \in Nat /\ k \in Nat /\ k >= 1 /\ k <= n
          BY <1>2, Sizes
        <4>3. o < readable[b]
          BY <2>2, <4>1
        <4>4. o >= at /\ o <= at + held - 1
          BY <1>4, <1>5, <2>1, <4>2
        <4>5. QED BY <4>2, <4>3, <4>4
      <3>2. b # LFS_BLOCK_NULL
        BY Sizes
      <3>3. QED BY <1>2, <1>4, <3>1, <3>2 DEF CacheIndInv, RcacheFresh, Answer
    <2>5. disk[b][o] = content[b][o + 1] /\ o < Len(content[b])
      BY <2>2, ReadableOnDisk
    <2>6. o - at = from + k - 1 /\ o + 1 = off + k
      BY <1>2, <1>6, <2>1
    <2>7. Len(content[b]) \in Nat
      BY DEF CacheIndInv, Shapes
    <2>8. off + k <= Len(content[b])
      BY <2>1, <2>5, <2>7
    <2>9. rcache.buffer \in [Cells -> ReadBytes]
      BY DEF CacheIndInv, Shapes, ReadCaches
    <2>10. rcache.buffer[from + k - 1] \in ReadBytes
      BY <2>3, <2>9
    <2>11. QED BY <2>4, <2>5, <2>6, <2>8, <2>10, Zenon
  <1>9. n \in 0 .. call.size /\ (n > 0 => call.off + n <= Len(content[call.block]))
    <2>1. n \in 0 .. size /\ (n > 0 => n \in 1 .. n)
      BY <1>5
    <2>2. QED BY <1>1, <1>8, <2>1, Zenon
  <1>10. \A k \in 1 .. n :
           /\ rcache.buffer[from + k - 1] \in ReadBytes
           /\ Answer(call.block, rcache.buffer[from + k - 1], content[call.block][call.off + k])
    BY <1>1, <1>8
  <1>11. UNCHANGED <<disk, pcache, rcache, ret, content, readable, life>>
    BY DEF ReadsRcache
  <1>12. QED BY <1>0, <1>6, <1>7, <1>9, <1>10, <1>11, TakenStep

(* A read cache that has just been loaded is what the device has.          *)
LEMMA LoadedFacts ==
  ASSUME NEW d \in [Blocks -> Contents], NEW b \in Blocks, NEW off \in 0 .. BlockSize, NEW hint \in Nat
  PROVE  /\ Loaded(d, b, off, hint) \in ReadCaches /\ Loaded(d, b, off, hint).block = b
         /\ \A o \in Loaded(d, b, off, hint).off ..
                       Loaded(d, b, off, hint).off + Loaded(d, b, off, hint).size - 1 :
              Loaded(d, b, off, hint).buffer[o - Loaded(d, b, off, hint).off] = d[b][o]
  <1>1. PICK from \in Nat : from = lfs_aligndown(off, ReadSize) /\ from <= off
    BY Sizes, AlignedDown
  <1>2. PICK end \in Nat : end = lfs_alignup(off + hint, ReadSize) /\ off + hint <= end
    <2>1. off + hint \in Nat
      BY Sizes
    <2>2. QED BY <2>1, Sizes, AlignedUp
  <1>3. PICK size \in 0 .. CacheSize : /\ size = lfs_min(lfs_min(end, BlockSize) - from, CacheSize)
                                       /\ from + size <= BlockSize
    BY <1>1, <1>2, Sizes DEF lfs_min
  <1>4. PICK buffer : buffer = [k \in 0 .. CacheSize - 1 |-> IF k < size THEN d[b][from + k] ELSE Erased]
    OBVIOUS
  <1>5. Loaded(d, b, off, hint) = [block |-> b, off |-> from, size |-> size, buffer |-> buffer]
    BY <1>1, <1>2, <1>3, <1>4 DEF Loaded
  <1>6. buffer \in Buffers
    <2> SUFFICES ASSUME NEW k \in Cells PROVE (IF k < size THEN d[b][from + k] ELSE Erased) \in Bytes
      BY <1>4 DEF Buffers, Cells
    <2>1. k < size => from + k \in Places
      BY <1>3, Sizes DEF Cells, Places
    <2>2. QED BY <2>1 DEF Contents, Bytes
  <1>7. from \in 0 .. BlockSize
    BY <1>1, Sizes
  <1>8. \A o \in from .. from + size - 1 : buffer[o - from] = d[b][o]
    <2> SUFFICES ASSUME NEW o \in from .. from + size - 1 PROVE buffer[o - from] = d[b][o]
      OBVIOUS
    <2>1. PICK k \in 0 .. size - 1 : o = from + k
      <3>1. o - from \in 0 .. size - 1 /\ o = from + (o - from)
        BY Sizes
      <3>2. QED BY <3>1
    <2>2. k \in 0 .. CacheSize - 1 /\ k < size /\ o - from = k
      BY <2>1, Sizes
    <2>3. buffer[k] = d[b][from + k]
      BY <1>4, <2>2
    <2>4. QED BY <2>1, <2>2, <2>3
  <1>9. QED BY <1>3, <1>5, <1>6, <1>7, <1>8 DEF ReadCaches, ReadBytes, Buffers

(* One whose read failed has the same label, and nothing that is known.    *)
LEMMA LeftFacts ==
  ASSUME CacheIndInv, NEW b \in Blocks, NEW off \in 0 .. BlockSize, NEW hint \in Nat
  PROVE  /\ LeftBehind(b, off, hint) \in ReadCaches /\ LeftBehind(b, off, hint).block = b
         /\ \A o \in LeftBehind(b, off, hint).off ..
                       LeftBehind(b, off, hint).off + LeftBehind(b, off, hint).size - 1 :
              LeftBehind(b, off, hint).buffer[o - LeftBehind(b, off, hint).off] = Unknown
  <1>1. PICK c \in ReadCaches : c = Loaded(disk, b, off, hint) /\ c.block = b
    <2>1. disk \in [Blocks -> Contents]
      BY DEF CacheIndInv, Shapes
    <2>2. Loaded(disk, b, off, hint) \in ReadCaches /\ Loaded(disk, b, off, hint).block = b
      BY <2>1, LoadedFacts
    <2>3. QED BY <2>2
  <1>2. PICK e : e = [k \in 0 .. CacheSize - 1 |-> Unknown]
    OBVIOUS
  <1>3. e \in [Cells -> ReadBytes]
    BY <1>2 DEF Cells, ReadBytes
  <1>4. PICK f : f = LeftBehind(b, off, hint) /\ f = [c EXCEPT !.buffer = e]
    BY <1>1, <1>2 DEF LeftBehind
  <1>5. f \in ReadCaches /\ f.block = b /\ f.off = c.off /\ f.size = c.size /\ f.buffer = e
    BY <1>1, <1>3, <1>4 DEF ReadCaches
  <1>6. ASSUME NEW o \in f.off .. f.off + f.size - 1 PROVE e[o - f.off] = Unknown
    <2>1. f.off \in 0 .. BlockSize /\ f.size \in 0 .. CacheSize
      BY <1>5 DEF ReadCaches
    <2>2. o - f.off \in 0 .. CacheSize - 1
      BY <2>1, Sizes
    <2>3. QED BY <1>2, <2>2
  <1>7. QED BY <1>4, <1>5, <1>6

(* The device is read, past the caches or into the read cache.             *)
LEMMA ReadsDiskKeeps ==
  ASSUME CacheIndInv, ReadsDisk  PROVE  CacheIndInv'
  <1>0. call.op = "read" /\ Reading /\ ~ InPcache
    BY DEF ReadsDisk, Reading
  <1>1. PICK off \in Nat, size \in Nat, b \in Blocks :
          off = call.off /\ size = call.size /\ b = call.block /\ off + size <= BlockSize
    BY <1>0, ReadFacts
  <1>2. PICK up \in 0 .. size : up = UpToPcache /\ \A o \in off .. off + up - 1 : o \in 0 .. readable[b] - 1
    BY <1>0, <1>1, ReadableThere
  <1>3. CASE Bypasses
    <2>1. Copies(Taken(disk[b], off, lfs_aligndown(UpToCaches, ReadSize))) /\ UNCHANGED rcache
      BY <1>1, <1>3 DEF ReadsDisk
    <2>2. PICK to \in 0 .. up : to = UpToCaches
      <3>1. CASE Overlaps(rcache)
        <4>1. PICK at \in Nat : at = rcache.off
          BY CacheFacts
        <4>2. off < at
          BY <1>0, <1>1, <3>1, <4>1 DEF ReadsDisk, InRcache
        <4>3. UpToCaches = lfs_min(up, at - off)
          BY <1>1, <1>2, <3>1, <4>1 DEF UpToCaches
        <4>4. QED BY <4>2, <4>3 DEF lfs_min
      <3>2. CASE ~ Overlaps(rcache)
        BY <1>2, <3>2 DEF UpToCaches
      <3>3. QED BY <3>1, <3>2
    <2>3. PICK n \in Nat : n = lfs_aligndown(UpToCaches, ReadSize) /\ n <= up
      <3>1. to \in Nat /\ ReadSize \in Nat \ {0} /\ to <= up
        BY <2>2, Sizes
      <3>2. lfs_aligndown(to, ReadSize) \in Nat /\ lfs_aligndown(to, ReadSize) <= to
        BY <3>1, AlignedDown, Zenon
      <3>3. lfs_aligndown(to, ReadSize) <= up
        BY <3>1, <3>2
      <3>4. QED BY <2>2, <3>2, <3>3, Zenon
    <2>4. ASSUME NEW k \in 1 .. n PROVE /\ disk[b][off + k - 1] \in Bytes
                                        /\ disk[b][off + k - 1] = content[b][off + k]
                                        /\ off + k <= Len(content[b])
      <3>1. PICK o \in Nat : o = off + k - 1
        BY <1>1
      <3>2. o \in 0 .. readable[b] - 1
        BY <1>2, <2>3, <3>1
      <3>3. disk[b][o] = content[b][o + 1] /\ o < Len(content[b]) /\ disk[b][o] \in Bytes
        BY <3>2, ReadableOnDisk
      <3>4. Len(content[b]) \in Nat /\ o + 1 = off + k
        BY <3>1 DEF CacheIndInv, Shapes
      <3>5. QED BY <3>1, <3>3, <3>4
    <2>5. n \in 0 .. call.size /\ (n > 0 => call.off + n <= Len(content[call.block]))
      BY <1>1, <1>2, <2>3, <2>4
    <2>6. \A k \in 1 .. n : /\ disk[b][off + k - 1] \in ReadBytes
                            /\ Answer(call.block, disk[b][off + k - 1], content[call.block][call.off + k])
      BY <1>1, <2>4 DEF Answer, ReadBytes
    <2>7. UNCHANGED <<disk, pcache, rcache, ret, content, readable, life>>
      BY <2>1 DEF ReadsDisk
    <2>8. Copies(Taken(disk[b], off, n))
      BY <2>1, <2>3
    <2>9. QED BY <1>0, <2>5, <2>6, <2>7, <2>8, TakenStep
  <1>4. CASE ~ Bypasses
    <2>1. /\ rcache' = Loaded(disk, b, off, call.hint)
          /\ UNCHANGED <<call, disk, pcache, ret, content, readable, life>>
      BY <1>1, <1>4 DEF ReadsDisk
    <2>2. off \in 0 .. BlockSize /\ call.hint \in Nat /\ disk \in [Blocks -> Contents]
      <3>1. off \in 0 .. BlockSize
        BY <1>1, Sizes
      <3>2. call.hint \in Nat
        BY <1>0, ReadFacts
      <3>3. QED BY <3>1, <3>2 DEF CacheIndInv, Shapes
    <2>3. /\ rcache' \in ReadCaches /\ rcache'.block = b
          /\ \A o \in rcache'.off .. rcache'.off + rcache'.size - 1 : rcache'.buffer[o - rcache'.off] = disk[b][o]
      BY <2>1, <2>2, LoadedFacts
    <2>4. Failed' = Failed
      BY <2>1 DEF Failed
    <2>5. Shapes'
      BY <2>1, <2>3 DEF CacheIndInv, Shapes
    <2>6. PcacheIsTail' /\ DiskIsRest'
      BY <2>1, <2>4 DEF CacheIndInv, PcacheIsTail, Pending, DiskIsRest, Settled
    <2>7. RcacheFresh'
      BY <2>1, <2>3 DEF RcacheFresh
    <2>8. CallOnItsWay' /\ ReadSoFar'
      BY <2>1 DEF CacheIndInv, CallOnItsWay, ReadSoFar, Pending
    <2>9. QED BY <2>5, <2>6, <2>7, <2>8 DEF CacheIndInv
  <1>5. QED BY <1>3, <1>4

(* A read of the device fails, past the caches or into the read cache.     *)
LEMMA ReadFailsKeeps ==
  ASSUME CacheIndInv, ReadFails  PROVE  CacheIndInv'
  <1>1. /\ call.op = "read" /\ call.block \in Unreadable
        /\ call' = Idle /\ ret' = "error" /\ UNCHANGED <<disk, pcache, content, readable, life>>
    BY DEF ReadFails, Reading, Returns
  <1>2. PICK b \in Blocks, off \in 0 .. BlockSize, hint \in Nat :
          b = call.block /\ off = call.off /\ hint = call.hint
    <2>1. PICK off \in Nat, size \in Nat : off = call.off /\ size = call.size /\ off + size <= BlockSize
      BY <1>1, ReadFacts
    <2>2. off \in 0 .. BlockSize
      BY <2>1, Sizes
    <2>3. QED BY <1>1, <2>1, <2>2, ReadFacts
  <1>3. rcache' = rcache \/ rcache' = LeftBehind(b, off, hint)
    BY <1>2 DEF ReadFails
  <1>4. rcache' \in ReadCaches /\ RcacheFresh'
    <2>1. CASE rcache' = rcache
      BY <1>1, <2>1, CacheFacts DEF CacheIndInv, RcacheFresh
    <2>2. CASE rcache' = LeftBehind(b, off, hint)
      <3>1. /\ rcache' \in ReadCaches /\ rcache'.block = b
            /\ \A o \in rcache'.off .. rcache'.off + rcache'.size - 1 : rcache'.buffer[o - rcache'.off] = Unknown
        BY <2>2, LeftFacts
      <3>2. QED BY <1>1, <1>2, <3>1 DEF RcacheFresh
    <2>3. QED BY <1>3, <2>1, <2>2
  <1>5. Shapes'
    BY <1>1, <1>4 DEF CacheIndInv, Shapes
  <1>6. ~ Failed /\ ~ Failed'
    BY <1>1 DEF Failed, Idle
  <1>7. PcacheIsTail' /\ DiskIsRest'
    BY <1>1, <1>6 DEF CacheIndInv, PcacheIsTail, Pending, DiskIsRest, Settled
  <1>8. CallOnItsWay' /\ ReadSoFar'
    BY <1>1 DEF CallOnItsWay, ReadSoFar, Idle
  <1>9. QED BY <1>4, <1>5, <1>7, <1>8 DEF CacheIndInv

(* A read that reaches out of the device is refused; another begins where  *)
(* everything may be read.                                                 *)
LEMMA ReadBegins ==
  ASSUME CacheIndInv, NEW p \in BOOLEAN, NEW b \in 0 .. BlockCount, NEW o \in 0 .. BlockSize - 1,
         NEW n \in ClientReads, NEW h \in Hints, lfs_bd_read(p, b, o, n, h)
  PROVE  CacheIndInv'
  <1>0. /\ call = Idle /\ ~ Failed /\ UNCHANGED <<disk, pcache, rcache, content, readable, life>>
        /\ n \in Nat \ {0} /\ h \in Nat /\ o \in Nat
    BY Sizes DEF lfs_bd_read, Free
  <1>1. CASE b >= BlockCount \/ o + n > BlockSize
    <2>1. call' = Idle /\ ret' = "corrupt"
      BY <1>1 DEF lfs_bd_read, Returns
    <2>2. Shapes'
      BY <1>0, <2>1 DEF CacheIndInv, Shapes
    <2>3. PcacheIsTail' /\ DiskIsRest'
      BY <1>0, <2>1 DEF CacheIndInv, PcacheIsTail, Pending, DiskIsRest, Settled, Idle
    <2>4. RcacheFresh' /\ CallOnItsWay' /\ ReadSoFar'
      BY <1>0, <2>1 DEF CacheIndInv, RcacheFresh, CallOnItsWay, ReadSoFar, Idle
    <2>5. QED BY <2>2, <2>3, <2>4 DEF CacheIndInv
  <1>2. CASE ~ (b >= BlockCount \/ o + n > BlockSize)
    <2>1. /\ o .. o + n - 1 \subseteq 0 .. readable[b] - 1 \cup (IF p THEN Pending(b) ELSE {})
          /\ call' = [op |-> "read", withPcache |-> p, block |-> b, off |-> o,
                      size |-> n, hint |-> h, start |-> o, data |-> << >>]
          /\ ret' = "ok"
      BY <1>2 DEF lfs_bd_read
    <2>2. b \in Blocks /\ o + n <= BlockSize
      BY <1>0, <1>2, Sizes DEF Blocks
    <2>3. call' \in ReadCalls /\ call'.op = "read" /\ call'.block = b /\ call'.off = o /\ call'.size = n
          /\ call'.start = o /\ call'.data = <<>> /\ call'.withPcache = p
      BY <1>0, <2>1, <2>2 DEF ReadCalls
    <2>4. Shapes'
      BY <1>0, <2>1, <2>3 DEF CacheIndInv, Shapes
    <2>5. ~ Failed'
      BY <2>3 DEF Failed, Idle
    <2>6. PcacheIsTail' /\ DiskIsRest'
      BY <1>0, <2>5 DEF CacheIndInv, PcacheIsTail, Pending, DiskIsRest, Settled, Idle
    <2>7. RcacheFresh'
      BY <1>0 DEF CacheIndInv, RcacheFresh
    <2>8. CallOnItsWay'
      <3>1. Pending(b)' = Pending(b) /\ readable' = readable
        BY <1>0 DEF Pending
      <3>2. Len(<<>>) = 0 /\ o = o + 0
        BY <1>0
      <3>3. QED BY <2>1, <2>2, <2>3, <3>1, <3>2 DEF CallOnItsWay
    <2>9. o < Len(content[b])
      <3>1. o \in o .. o + n - 1
        BY <1>0
      <3>2. CASE o \in 0 .. readable[b] - 1
        BY <2>2, <3>2, ReadableOnDisk
      <3>3. CASE o \notin 0 .. readable[b] - 1
        <4>1. o \in Pending(b)
          BY <2>1, <3>1, <3>3
        <4>2. PICK end \in Nat : pcache.block = b /\ end = pcache.off + pcache.size /\ o <= end - 1
          BY <4>1, CacheFacts DEF Pending
        <4>3. pcache.off + pcache.size = Len(content[b])
          BY <2>2, <4>2, CacheFacts, Sizes
        <4>4. QED BY <1>0, <4>2, <4>3
      <3>4. QED BY <3>2, <3>3
    <2>10. ReadSoFar'
      <3>1. Len(content[b]) \in Nat /\ Len(<<>>) = 0 /\ content' = content
        BY <1>0, <2>2 DEF CacheIndInv, Shapes
      <3>2. QED BY <1>0, <2>3, <2>9, <3>1 DEF ReadSoFar
    <2>11. QED BY <2>4, <2>6, <2>7, <2>8, <2>10 DEF CacheIndInv
  <1>3. QED BY <1>1, <1>2

(* A call returns.                                                         *)
LEMMA ReturnKeeps ==
  ASSUME CacheIndInv, ReadReturns \/ ProgReturns  PROVE  CacheIndInv'
  <1>1. call' = Idle /\ ret' = "ok" /\ UNCHANGED <<disk, pcache, rcache, content, readable, life>>
        /\ call.op \in {"read", "prog"}
    BY DEF ReadReturns, ProgReturns, Returns
  <1>2. ~ Failed /\ ~ Failed'
    BY <1>1 DEF Failed, Idle
  <1>3. Shapes'
    BY <1>1 DEF CacheIndInv, Shapes
  <1>4. PcacheIsTail' /\ DiskIsRest'
    BY <1>1, <1>2 DEF CacheIndInv, PcacheIsTail, Pending, DiskIsRest, Settled
  <1>5. RcacheFresh' /\ CallOnItsWay' /\ ReadSoFar'
    BY <1>1 DEF CacheIndInv, RcacheFresh, CallOnItsWay, ReadSoFar, Idle
  <1>6. QED BY <1>3, <1>4, <1>5 DEF CacheIndInv

-----------------------------------------------------------------------------
(* Programming and erasing. *)

(* The largest number of a product of two.                                 *)
LEMMA Largest ==
  \A m, n \in Nat \ {0} : \A i \in 0 .. m - 1 : \A j \in 0 .. n - 1 : i * n + j \in 0 .. m * n - 1
  <1> SUFFICES ASSUME NEW m \in Nat \ {0}, NEW n \in Nat \ {0}, NEW i \in 0 .. m - 1, NEW j \in 0 .. n - 1
               PROVE  i * n + j \in 0 .. m * n - 1
    OBVIOUS
  <1>1. PICK k \in Nat : m = i + 1 + k
    <2>1. m - i - 1 \in Nat /\ m = i + 1 + (m - i - 1)
      OBVIOUS
    <2>2. QED BY <2>1
  <1>2. m * n = i * n + n + k * n /\ k * n \in Nat /\ i * n \in Nat
    BY <1>1
  <1>3. QED BY <1>2

(* Every datum is a byte, and none is what erasing leaves.                 *)
LEMMA DatumFacts ==
  ASSUME CacheIndInv, NEW b \in Blocks, NEW o \in Places
  PROVE  Datum(b, o) \in Bytes
  <1>1. PICK m \in Nat \ {0}, n \in Nat \ {0} : m = BlockCount /\ n = BlockSize
    BY Sizes
  <1>2. PICK x \in 0 .. m * n - 1 : x = b * n + o
    BY <1>1, Largest DEF Blocks, Places
  <1>3. life[b] \in 0 .. 1
    BY DEF CacheIndInv, Shapes
  <1>4. PICK y \in Nat : y = m * n
    BY <1>1
  <1>5. 2 * x + life[b] \in 0 .. 2 * y - 1
    BY <1>2, <1>3, <1>4
  <1>6. 2 * y = 2 * BlockCount * BlockSize
    BY <1>1, <1>4
  <1>7. QED BY <1>1, <1>2, <1>5, <1>6 DEF Datum, Bytes

(* Programming begins at the end of a block.                               *)
LEMMA ProgBegins ==
  ASSUME CacheIndInv, NEW b \in Blocks, NEW n \in ClientProgs, lfs_bd_prog(b \in Validated, b, n)
  PROVE  CacheIndInv'
  <1>0. /\ call = Idle /\ ~ Failed /\ ret' = "ok" /\ UNCHANGED <<disk, pcache, rcache, content, readable, life>>
        /\ n \in Nat \ {0} /\ Len(content[b]) + n <= BlockSize
        /\ pcache.block \in {b, LFS_BLOCK_NULL}
    BY Sizes DEF lfs_bd_prog, Free
  <1>1. PICK end \in Nat : end = Len(content[b])
    BY DEF CacheIndInv, Shapes
  <1>2. PICK g \in Seq(Bytes) : g = [k \in 1 .. n |-> Datum(b, Len(content[b]) + k - 1)] /\ Len(g) = n
    <2>1. PICK g : g = [k \in 1 .. n |-> Datum(b, end + k - 1)]
      OBVIOUS
    <2>2. \A k \in 1 .. n : end + k - 1 \in Places
      BY <1>0, <1>1, Sizes DEF Places
    <2>3. g \in [1 .. n -> Bytes]
      BY <2>1, <2>2, DatumFacts
    <2>4. g \in Seq(Bytes) /\ Len(g) = n
      BY <1>0, <2>3, Listed, Zenon
    <2>5. QED BY <1>1, <2>1, <2>4
  <1>3. call' = [op |-> "prog", validate |-> (b \in Validated), block |-> b, off |-> end, data |-> g]
    BY <1>1, <1>2 DEF lfs_bd_prog
  <1>4. (b \in Validated) \in BOOLEAN
    OBVIOUS
  <1>5. /\ call' \in ProgCalls /\ call'.op = "prog" /\ call'.block = b /\ call'.off = end /\ call'.data = g
        /\ call'.validate = (b \in Validated)
    BY <1>1, <1>2, <1>3, <1>4 DEF ProgCalls
  <1>6. ~ Failed'
    BY <1>5 DEF Failed, Idle
  <1>7. Shapes'
    BY <1>0, <1>5 DEF CacheIndInv, Shapes
  <1>8. PcacheIsTail' /\ DiskIsRest'
    BY <1>0, <1>6 DEF CacheIndInv, PcacheIsTail, Pending, DiskIsRest, Settled, Idle
  <1>9. RcacheFresh' /\ ReadSoFar'
    BY <1>0, <1>5 DEF CacheIndInv, RcacheFresh, ReadSoFar
  <1>10. CallOnItsWay'
    BY <1>0, <1>1, <1>2, <1>5 DEF CallOnItsWay
  <1>11. QED BY <1>7, <1>8, <1>9, <1>10 DEF CacheIndInv

(* A program cache is taken for a block, at the end of what it has.        *)
LEMMA PrepareKeeps ==
  ASSUME CacheIndInv, ProgPrepares  PROVE  CacheIndInv'
  <1>0. /\ call.op = "prog" /\ UNCHANGED <<disk, rcache, call, ret, content, readable, life>>
        /\ call.data # <<>> /\ ~ FitsPcache
    BY DEF ProgPrepares, Programming
  <1>1. pcache.block = LFS_BLOCK_NULL
    BY <1>0, IndImpliesCacheInv DEF CacheInv, PcacheFree, Programming
  <1>2. PICK b \in Blocks : b = call.block /\ call \in ProgCalls
    BY <1>0 DEF CacheIndInv, Shapes, ReadCalls, ProgCalls, Idle
  <1>3. PICK end \in 0 .. BlockSize : end = Len(content[b]) /\ end = call.off /\ end % ProgSize = 0
    BY <1>0, <1>1, <1>2, Sizes DEF CacheIndInv, Shapes, CallOnItsWay, PcacheIsTail
  <1>4. lfs_aligndown(end, ProgSize) = end
    BY <1>3, Sizes, AlignedDown
  <1>5. pcache' = [pcache EXCEPT !.block = b, !.off = end, !.size = 0]
    BY <1>2, <1>3, <1>4 DEF ProgPrepares
  <1>6. pcache' \in Caches /\ pcache'.block = b /\ pcache'.off = end /\ pcache'.size = 0
    <2>1. 0 \in 0 .. CacheSize
      BY Sizes
    <2>2. QED BY <1>5, <2>1, CacheFacts DEF Caches
  <1>7. ~ Failed /\ ~ Failed'
    BY <1>0 DEF Failed, Idle
  <1>8. Shapes'
    BY <1>0, <1>6 DEF CacheIndInv, Shapes
  <1>9. PcacheIsTail'
    <2>1. Pending(b)' = {}
      BY <1>3, <1>6 DEF Pending
    <2>2. end + 0 = end
      BY <1>3
    <2>3. 0 # CacheSize
      BY Sizes
    <2>4. QED BY <1>0, <1>1, <1>3, <1>6, <2>1, <2>2, <2>3, Sizes DEF CacheIndInv, PcacheIsTail
  <1>10. DiskIsRest'
    <2>1. \A c \in Blocks : Settled(c)' = Settled(c)
      BY <1>0, <1>1, <1>3, <1>6, Sizes DEF Settled
    <2>2. QED BY <1>0, <1>7, <2>1 DEF CacheIndInv, DiskIsRest
  <1>11. RcacheFresh' /\ ReadSoFar'
    BY <1>0 DEF CacheIndInv, RcacheFresh, ReadSoFar
  <1>12. CallOnItsWay'
    BY <1>0, <1>2, <1>6 DEF CacheIndInv, CallOnItsWay
  <1>13. QED BY <1>8, <1>9, <1>10, <1>11, <1>12 DEF CacheIndInv

(* A block that is erased, when nothing of it is in the program cache, has *)
(* nothing to read back.                                                   *)
LEMMA ErasedKeeps ==
  ASSUME CacheIndInv, NEW b \in Blocks, call' = Idle, ret' \in {"ok", "error"},
         pcache.block \in {b, LFS_BLOCK_NULL} => pcache'.block = LFS_BLOCK_NULL,
         pcache' = pcache \/ pcache' = lfs_cache_drop(pcache),
         pcache.block \notin {b, LFS_BLOCK_NULL} => pcache' = pcache /\ Free,
         disk' = [disk EXCEPT ![b] = [o \in 0 .. BlockSize - 1 |-> Erased]],
         content' = [content EXCEPT ![b] = << >>], readable' = [readable EXCEPT ![b] = 0],
         life' = [life EXCEPT ![b] = 1 - @], UNCHANGED rcache
  PROVE  CacheIndInv'
  <1>1. pcache' \in Caches /\ (pcache' # pcache => pcache'.block = LFS_BLOCK_NULL)
    BY CacheFacts DEF Caches, lfs_cache_drop
  <1>2. ~ Failed' /\ Idle.op = "none"
    BY DEF Failed, Idle
  <1>3. /\ \A c \in Blocks \ {b} : /\ disk'[c] = disk[c] /\ content'[c] = content[c]
                                   /\ readable'[c] = readable[c]
        /\ content'[b] = <<>> /\ readable'[b] = 0 /\ \A o \in Places : disk'[b][o] = Erased
    BY DEF CacheIndInv, Shapes, Places
  <1>4. Shapes'
    <2>1. [o \in 0 .. BlockSize - 1 |-> Erased] \in Contents
      BY DEF Contents, Places, Bytes
    <2>2. disk' \in [Blocks -> Contents]
      BY <2>1 DEF CacheIndInv, Shapes
    <2>3. content' \in [Blocks -> Seq(Bytes)] /\ readable' \in [Blocks -> Nat] /\ life' \in [Blocks -> 0 .. 1]
      <3>1. <<>> \in Seq(Bytes) /\ 0 \in Nat
        OBVIOUS
      <3>2. life \in [Blocks -> 0 .. 1] /\ 1 - life[b] \in 0 .. 1
        <4>1. life \in [Blocks -> 0 .. 1]
          BY Zenon DEF CacheIndInv, Shapes
        <4>2. PICK x \in 0 .. 1 : x = life[b]
          BY <4>1
        <4>3. QED BY <4>1, <4>2
      <3>3. content' \in [Blocks -> Seq(Bytes)]
        BY <3>1 DEF CacheIndInv, Shapes
      <3>4. readable' \in [Blocks -> Nat]
        BY <3>1 DEF CacheIndInv, Shapes
      <3>5. life' \in [Blocks -> 0 .. 1]
        BY <3>2
      <3>6. QED BY <3>3, <3>4, <3>5
    <2>4. \A c \in Blocks : Len(content'[c]) <= BlockSize
      BY <1>3, Sizes DEF CacheIndInv, Shapes
    <2>5. QED BY <1>1, <2>2, <2>3, <2>4 DEF CacheIndInv, Shapes
  <1>5. PcacheIsTail'
    <2>1. \A c \in Blocks \ {pcache'.block} : Len(content'[c]) % ProgSize = 0
      <3> SUFFICES ASSUME NEW c \in Blocks \ {pcache'.block} PROVE Len(content'[c]) % ProgSize = 0
        OBVIOUS
      <3>1. CASE c = b
        BY <1>3, <3>1, Sizes
      <3>2. CASE c # b /\ c # pcache.block
        BY <1>3, <3>2 DEF CacheIndInv, PcacheIsTail
      <3>3. CASE c # b /\ c = pcache.block
        BY <3>3, Sizes
      <3>4. QED BY <3>1, <3>2, <3>3
    <2>2. ASSUME pcache'.block # LFS_BLOCK_NULL
          PROVE  /\ pcache' = pcache /\ pcache.block \in Blocks \ {b} /\ call = Idle /\ ~ Failed
      BY <1>1, <2>2, CacheFacts DEF Free
    <2>3. QED BY <1>2, <1>3, <2>1, <2>2 DEF CacheIndInv, PcacheIsTail, Pending, Idle
  <1>6. DiskIsRest'
    <2> SUFFICES ASSUME NEW c \in Blocks
                 PROVE  /\ readable'[c] <= Settled(c)'
                        /\ \A o \in 0 .. Settled(c)' - 1 : disk'[c][o] = content'[c][o + 1]
                        /\ \A o \in Settled(c)' .. BlockSize - 1 : disk'[c][o] = Erased
      BY DEF DiskIsRest
    <2>1. CASE c = b
      <3>1. Settled(c)' = 0
        BY <1>1, <1>3, <2>1, Sizes DEF Settled
      <3>2. QED BY <1>3, <2>1, <3>1 DEF Places
    <2>2. CASE c # b
      <3>1. Settled(c)' = Settled(c)
        <4>1. CASE pcache.block = c
          BY <2>2, <4>1, Sizes DEF Settled
        <4>2. CASE pcache.block # c
          BY <1>1, <1>3, <2>2, <4>2, Sizes DEF Settled
        <4>3. QED BY <4>1, <4>2
      <3>2. ~ (Failed /\ c = pcache.block)
        BY <2>2, Sizes DEF Free
      <3>3. QED BY <1>3, <2>2, <3>1, <3>2 DEF CacheIndInv, DiskIsRest
    <2>3. QED BY <2>1, <2>2
  <1>7. RcacheFresh'
    <2> SUFFICES ASSUME rcache.block # LFS_BLOCK_NULL,
                        NEW o \in rcache.off .. rcache.off + rcache.size - 1, o < readable'[rcache.block]
                 PROVE  Answer(rcache.block, rcache.buffer[o - rcache.off], disk'[rcache.block][o])
      BY DEF RcacheFresh, Answer
    <2>1. rcache.block \in Blocks /\ o \in Nat
      BY CacheFacts
    <2>2. rcache.block # b
      BY <1>3, <2>1
    <2>3. QED BY <1>3, <2>1, <2>2 DEF CacheIndInv, RcacheFresh, Answer
  <1>8. CallOnItsWay' /\ ReadSoFar'
    BY <1>2 DEF CallOnItsWay, ReadSoFar
  <1>9. QED BY <1>4, <1>5, <1>6, <1>7, <1>8 DEF CacheIndInv

(* A block is erased for another use ...                                   *)
LEMMA EraseKeeps ==
  ASSUME CacheIndInv, NEW b \in Blocks, lfs_bd_erase(b)  PROVE  CacheIndInv'
  <1>1. /\ Free /\ pcache.block # b /\ pcache' = pcache /\ call' = Idle /\ ret' \in {"ok", "error"} /\ UNCHANGED rcache
    BY DEF lfs_bd_erase, Returns
  <1>2. /\ disk' = [disk EXCEPT ![b] = [o \in 0 .. BlockSize - 1 |-> Erased]]
        /\ content' = [content EXCEPT ![b] = << >>] /\ readable' = [readable EXCEPT ![b] = 0]
        /\ life' = [life EXCEPT ![b] = 1 - @]
    BY DEF lfs_bd_erase
  <1>3. QED BY <1>1, <1>2, ErasedKeeps

(* ... or given up.                                                        *)
LEMMA GivesUpKeeps ==
  ASSUME CacheIndInv, GivesUp  PROVE  CacheIndInv'
  <1>1. PICK b \in Blocks : b = pcache.block
    BY CacheFacts DEF GivesUp
  <1>2. /\ pcache' = lfs_cache_drop(pcache) /\ call' = Idle /\ ret' = "ok" /\ UNCHANGED rcache
        /\ disk' = [disk EXCEPT ![b] = [o \in 0 .. BlockSize - 1 |-> Erased]]
        /\ content' = [content EXCEPT ![b] = << >>] /\ readable' = [readable EXCEPT ![b] = 0]
        /\ life' = [life EXCEPT ![b] = 1 - @]
    BY <1>1 DEF GivesUp, Returns
  <1>3. pcache'.block = LFS_BLOCK_NULL
    BY <1>2, CacheFacts DEF lfs_cache_drop, Caches
  <1>4. QED BY <1>1, <1>2, <1>3, ErasedKeeps

(* A sequence is cut in two.                                               *)
LEMMA Halves ==
  \A S : \A s \in Seq(S) : \A n \in 0 .. Len(s) :
    /\ SubSeq(s, 1, n) \in Seq(S) /\ Len(SubSeq(s, 1, n)) = n /\ \A k \in 1 .. n : SubSeq(s, 1, n)[k] = s[k]
    /\ SubSeq(s, n + 1, Len(s)) \in Seq(S) /\ Len(SubSeq(s, n + 1, Len(s))) = Len(s) - n
  OBVIOUS

(* What is known while a block is programmed.                              *)
LEMMA ProgFacts ==
  ASSUME CacheIndInv, call.op \in {"prog", "full"}
  PROVE  /\ call \in ProgCalls /\ call.block \in Blocks /\ ~ Failed
         /\ call.data \in Seq(Bytes) /\ call.off \in Nat
         /\ call.off = Len(content[call.block]) /\ call.off + Len(call.data) <= BlockSize
         /\ call.validate = (call.block \in Validated)
         /\ pcache.block \in {call.block, LFS_BLOCK_NULL}
         /\ content[call.block] \in Seq(Bytes)
         /\ call.op = "full" => pcache.block = call.block /\ pcache.size = CacheSize
  <1>1. call \in ProgCalls
    BY DEF CacheIndInv, Shapes, ReadCalls, Idle
  <1>2. call.block \in Blocks /\ call.data \in Seq(Bytes) /\ call.off \in Nat
    BY <1>1 DEF ProgCalls
  <1>3. ~ Failed
    BY DEF Failed, Idle
  <1>4. content[call.block] \in Seq(Bytes)
    BY <1>2 DEF CacheIndInv, Shapes
  <1>5. QED BY <1>1, <1>2, <1>3, <1>4 DEF CacheIndInv, CallOnItsWay

(* Where the bytes go that are put into a cache that holds some.           *)
Fills(at, held, off, n, cap) ==
  /\ at + (held + n) = off + n /\ held + n \in 0 .. cap
  /\ \A k \in held .. held + n - 1 : k - held + 1 \in 1 .. n
  /\ \A o \in 0 .. at - 1 : o + 1 \in 1 .. off
  /\ \A o \in at .. at + (held + n) - 1 :
       /\ o \in Nat /\ o - at \in 0 .. cap - 1
       /\ o < off => o - at \notin held .. held + n - 1 /\ o + 1 \in 1 .. off /\ o \in at .. at + held - 1
       /\ ~ (o < off) => \E j \in 1 .. n : /\ o = off + j - 1 /\ o + 1 = off + j
                                           /\ o - at \in held .. held + n - 1 /\ (o - at) - held + 1 = j

(* ... at, or before, the end of them.                                     *)
LEMMA Filling ==
  \A at, held, off, n, cap \in Nat :
    at + held = off /\ held + n <= cap => Fills(at, held, off, n, cap)
  <1> SUFFICES ASSUME NEW at \in Nat, NEW held \in Nat, NEW off \in Nat, NEW n \in Nat, NEW cap \in Nat,
                      at + held = off, held + n <= cap
               PROVE  Fills(at, held, off, n, cap)
    OBVIOUS
  <1>1. /\ at + (held + n) = off + n /\ held + n \in 0 .. cap
        /\ \A k \in held .. held + n - 1 : k - held + 1 \in 1 .. n
        /\ \A o \in 0 .. at - 1 : o + 1 \in 1 .. off
    OBVIOUS
  <1>2. ASSUME NEW o \in at .. at + (held + n) - 1
        PROVE  /\ o \in Nat /\ o - at \in 0 .. cap - 1
               /\ o < off => o - at \notin held .. held + n - 1 /\ o + 1 \in 1 .. off /\ o \in at .. at + held - 1
    OBVIOUS
  <1>3. ASSUME NEW o \in at .. at + (held + n) - 1, ~ (o < off)
        PROVE  \E j \in 1 .. n : /\ o = off + j - 1 /\ o + 1 = off + j
                                 /\ o - at \in held .. held + n - 1 /\ (o - at) - held + 1 = j
    <2>1. PICK j \in 1 .. n : o = off + j - 1
      <3>1. o - off + 1 \in 1 .. n /\ o = off + (o - off + 1) - 1
        BY <1>3
      <3>2. QED BY <3>1
    <2>2. o + 1 = off + j /\ o - at \in held .. held + n - 1 /\ (o - at) - held + 1 = j
      BY <2>1
    <2>3. QED BY <2>1, <2>2
  <1>4. QED BY <1>1, <1>2, <1>3 DEF Fills

(* As many go there as are left, or as there is room for.                  *)
LEMMA AsManyAsFit ==
  \A len, held, cap \in Nat : len # 0 /\ held < cap =>
    \E n \in Nat : n = lfs_min(len, cap - held) /\ n <= len /\ held + n <= cap /\ n > 0
  BY DEF lfs_min

(* Bytes go to the program cache.                                          *)
LEMMA FitsKeeps ==
  ASSUME CacheIndInv, ProgFits  PROVE  CacheIndInv'
  <1>0. /\ call.op = "prog" /\ call.data # <<>> /\ FitsPcache
        /\ UNCHANGED <<disk, rcache, ret, readable, life>>
    BY DEF ProgFits, Programming
  <1>1. PICK b \in Blocks, off \in Nat, data \in Seq(Bytes) :
          /\ b = call.block /\ off = call.off /\ data = call.data
          /\ off + Len(data) <= BlockSize
    BY <1>0, ProgFacts
  <1>2. PICK c \in Seq(Bytes) : c = content[b] /\ off = Len(c) /\ Len(c) \in Nat
    BY <1>0, <1>1, ProgFacts
  <1>3. pcache.block = b /\ b # LFS_BLOCK_NULL
    BY <1>0, <1>1, Sizes DEF FitsPcache
  <1> PICK cap \in Nat \ {0}, blockSize \in Nat : cap = CacheSize /\ blockSize = BlockSize
    BY Sizes
  <1>4. PICK at \in Nat, held \in Nat :
          at = pcache.off /\ held = pcache.size /\ at + held = off /\ held < cap
    <2>1. pcache.off + pcache.size = off
      BY <1>2, <1>3, CacheFacts
    <2>2. pcache.size # CacheSize
      BY <1>0, <1>3, ProgFacts DEF CacheIndInv, PcacheIsTail
    <2>3. PICK at \in Nat, held \in 0 .. CacheSize : at = pcache.off /\ held = pcache.size
      BY CacheFacts
    <2>4. held \in 0 .. cap /\ held # cap
      BY <2>2, <2>3
    <2>5. held \in Nat /\ held < cap
      BY <2>4
    <2>6. QED BY <2>1, <2>3, <2>5
  <1>5. PICK len \in Nat : len = Len(data) /\ len # 0
    BY <1>0, <1>1
  <1>6. PICK n \in Nat : n = lfs_min(len, cap - held) /\ n <= len /\ held + n <= cap /\ n > 0
    <2>1. cap \in Nat
      OBVIOUS
    <2>2. QED BY <1>4, <1>5, <2>1, AsManyAsFit, Zenon
  <1>6a. Fills(at, held, off, n, cap)
    BY <1>4, <1>6, Filling, Zenon
  <1>7. PICK g \in Seq(Bytes) : g = SubSeq(data, 1, n) /\ Len(g) = n /\ \A k \in 1 .. n : g[k] = data[k]
    <2>1. n \in 0 .. Len(data)
      BY <1>5, <1>6
    <2>2. /\ SubSeq(data, 1, n) \in Seq(Bytes) /\ Len(SubSeq(data, 1, n)) = n
          /\ \A k \in 1 .. n : SubSeq(data, 1, n)[k] = data[k]
      BY <2>1, Halves, ZenonT(30)
    <2>3. QED BY <2>2, Zenon
  <1>8. PICK rest \in Seq(Bytes) : rest = SubSeq(data, n + 1, Len(data)) /\ Len(rest) = Len(data) - n
    <2>1. n \in 0 .. Len(data)
      BY <1>5, <1>6
    <2>2. /\ SubSeq(data, n + 1, Len(data)) \in Seq(Bytes)
          /\ Len(SubSeq(data, n + 1, Len(data))) = Len(data) - n
      BY <2>1, Halves, Zenon
    <2>3. QED BY <2>2, Zenon
  <1>9. PICK e \in Seq(Bytes) : Joined(c, g, e)
    BY Joins, Zenon
  <1>10. PICK buffer : buffer = [k \in 0 .. CacheSize - 1 |->
                                   IF k \in held .. held + n - 1 THEN data[k - held + 1] ELSE pcache.buffer[k]]
    OBVIOUS
  <1>11. pcache' = [pcache EXCEPT !.buffer = buffer, !.size = held + n]
    <2>1. call.off - pcache.off = held
      BY <1>1, <1>4
    <2>2. lfs_max(held, held + n) = held + n
      BY <1>4, <1>6 DEF lfs_max
    <2>3. pcache' = [pcache EXCEPT !.buffer = [k \in 0 .. CacheSize - 1 |->
                                     IF k \in held .. held + n - 1 THEN data[k - held + 1] ELSE pcache.buffer[k]],
                                   !.size = lfs_max(pcache.size, held + n)]
      BY <1>1, <1>4, <1>5, <1>6, <2>1 DEF ProgFits
    <2>4. QED BY <1>4, <1>10, <2>2, <2>3
  <1>12. buffer \in Buffers
    <2> SUFFICES ASSUME NEW k \in Cells
                 PROVE  (IF k \in held .. held + n - 1 THEN data[k - held + 1] ELSE pcache.buffer[k]) \in Bytes
      BY <1>10 DEF Buffers, Cells
    <2>1. CASE k \in held .. held + n - 1
      <3>1. k - held + 1 \in 1 .. n
        BY <1>6a, <2>1, Zenon DEF Fills
      <3>2. k - held + 1 \in 1 .. Len(data)
        BY <1>5, <1>6, <3>1
      <3>3. data[k - held + 1] \in Bytes
        BY <3>2
      <3>4. QED BY <2>1, <3>3
    <2>2. CASE k \notin held .. held + n - 1
      BY <2>2, CacheFacts
    <2>3. QED BY <2>1, <2>2
  <1>13. /\ pcache' \in Caches /\ pcache'.block = b /\ pcache'.off = at /\ pcache'.size = held + n
         /\ pcache'.buffer = buffer
    <2>1. held + n \in 0 .. CacheSize
      <3>1. held + n \in 0 .. cap
        BY <1>6a, Zenon DEF Fills
      <3>2. QED BY <3>1
    <2>2. QED BY <1>3, <1>4, <1>11, <1>12, <2>1, CacheFacts DEF Caches
  <1>14. call' = [call EXCEPT !.off = off + n, !.data = rest, !.op = IF held + n = CacheSize THEN "full" ELSE "prog"]
    <2>1. call' = [call EXCEPT !.off = off + n, !.data = rest, !.op = IF IsFull(pcache') THEN "full" ELSE "prog"]
      <3>1. call.off - pcache.off = held
        BY <1>1, <1>4
      <3>2. QED BY <1>1, <1>4, <1>5, <1>6, <1>8, <3>1 DEF ProgFits
    <2>2. IsFull(pcache') <=> held + n = CacheSize
      BY <1>13 DEF IsFull
    <2>3. QED BY <2>1, <2>2
  <1>15. /\ call' \in ProgCalls /\ call'.op = (IF held + n = CacheSize THEN "full" ELSE "prog")
         /\ call'.block = b /\ call'.off = off + n /\ call'.data = rest /\ call'.validate = call.validate
    <2>1. call \in ProgCalls
      BY <1>0, ProgFacts
    <2>2. off + n \in Nat
      OBVIOUS
    <2>3. PICK op \in {"prog", "full"} : op = (IF held + n = CacheSize THEN "full" ELSE "prog")
      OBVIOUS
    <2>4. call' = [call EXCEPT !.off = off + n, !.data = rest, !.op = op]
      BY <1>14, <2>3, Zenon
    <2>5. QED BY <1>1, <2>1, <2>2, <2>3, <2>4 DEF ProgCalls
  <1>16. content' = [content EXCEPT ![b] = e]
    <2>1. content' = [content EXCEPT ![b] = c \o g]
      <3>1. call.off - pcache.off = held
        BY <1>1, <1>4
      <3>2. QED BY <1>1, <1>2, <1>4, <1>5, <1>6, <1>7, <3>1 DEF ProgFits
    <2>2. QED BY <1>9, <2>1 DEF Joined
  <1>17. content' \in [Blocks -> Seq(Bytes)] /\ content'[b] = e /\ \A d \in Blocks \ {b} : content'[d] = content[d]
    BY <1>16 DEF CacheIndInv, Shapes
  <1>18. Len(e) = off + n /\ Len(e) <= BlockSize
    <2>1. Len(e) = Len(c) + Len(g)
      BY <1>9 DEF Joined
    <2>2. Len(e) = off + n
      BY <1>2, <1>7, <2>1, Zenon
    <2>3. off + len <= blockSize
      BY <1>1, <1>5, Zenon
    <2>4. off + n <= blockSize
      BY <1>6, <2>3
    <2>5. QED BY <2>2, <2>4, Zenon
  <1>19. ~ Failed /\ ~ Failed'
    BY <1>0, <1>15 DEF Failed, Idle
  <1>20. Shapes'
    BY <1>0, <1>13, <1>15, <1>17, <1>18 DEF CacheIndInv, Shapes
  <1>21. PcacheIsTail'
    <2>1. at + (held + n) = Len(e)
      BY <1>18, <1>6a, Zenon DEF Fills
    <2>2. ASSUME NEW o \in at .. at + (held + n) - 1 PROVE buffer[o - at] = e[o + 1]
      <3>1. o \in Nat /\ o - at \in 0 .. cap - 1
        BY <1>6a, Zenon DEF Fills
      <3>2. CASE o < off
        <4>1. o - at \notin held .. held + n - 1 /\ o + 1 \in 1 .. Len(c) /\ o \in at .. at + held - 1
          <5>1. o - at \notin held .. held + n - 1 /\ o + 1 \in 1 .. off /\ o \in at .. at + held - 1
            BY <1>6a, <3>2, Zenon DEF Fills
          <5>2. QED BY <1>2, <5>1, Zenon
        <4>2. pcache.buffer[o - at] = c[o + 1]
          <5>1. o \in Pending(b)
            BY <1>3, <1>4, <4>1 DEF Pending
          <5>2. QED BY <1>2, <1>3, <1>4, <5>1 DEF CacheIndInv, PcacheIsTail
        <4>3. e[o + 1] = c[o + 1]
          BY <1>9, <4>1 DEF Joined
        <4>4. QED BY <1>10, <3>1, <4>1, <4>2, <4>3
      <3>3. CASE ~ (o < off)
        <4>1. PICK j \in 1 .. n : /\ o + 1 = Len(c) + j
                                  /\ o - at \in held .. held + n - 1 /\ (o - at) - held + 1 = j
          <5>1. PICK j \in 1 .. n : /\ o = off + j - 1 /\ o + 1 = off + j
                                    /\ o - at \in held .. held + n - 1 /\ (o - at) - held + 1 = j
            BY <1>6a, <3>3, Zenon DEF Fills
          <5>2. QED BY <1>2, <5>1, Zenon
        <4>2. buffer[o - at] = data[j]
          BY <1>10, <3>1, <4>1
        <4>3. e[Len(c) + j] = g[j] /\ g[j] = data[j]
          BY <1>7, <1>9, <4>1 DEF Joined
        <4>4. QED BY <4>1, <4>2, <4>3
      <3>4. QED BY <3>2, <3>3
    <2>3. Pending(b)' = at .. at + (held + n) - 1
      BY <1>13 DEF Pending
    <2>4. held + n = CacheSize => call'.op = "full"
      BY <1>15
    <2>5. \A d \in Blocks \ {b} : Len(content'[d]) % ProgSize = 0
      BY <1>3, <1>17 DEF CacheIndInv, PcacheIsTail
    <2>6. at % ProgSize = 0
      BY <1>3, <1>4, CacheFacts
    <2>7. QED BY <1>13, <1>17, <2>1, <2>2, <2>3, <2>4, <2>5, <2>6 DEF PcacheIsTail
  <1>22. DiskIsRest'
    <2>1. \A d \in Blocks : Settled(d)' = Settled(d)
      BY <1>3, <1>4, <1>13, <1>17 DEF Settled
    <2>2. ASSUME NEW d \in Blocks, NEW o \in 0 .. Settled(d) - 1 PROVE content'[d][o + 1] = content[d][o + 1]
      <3>1. CASE d = b
        <4>1. o + 1 \in 1 .. Len(c)
          <5>1. o \in 0 .. at - 1
            <6>1. Settled(b) = at
              BY <1>3, <1>4 DEF Settled
            <6>2. QED BY <2>2, <3>1, <6>1, Zenon
          <5>2. o + 1 \in 1 .. off
            BY <1>6a, <5>1, Zenon DEF Fills
          <5>3. QED BY <1>2, <5>2, Zenon
        <4>2. QED BY <1>2, <1>9, <1>17, <3>1, <4>1 DEF Joined
      <3>2. CASE d # b
        BY <1>17, <3>2
      <3>3. QED BY <3>1, <3>2
    <2>3. QED BY <1>0, <1>19, <2>1, <2>2 DEF CacheIndInv, DiskIsRest
  <1>23. RcacheFresh' /\ ReadSoFar'
    BY <1>0, <1>15 DEF CacheIndInv, RcacheFresh, ReadSoFar
  <1>24. CallOnItsWay'
    <2>1. off + n + Len(rest) <= BlockSize
      <3>1. Len(rest) = len - n /\ off + len <= blockSize
        BY <1>1, <1>5, <1>8, Zenon
      <3>2. off + n + (len - n) <= blockSize
        <4>1. off + n + (len - n) = off + len
          BY Onward
        <4>2. QED BY <3>1, <4>1, Zenon
      <3>3. QED BY <3>1, <3>2, Zenon
    <2>2. call.validate = (b \in Validated)
      BY <1>0, <1>1, ProgFacts
    <2>3. QED BY <1>13, <1>15, <1>17, <1>18, <2>1, <2>2 DEF CallOnItsWay
  <1>25. QED BY <1>20, <1>21, <1>22, <1>23, <1>24 DEF CacheIndInv

-----------------------------------------------------------------------------
(* Flushing. *)

Unit == lfs_alignup(pcache.size, ProgSize)

(* What is flushed fits the cache and the block, and ends with a           *)
(* programming unit.                                                       *)
LEMMA UnitFacts ==
  ASSUME CacheIndInv, NEW b \in Blocks, pcache.block = b
  PROVE  /\ Unit \in 0 .. CacheSize /\ Unit \in Nat /\ pcache.size <= Unit /\ Unit % ProgSize = 0
         /\ pcache.off + Unit <= BlockSize
         /\ lfs_alignup(Len(content[b]), ProgSize) = pcache.off + Unit
         /\ (pcache.off + Unit) % ProgSize = 0
         /\ pcache.size = CacheSize => Unit = CacheSize
  <1>1. PICK p \in Nat \ {0}, cap \in Nat, block \in Nat :
          p = ProgSize /\ cap = CacheSize /\ block = BlockSize /\ cap % p = 0 /\ block % p = 0
    BY Sizes
  <1>2. PICK at \in Nat, held \in Nat, len \in Nat :
          /\ at = pcache.off /\ held = pcache.size /\ len = Len(content[b]) /\ at + held = len
          /\ at % p = 0 /\ held <= cap
    <2>1. pcache.off + pcache.size = Len(content[b]) /\ pcache.off % ProgSize = 0
      BY CacheFacts, Sizes
    <2>2. pcache.off \in Nat /\ pcache.size \in 0 .. cap /\ Len(content[b]) \in Nat
      BY <1>1, CacheFacts DEF CacheIndInv, Shapes
    <2>3. PICK held \in 0 .. cap : held = pcache.size
      BY <2>2
    <2>4. held \in Nat /\ held <= cap
      BY <2>3
    <2>5. QED BY <1>1, <2>1, <2>2, <2>3, <2>4
  <1>3. len <= block
    BY <1>1, <1>2 DEF CacheIndInv, Shapes
  <1>4. PICK u \in Nat : u = Unit /\ held <= u /\ u % p = 0 /\ (held % p = 0 => u = held) /\ u <= cap
    <2>1. lfs_alignup(held, p) = Unit
      BY <1>1, <1>2, Zenon DEF Unit
    <2>2. /\ lfs_alignup(held, p) \in Nat /\ held <= lfs_alignup(held, p) /\ lfs_alignup(held, p) % p = 0
          /\ held % p = 0 => lfs_alignup(held, p) = held
      BY AlignedUp, Zenon
    <2>3. lfs_alignup(held, p) <= cap
      <3>1. \A m \in Int : m % p = 0 /\ held <= m => lfs_alignup(held, p) <= m
        BY AlignedUp, Zenon
      <3>2. cap \in Int
        OBVIOUS
      <3>3. QED BY <1>1, <1>2, <3>1, <3>2, Zenon
    <2>4. QED BY <2>1, <2>2, <2>3, Zenon
  <1>5. PICK w \in Nat : w = lfs_alignup(len, p) /\ w <= block /\ w % p = 0
    <2>1. lfs_alignup(len, p) \in Nat /\ lfs_alignup(len, p) % p = 0
      BY AlignedUp, Zenon
    <2>2. lfs_alignup(len, p) <= block
      <3>1. \A m \in Int : m % p = 0 /\ len <= m => lfs_alignup(len, p) <= m
        BY AlignedUp, Zenon
      <3>2. block \in Int
        OBVIOUS
      <3>3. QED BY <1>1, <1>3, <3>1, <3>2, Zenon
    <2>3. QED BY <2>1, <2>2, Zenon
  <1>6. w = at + u
    <2>1. lfs_alignup(at + held, p) = at + lfs_alignup(held, p)
      <3>1. p \in Nat \ {0} /\ at \in Nat /\ held \in Nat /\ at % p = 0
        BY <1>2
      <3>2. QED BY <3>1, AlignedSum, Zenon
    <2>2. lfs_alignup(held, p) = u
      BY <1>1, <1>2, <1>4, Zenon DEF Unit
    <2>3. QED BY <1>2, <1>5, <2>1, <2>2, Zenon
  <1>7. held = cap => u = cap
    BY <1>1, <1>4
  <1>8. u \in 0 .. cap
    BY <1>4
  <1>9. QED BY <1>1, <1>2, <1>4, <1>5, <1>6, <1>7, <1>8

(* The device has taken some of the bytes, and nothing else of it has      *)
(* changed; those were erased before.                                      *)
LEMMA ProgrammedFacts ==
  ASSUME CacheIndInv, NEW b \in Blocks, pcache.block = b, ~ Failed, NEW k \in Int, k <= Unit
  PROVE  /\ Programmed(k) \in [Blocks -> Contents]
         /\ \A c \in Blocks \ {b} : Programmed(k)[c] = disk[c]
         /\ \A o \in Places :
              /\ o < pcache.off \/ o >= pcache.off + Unit => Programmed(k)[b][o] = disk[b][o]
              /\ o \in pcache.off .. pcache.off + k - 1 => Programmed(k)[b][o] = pcache.buffer[o - pcache.off]
              /\ Programmed(k)[b][o] # disk[b][o] => disk[b][o] = Erased
  <1>1. PICK at \in Nat, u \in Nat : at = pcache.off /\ u = Unit /\ at + u <= BlockSize /\ u <= CacheSize
    <2>1. Unit \in Nat /\ pcache.off + Unit <= BlockSize /\ Unit \in 0 .. CacheSize
      BY UnitFacts
    <2>2. QED BY <2>1, CacheFacts, Sizes
  <1>2. disk \in [Blocks -> Contents] /\ pcache.buffer \in [Cells -> Bytes]
    BY CacheFacts DEF CacheIndInv, Shapes
  <1>3. PICK c : c = [o \in 0 .. BlockSize - 1 |->
                        IF o \in at .. at + k - 1 THEN pcache.buffer[o - at] ELSE disk[b][o]]
    OBVIOUS
  <1>4. Programmed(k) = [disk EXCEPT ![b] = c]
    BY <1>1, <1>3 DEF Programmed
  <1>5. c \in Contents
    <2> SUFFICES ASSUME NEW o \in Places
                 PROVE  (IF o \in at .. at + k - 1 THEN pcache.buffer[o - at] ELSE disk[b][o]) \in Bytes
      BY <1>3 DEF Contents, Places
    <2>1. o \in at .. at + k - 1 => o - at \in Cells
      BY <1>1, Sizes DEF Cells, Places
    <2>2. disk[b][o] \in Bytes
      BY <1>2 DEF Contents
    <2>3. QED BY <1>2, <2>1, <2>2
  <1>6. Programmed(k) \in [Blocks -> Contents] /\ Programmed(k)[b] = c
        /\ \A d \in Blocks \ {b} : Programmed(k)[d] = disk[d]
    BY <1>2, <1>4, <1>5
  <1>7. ASSUME NEW o \in Places
        PROVE  /\ o < at \/ o >= at + u => c[o] = disk[b][o]
               /\ o \in at .. at + k - 1 => c[o] = pcache.buffer[o - at]
               /\ c[o] # disk[b][o] => disk[b][o] = Erased
    <2>1. c[o] = IF o \in at .. at + k - 1 THEN pcache.buffer[o - at] ELSE disk[b][o]
      BY <1>3 DEF Places
    <2>2. o < at \/ o >= at + u => o \notin at .. at + k - 1
      BY <1>1 DEF Places
    <2>3. o \in at .. at + k - 1 => disk[b][o] = Erased
      <3>1. Settled(b) = at
        BY <1>1 DEF Settled
      <3>2. \A p \in at .. BlockSize - 1 : disk[b][p] = Erased
        BY <3>1 DEF CacheIndInv, DiskIsRest
      <3>3. o \in at .. at + k - 1 => o \in at .. BlockSize - 1
        BY <1>1, Sizes DEF Places
      <3>4. QED BY <3>2, <3>3
    <2>4. QED BY <2>1, <2>2, <2>3
  <1>8. QED BY <1>1, <1>6, <1>7

\* What is left of a flush: k bytes are on the device.
Outcome(f, rc, validate, k) ==
  /\ k \in Int /\ k <= Unit /\ f.disk = Programmed(k)
  /\ \/ f.rcache \in {rc, NullCache, Loaded(f.disk, pcache.block, pcache.off, Unit)}
     \/ pcache.block \in Unreadable /\ f.rcache = LeftBehind(pcache.block, pcache.off, Unit)
  /\ f.err \in {"ok", "corrupt"}
  /\ f.err # "ok" => f.pcache = pcache
  /\ f.err = "ok" =>
       /\ f.pcache = lfs_cache_zero(pcache)
       /\ validate => SameOnDisk(f.disk, Unit)
                      /\ f.rcache \in {NullCache, Loaded(f.disk, pcache.block, pcache.off, Unit)}
       /\ ~ validate => f.rcache = rc /\ (pcache.block \notin BadBlocks => k = Unit)

(* Every flush of a block has such an outcome.                             *)
LEMMA Outcomes ==
  ASSUME CacheIndInv, NEW b \in Blocks, pcache.block = b, NEW rc, NEW v \in BOOLEAN,
         NEW f \in Flushed(rc, v)
  PROVE  \E k \in Int : Outcome(f, rc, v, k)
  <1>1. PICK u \in Nat : u = Unit /\ u = lfs_alignup(pcache.size, ProgSize)
    BY UnitFacts DEF Unit
  <1>2. b # LFS_BLOCK_NULL
    BY Sizes
  <1>3. CASE \E p \in DeviceProgs(u) :
               /\ p.err = "ok" /\ pcache.block \in Unreadable
               /\ f = [err |-> "corrupt", disk |-> p.disk, pcache |-> pcache, rcache |-> NotCompared(u)]
    <2>1. PICK p \in DeviceProgs(u) :
            /\ pcache.block \in Unreadable
            /\ f = [err |-> "corrupt", disk |-> p.disk, pcache |-> pcache, rcache |-> NotCompared(u)]
      BY <1>3
    <2>2. PICK k \in Int : p.disk = Programmed(k) /\ k <= u
      BY <1>1 DEF DeviceProgs
    <2>3. NotCompared(u) \in {NullCache, LeftBehind(pcache.block, pcache.off, u)}
      BY DEF NotCompared
    <2>4. QED BY <1>1, <2>1, <2>2, <2>3 DEF Outcome
  <1>4. CASE \E p \in DeviceProgs(u) :
               f = CASE p.err # "ok" -> [err |-> p.err, disk |-> p.disk, pcache |-> pcache, rcache |-> rc]
                     [] p.err = "ok" /\ v /\ ~ SameOnDisk(p.disk, u) ->
                          [err |-> "corrupt", disk |-> p.disk, pcache |-> pcache, rcache |-> Compared(p.disk, u)]
                     [] OTHER -> [err |-> "ok", disk |-> p.disk, pcache |-> lfs_cache_zero(pcache),
                                  rcache |-> IF v THEN Compared(p.disk, u) ELSE rc]
    <2>1. PICK p \in DeviceProgs(u) :
            f = CASE p.err # "ok" -> [err |-> p.err, disk |-> p.disk, pcache |-> pcache, rcache |-> rc]
                  [] p.err = "ok" /\ v /\ ~ SameOnDisk(p.disk, u) ->
                       [err |-> "corrupt", disk |-> p.disk, pcache |-> pcache, rcache |-> Compared(p.disk, u)]
                  [] OTHER -> [err |-> "ok", disk |-> p.disk, pcache |-> lfs_cache_zero(pcache),
                               rcache |-> IF v THEN Compared(p.disk, u) ELSE rc]
      BY <1>4
    <2>2. PICK k \in Int : /\ p.disk = Programmed(k) /\ k <= u /\ p.err \in {"ok", "corrupt"}
                           /\ b \notin BadBlocks => k = u
      BY <1>1 DEF DeviceProgs
    <2>3. Compared(p.disk, u) \in {NullCache, Loaded(p.disk, pcache.block, pcache.off, u)}
      BY DEF Compared
    <2>4. CASE p.err # "ok"
      BY <1>1, <2>1, <2>2, <2>4 DEF Outcome
    <2>5. CASE p.err = "ok" /\ v /\ ~ SameOnDisk(p.disk, u)
      BY <1>1, <2>1, <2>2, <2>3, <2>5 DEF Outcome
    <2>6. CASE p.err = "ok" /\ ~ (v /\ ~ SameOnDisk(p.disk, u))
      <3>1. f = [err |-> "ok", disk |-> p.disk, pcache |-> lfs_cache_zero(pcache),
                 rcache |-> IF v THEN Compared(p.disk, u) ELSE rc]
        BY <2>1, <2>6
      <3>2. QED BY <1>1, <2>2, <2>3, <2>6, <3>1 DEF Outcome
    <2>7. QED BY <2>2, <2>4, <2>5, <2>6
  <1>5. QED BY <1>1, <1>2, <1>3, <1>4 DEF Flushed

\* The device d has what was in the program cache of b, and else what it had.
Takes(d, b) ==
  /\ d \in [Blocks -> Contents] /\ (\A a \in Blocks \ {b} : d[a] = disk[a])
  /\ \A o \in Places :
       /\ o < pcache.off \/ o >= pcache.off + Unit => d[b][o] = disk[b][o]
       /\ o \in pcache.off .. pcache.off + Unit - 1 => d[b][o] = pcache.buffer[o - pcache.off]

\* The block b is flushed, and has the contents c from now on, of which r bytes may be read.
FlushDone(b, c, r) ==
  /\ Takes(disk', b)
  /\ pcache' = lfs_cache_zero(pcache)
  /\ content' = [content EXCEPT ![b] = c] /\ c \in Seq(Bytes) /\ Len(c) = pcache.off + Unit
  /\ \A o \in 0 .. pcache.off - 1 : c[o + 1] = content[b][o + 1]
  /\ \A o \in pcache.off .. pcache.off + Unit - 1 : c[o + 1] = pcache.buffer[o - pcache.off]
  /\ readable' = [readable EXCEPT ![b] = r]
  /\ \/ r \in {Len(c), readable[b]} /\ rcache' \in {NullCache, Loaded(disk', b, pcache.off, Unit)}
     \/ r = readable[b] /\ rcache' = rcache

(* After a flush the device and the caches are as the invariant says.      *)
LEMMA DoneKeeps ==
  ASSUME CacheIndInv, NEW b \in Blocks, pcache.block = b, ~ Failed, ~ Failed',
         NEW c, NEW r, FlushDone(b, c, r)
  PROVE  /\ disk' \in [Blocks -> Contents] /\ pcache' \in Caches /\ rcache' \in ReadCaches
         /\ pcache'.block = LFS_BLOCK_NULL
         /\ content' \in [Blocks -> Seq(Bytes)] /\ readable' \in [Blocks -> Nat]
         /\ \A d \in Blocks : Len(content'[d]) <= BlockSize
         /\ PcacheIsTail' /\ DiskIsRest' /\ RcacheFresh'
  <1>1. PICK at \in Nat, u \in Nat, block \in Nat :
          /\ at = pcache.off /\ u = Unit /\ at + u <= block /\ block = BlockSize /\ (at + u) % ProgSize = 0
    BY UnitFacts, CacheFacts, Sizes
  <1>2. c \in Seq(Bytes) /\ Len(c) = at + u
    BY <1>1 DEF FlushDone, Takes
  <1>3. /\ content' \in [Blocks -> Seq(Bytes)] /\ content'[b] = c
        /\ \A d \in Blocks \ {b} : content'[d] = content[d]
    BY <1>2 DEF FlushDone, Takes, CacheIndInv, Shapes
  <1>4. pcache' \in Caches /\ pcache'.block = LFS_BLOCK_NULL
    <2>1. Blank \in Buffers
      BY DEF Blank, Buffers, Cells, Bytes
    <2>2. pcache' = [pcache EXCEPT !.block = LFS_BLOCK_NULL, !.buffer = Blank]
      BY DEF FlushDone, Takes, lfs_cache_zero
    <2>3. QED BY <2>1, <2>2, CacheFacts DEF Caches
  <1>5. \A d \in Blocks : Len(content'[d]) <= BlockSize
    BY <1>1, <1>2, <1>3 DEF CacheIndInv, Shapes
  <1>6. PcacheIsTail'
    <2>1. ASSUME NEW d \in Blocks PROVE Len(content'[d]) % ProgSize = 0
      BY <1>1, <1>2, <1>3, <2>1 DEF CacheIndInv, PcacheIsTail
    <2>2. QED BY <1>4, <2>1 DEF PcacheIsTail
  <1>7. readable[b] \in Nat /\ readable[b] <= at
    BY <1>1 DEF CacheIndInv, Shapes, DiskIsRest, Settled
  <1>8. r \in Nat /\ r <= at + u
    BY <1>1, <1>2, <1>7 DEF FlushDone, Takes
  <1>9. readable' \in [Blocks -> Nat] /\ readable'[b] = r /\ \A d \in Blocks \ {b} : readable'[d] = readable[d]
    BY <1>8 DEF FlushDone, Takes, CacheIndInv, Shapes
  <1>10. \A d \in Blocks : Settled(d)' = Len(content'[d])
    BY <1>4, Sizes DEF Settled
  <1>11. ASSUME NEW o \in 0 .. at + u - 1 PROVE disk'[b][o] = c[o + 1]
    <2>1. o \in Places
      BY <1>1 DEF Places
    <2>2. CASE o < at
      <3>1. disk'[b][o] = disk[b][o]
        BY <1>1, <2>1, <2>2 DEF FlushDone, Takes
      <3>2. o \in 0 .. Settled(b) - 1 /\ o \in 0 .. pcache.off - 1
        BY <1>1, <2>2 DEF Settled
      <3>3. disk[b][o] = content[b][o + 1]
        BY <3>2 DEF CacheIndInv, DiskIsRest
      <3>4. c[o + 1] = content[b][o + 1]
        BY <3>2 DEF FlushDone, Takes
      <3>5. QED BY <3>1, <3>3, <3>4
    <2>3. CASE ~ (o < at)
      <3>1. o \in pcache.off .. pcache.off + Unit - 1
        BY <1>1, <2>3
      <3>2. QED BY <2>1, <3>1 DEF FlushDone, Takes
    <2>4. QED BY <2>2, <2>3
  <1>12. ASSUME NEW o \in at + u .. BlockSize - 1 PROVE disk'[b][o] = Erased
    <2>1. o \in Places /\ o >= at + u /\ o \in Settled(b) .. BlockSize - 1
      BY <1>1 DEF Places, Settled
    <2>2. disk'[b][o] = disk[b][o]
      BY <1>1, <2>1 DEF FlushDone, Takes
    <2>3. disk[b][o] = Erased
      BY <2>1 DEF CacheIndInv, DiskIsRest
    <2>4. QED BY <2>2, <2>3
  <1>13. DiskIsRest'
    <2> SUFFICES ASSUME NEW d \in Blocks
                 PROVE  /\ readable'[d] <= Len(content'[d])
                        /\ \A o \in 0 .. Len(content'[d]) - 1 : disk'[d][o] = content'[d][o + 1]
                        /\ \A o \in Len(content'[d]) .. BlockSize - 1 : disk'[d][o] = Erased
      BY <1>10 DEF DiskIsRest
    <2>1. CASE d = b
      BY <1>2, <1>3, <1>8, <1>9, <1>11, <1>12, <2>1
    <2>2. CASE d # b
      <3>1. Settled(d) = Len(content[d]) /\ ~ (Failed /\ d = pcache.block)
        BY <2>2 DEF Settled
      <3>2. disk'[d] = disk[d] /\ content'[d] = content[d] /\ readable'[d] = readable[d]
        BY <1>3, <1>9, <2>2 DEF FlushDone, Takes
      <3>3. QED BY <3>1, <3>2 DEF CacheIndInv, DiskIsRest
    <2>3. QED BY <2>1, <2>2
  <1>14. rcache' \in ReadCaches /\ RcacheFresh'
    <2>1. CASE rcache' = NullCache
      <3>1. NullCache \in Caches /\ NullCache \in ReadCaches /\ NullCache.block = LFS_BLOCK_NULL
        BY Sizes DEF NullCache, Caches, ReadCaches, ReadBytes, Buffers, Blank, Cells, Bytes
      <3>2. QED BY <2>1, <3>1 DEF RcacheFresh
    <2>2. CASE rcache' = Loaded(disk', b, pcache.off, Unit)
      <3>1. disk' \in [Blocks -> Contents] /\ pcache.off \in 0 .. BlockSize /\ Unit \in Nat
        BY <1>1, CacheFacts DEF FlushDone, Takes
      <3>2. /\ rcache' \in ReadCaches /\ rcache'.block = b
            /\ \A o \in rcache'.off .. rcache'.off + rcache'.size - 1 : rcache'.buffer[o - rcache'.off] = disk'[b][o]
        BY <2>2, <3>1, LoadedFacts
      <3>3. QED BY <3>2 DEF RcacheFresh
    <2>3. CASE r = readable[b] /\ rcache' = rcache
      <3>1. readable' = readable
        BY <1>9, <2>3 DEF CacheIndInv, Shapes
      <3>2. ASSUME rcache.block # LFS_BLOCK_NULL,
                   NEW o \in rcache.off .. rcache.off + rcache.size - 1, o < readable[rcache.block]
            PROVE  disk'[rcache.block][o] = disk[rcache.block][o]
        <4>1. rcache.block \in Blocks /\ o \in Nat
          BY <3>2, CacheFacts
        <4>2. CASE rcache.block = b
          <5>1. o < pcache.off /\ o \in Places
            BY <1>1, <1>7, <3>2, <4>1, <4>2 DEF Places
          <5>2. QED BY <4>2, <5>1 DEF FlushDone, Takes
        <4>3. CASE rcache.block # b
          BY <4>1, <4>3 DEF FlushDone, Takes
        <4>4. QED BY <4>2, <4>3
      <3>3. rcache \in ReadCaches
        BY CacheFacts
      <3>4. QED BY <2>3, <3>1, <3>2, <3>3 DEF CacheIndInv, RcacheFresh
    <2>4. QED BY <2>1, <2>2, <2>3 DEF FlushDone, Takes
  <1>15. QED BY <1>3, <1>4, <1>5, <1>6, <1>9, <1>13, <1>14 DEF FlushDone, Takes

(* A flush that fails leaves the program cache to be dropped.              *)
LEMMA FailKeeps ==
  ASSUME CacheIndInv, NEW b \in Blocks, pcache.block = b, ~ Failed, NEW k \in Int, k <= Unit,
         disk' = Programmed(k), pcache' = pcache, call' = Idle, ret' = "corrupt",
         \/ rcache' \in {rcache, NullCache, Loaded(disk', b, pcache.off, Unit)}
         \/ b \in Unreadable /\ rcache' = LeftBehind(b, pcache.off, Unit),
         UNCHANGED <<content, readable, life>>
  PROVE  CacheIndInv'
  <1>1. PICK at \in Nat, u \in Nat : at = pcache.off /\ u = Unit /\ at <= BlockSize
    BY UnitFacts, CacheFacts
  <1>2. /\ disk' \in [Blocks -> Contents] /\ (\A c \in Blocks \ {b} : disk'[c] = disk[c])
        /\ \A o \in Places : o < at => disk'[b][o] = disk[b][o]
    BY <1>1, ProgrammedFacts
  <1>3. Failed' /\ b # LFS_BLOCK_NULL
    BY Sizes DEF Failed
  <1>4. \A c \in Blocks : Settled(c)' = Settled(c)
    BY DEF Settled
  <1>5. rcache' \in ReadCaches /\ RcacheFresh'
    <2>1. CASE rcache' = NullCache
      <3>1. NullCache \in Caches /\ NullCache \in ReadCaches /\ NullCache.block = LFS_BLOCK_NULL
        BY Sizes DEF NullCache, Caches, ReadCaches, ReadBytes, Buffers, Blank, Cells, Bytes
      <3>2. QED BY <2>1, <3>1 DEF RcacheFresh
    <2>2. CASE rcache' = Loaded(disk', b, pcache.off, Unit)
      <3>1. pcache.off \in 0 .. BlockSize /\ Unit \in Nat
        BY <1>1, CacheFacts
      <3>2. /\ rcache' \in ReadCaches /\ rcache'.block = b
            /\ \A o \in rcache'.off .. rcache'.off + rcache'.size - 1 : rcache'.buffer[o - rcache'.off] = disk'[b][o]
        BY <1>2, <2>2, <3>1, LoadedFacts
      <3>3. QED BY <3>2 DEF RcacheFresh
    <2>3. CASE rcache' = rcache
      <3>1. ASSUME rcache.block # LFS_BLOCK_NULL,
                   NEW o \in rcache.off .. rcache.off + rcache.size - 1, o < readable[rcache.block]
            PROVE  disk'[rcache.block][o] = disk[rcache.block][o]
        <4>1. rcache.block \in Blocks /\ o \in Nat
          BY <3>1, CacheFacts
        <4>2. CASE rcache.block = b
          <5>1. readable[b] \in Nat /\ readable[b] <= at
            BY <1>1 DEF CacheIndInv, Shapes, DiskIsRest, Settled
          <5>2. o < at /\ o \in Places
            BY <1>1, <3>1, <4>1, <4>2, <5>1, Sizes DEF Places
          <5>3. QED BY <1>2, <4>2, <5>2
        <4>3. CASE rcache.block # b
          BY <1>2, <4>1, <4>3
        <4>4. QED BY <4>2, <4>3
      <3>2. rcache \in ReadCaches
        BY CacheFacts
      <3>3. QED BY <2>3, <3>1, <3>2 DEF CacheIndInv, RcacheFresh
    <2>4. CASE b \in Unreadable /\ rcache' = LeftBehind(b, pcache.off, Unit)
      <3>1. pcache.off \in 0 .. BlockSize /\ Unit \in Nat
        BY <1>1, CacheFacts
      <3>2. /\ rcache' \in ReadCaches /\ rcache'.block = b
            /\ \A o \in rcache'.off .. rcache'.off + rcache'.size - 1 : rcache'.buffer[o - rcache'.off] = Unknown
        BY <2>4, <3>1, LeftFacts
      <3>3. QED BY <2>4, <3>2 DEF RcacheFresh
    <2>5. QED BY <2>1, <2>2, <2>3, <2>4
  <1>6. Shapes'
    BY <1>2, <1>5 DEF CacheIndInv, Shapes
  <1>7. PcacheIsTail'
    BY <1>3 DEF CacheIndInv, PcacheIsTail, Pending
  <1>8. DiskIsRest'
    <2> SUFFICES ASSUME NEW c \in Blocks
                 PROVE  /\ readable[c] <= Settled(c)
                        /\ \A o \in 0 .. Settled(c) - 1 : disk'[c][o] = content[c][o + 1]
                        /\ c # b => \A o \in Settled(c) .. BlockSize - 1 : disk'[c][o] = Erased
      BY <1>3, <1>4 DEF DiskIsRest
    <2>1. CASE c = b
      <3>1. Settled(c) = at
        BY <1>1, <2>1 DEF Settled
      <3>2. \A o \in 0 .. at - 1 : o \in Places /\ o < at
        BY <1>1, Sizes DEF Places
      <3>3. QED BY <1>2, <2>1, <3>1, <3>2 DEF CacheIndInv, DiskIsRest
    <2>2. CASE c # b
      BY <1>2, <2>2 DEF CacheIndInv, DiskIsRest
    <2>3. QED BY <2>1, <2>2
  <1>9. CallOnItsWay' /\ ReadSoFar'
    BY DEF CallOnItsWay, ReadSoFar, Idle
  <1>10. QED BY <1>5, <1>6, <1>7, <1>8, <1>9 DEF CacheIndInv

Pads(at, held, len, u, cap, m) ==
  /\ held + m = u /\ held + m <= cap /\ len + m = at + u
  /\ \A k \in 1 .. m : len + k - 1 - at \in 0 .. cap - 1

(* The lengths of what is padded.                                          *)
LEMMA Lengths ==
  \A at, held, len, u, cap \in Nat : at + held = len /\ held <= u /\ u <= cap =>
    (at + u) - len \in Nat /\ Pads(at, held, len, u, cap, (at + u) - len)
  BY DEF Pads

(* What a flush pads the contents with is in the buffer.                   *)
LEMMA PaddedFacts ==
  ASSUME CacheIndInv, NEW b \in Blocks, pcache.block = b
  PROVE  /\ Padded(b) \in Seq(Bytes) /\ Len(Padded(b)) = pcache.off + Unit
         /\ \A o \in 0 .. pcache.off - 1 : Padded(b)[o + 1] = content[b][o + 1]
         /\ \A o \in pcache.off .. pcache.off + Unit - 1 : Padded(b)[o + 1] = pcache.buffer[o - pcache.off]
  <1>1. PICK at \in Nat, held \in Nat, cap \in Nat, u \in Nat :
          at = pcache.off /\ held = pcache.size /\ cap = CacheSize /\ u = Unit /\ held <= u /\ u <= cap
    BY UnitFacts, CacheFacts, Sizes
  <1>2. PICK c \in Seq(Bytes) : c = content[b]
    BY DEF CacheIndInv, Shapes
  <1>3. PICK len \in Nat : len = Len(c) /\ at + held = len
    BY <1>1, <1>2, CacheFacts, Sizes
  <1>4. PICK m \in Nat : m = lfs_alignup(len, ProgSize) - len /\ Pads(at, held, len, u, cap, m)
    <2>1. lfs_alignup(len, ProgSize) = at + u
      BY <1>1, <1>2, <1>3, UnitFacts
    <2>2. (at + u) - len \in Nat /\ Pads(at, held, len, u, cap, (at + u) - len)
      BY <1>1, <1>3, Lengths, Zenon
    <2>3. QED BY <2>1, <2>2, Zenon
  <1>5. Fills(at, held, len, m, cap)
    BY <1>3, <1>4, Filling, Zenon DEF Pads
  <1>6. PICK g : g = [k \in 1 .. m |-> pcache.buffer[len + k - 1 - at]]
    OBVIOUS
  <1>8. g \in [1 .. m -> Bytes]
    BY <1>1, <1>4, <1>6, CacheFacts DEF Cells, Pads
  <1>9. g \in Seq(Bytes) /\ Len(g) = m
    BY <1>8, Listed, Zenon
  <1>10. PICK e \in Seq(Bytes) : Joined(c, g, e)
    BY <1>9, Joins, Zenon
  <1>11. Padded(b) = e
    BY <1>1, <1>2, <1>3, <1>4, <1>6, <1>10 DEF Padded, Joined
  <1>12. Len(e) = at + u
    <2>1. Len(e) = len + m
      BY <1>3, <1>9, <1>10, Zenon DEF Joined
    <2>2. QED BY <1>4, <2>1, Zenon DEF Pads
  <1>13. ASSUME NEW o \in 0 .. at - 1 PROVE e[o + 1] = content[b][o + 1]
    <2>1. o + 1 \in 1 .. len
      BY <1>3
    <2>2. QED BY <1>2, <1>3, <1>10, <2>1 DEF Joined
  <1>14. ASSUME NEW o \in at .. at + u - 1 PROVE e[o + 1] = pcache.buffer[o - at]
    <2>1. o \in at .. at + (held + m) - 1
      BY <1>4 DEF Pads
    <2>2. CASE o < len
      <3>1. o + 1 \in 1 .. len /\ o \in at .. at + held - 1
        BY <1>5, <2>1, <2>2, Zenon DEF Fills
      <3>2. e[o + 1] = c[o + 1]
        BY <1>3, <1>10, <3>1 DEF Joined
      <3>3. o \in Pending(b)
        BY <1>1, <3>1 DEF Pending
      <3>4. pcache.buffer[o - at] = c[o + 1]
        BY <1>1, <1>2, <3>3, Sizes DEF CacheIndInv, PcacheIsTail
      <3>5. QED BY <3>2, <3>4
    <2>3. CASE ~ (o < len)
      <3>1. PICK j \in 1 .. m : o = len + j - 1 /\ o + 1 = len + j
        BY <1>5, <2>1, <2>3, Zenon DEF Fills
      <3>2. e[len + j] = g[j]
        BY <1>3, <1>9, <1>10, <3>1 DEF Joined
      <3>3. g[j] = pcache.buffer[len + j - 1 - at]
        BY <1>6
      <3>4. e[o + 1] = g[j] /\ g[j] = pcache.buffer[o - at]
        <4>1. e[o + 1] = g[j]
          BY <3>1, <3>2, Zenon
        <4>2. PICK x : x = len + j - 1
          OBVIOUS
        <4>3. g[j] = pcache.buffer[x - at] /\ o = x
          BY <3>1, <3>3, <4>2
        <4>4. QED BY <4>1, <4>3, Zenon
      <3>5. QED BY <3>4, Zenon
    <2>4. QED BY <2>2, <2>3
  <1>15. QED BY <1>1, <1>10, <1>11, <1>12, <1>13, <1>14

(* A flush that succeeds has put on the device what was in the cache, or   *)
(* has compared it.                                                        *)
LEMMA SameAfter ==
  ASSUME CacheIndInv, NEW b \in Blocks, pcache.block = b, ~ Failed,
         NEW rc, NEW v \in BOOLEAN, NEW f, NEW k \in Int, Outcome(f, rc, v, k), f.err = "ok",
         v \/ b \notin BadBlocks
  PROVE  Takes(f.disk, b)
  <1>1. /\ f.disk = Programmed(k) /\ k <= Unit
        /\ v => SameOnDisk(f.disk, Unit)
        /\ ~ v => k = Unit
    BY DEF Outcome
  <1>2. PICK at \in Nat, u \in Nat : at = pcache.off /\ u = Unit
    BY UnitFacts, CacheFacts
  <1>3. ASSUME NEW o \in Places, o \in at .. at + u - 1 PROVE f.disk[b][o] = pcache.buffer[o - at]
    <2>1. CASE v
      <3>1. PICK j \in 0 .. u - 1 : o = at + j /\ j = o - at
        <4>1. o - at \in 0 .. u - 1 /\ o = at + (o - at)
          BY <1>3
        <4>2. QED BY <4>1
      <3>2. f.disk[b][at + j] = pcache.buffer[j]
        BY <1>1, <1>2, <2>1 DEF SameOnDisk
      <3>3. QED BY <3>1, <3>2
    <2>2. CASE ~ v
      BY <1>1, <1>2, <1>3, <2>2, ProgrammedFacts
    <2>3. QED BY <2>1, <2>2
  <1>4. /\ f.disk \in [Blocks -> Contents] /\ (\A d \in Blocks \ {b} : f.disk[d] = disk[d])
        /\ \A o \in Places : o < pcache.off \/ o >= pcache.off + Unit => f.disk[b][o] = disk[b][o]
    BY <1>1, ProgrammedFacts
  <1>5. QED BY <1>2, <1>3, <1>4 DEF Takes

(* The flush of a block that is validated.                                 *)
LEMMA FlushKeeps ==
  ASSUME CacheIndInv, lfs_bd_flush  PROVE  CacheIndInv'
  <1>1. PICK b \in Blocks : b = pcache.block /\ call = Idle /\ ~ Failed /\ UNCHANGED life
    BY Sizes DEF lfs_bd_flush, Free
  <1>2. PICK f \in Flushed(rcache, TRUE) :
          /\ disk' = f.disk /\ pcache' = f.pcache /\ rcache' = f.rcache /\ call' = Idle /\ ret' = f.err
          /\ IF f.err = "ok" THEN Settles(pcache.block) ELSE UNCHANGED <<content, readable>>
    BY DEF lfs_bd_flush, Becomes, Returns
  <1>3. PICK k \in Int : Outcome(f, rcache, TRUE, k)
    BY <1>1, <1>2, Outcomes
  <1>4. CASE f.err # "ok"
    <2>1. /\ f.err = "corrupt" /\ pcache' = pcache /\ disk' = Programmed(k) /\ k <= Unit
          /\ \/ rcache' \in {rcache, NullCache, Loaded(disk', b, pcache.off, Unit)}
             \/ b \in Unreadable /\ rcache' = LeftBehind(b, pcache.off, Unit)
      BY <1>1, <1>2, <1>3, <1>4 DEF Outcome
    <2>2. UNCHANGED <<content, readable, life>>
      BY <1>1, <1>2, <1>4
    <2>3. QED BY <1>1, <1>2, <2>1, <2>2, FailKeeps
  <1>5. CASE f.err = "ok"
    <2>1. /\ content' = [content EXCEPT ![b] = Padded(b)]
          /\ readable' = [readable EXCEPT ![b] = Len(Padded(b))]
      BY <1>1, <1>2, <1>5 DEF Settles
    <2>2. pcache' = lfs_cache_zero(pcache) /\ rcache' \in {NullCache, Loaded(disk', b, pcache.off, Unit)}
      BY <1>1, <1>2, <1>3, <1>5 DEF Outcome
    <2>3. Takes(disk', b)
      <3>1. Takes(f.disk, b)
        BY <1>1, <1>3, <1>5, SameAfter
      <3>2. QED BY <1>2, <3>1
    <2>4. FlushDone(b, Padded(b), Len(Padded(b)))
      BY <1>1, <2>1, <2>2, <2>3, PaddedFacts DEF FlushDone
    <2>5. ~ Failed'
      BY <1>2, <1>5 DEF Failed
    <2>6. /\ disk' \in [Blocks -> Contents] /\ pcache' \in Caches /\ rcache' \in ReadCaches
          /\ content' \in [Blocks -> Seq(Bytes)] /\ readable' \in [Blocks -> Nat]
          /\ \A d \in Blocks : Len(content'[d]) <= BlockSize
          /\ PcacheIsTail' /\ DiskIsRest' /\ RcacheFresh'
      BY <1>1, <2>4, <2>5, DoneKeeps
    <2>7. Shapes'
      BY <1>1, <1>2, <1>5, <2>6 DEF CacheIndInv, Shapes
    <2>8. CallOnItsWay' /\ ReadSoFar'
      BY <1>2 DEF CallOnItsWay, ReadSoFar, Idle
    <2>9. QED BY <2>6, <2>7, <2>8 DEF CacheIndInv
  <1>6. QED BY <1>4, <1>5

(* The sync of a block that is not validated, of which something may be in *)
(* the program cache.                                                      *)
LEMMA SyncKeeps ==
  ASSUME CacheIndInv, NEW b \in Blocks, lfs_bd_sync(b)  PROVE  CacheIndInv'
  <1>1. /\ call = Idle /\ ~ Failed /\ UNCHANGED life /\ b \notin Validated /\ b \notin BadBlocks
        /\ pcache.block \in {b, LFS_BLOCK_NULL}
    BY Sizes DEF lfs_bd_sync, Free
  <1>2. PICK f \in Flushed(NullCache, FALSE) :
          /\ disk' = f.disk /\ pcache' = f.pcache /\ rcache' = f.rcache /\ call' = Idle
          /\ IF f.err = "ok"
             THEN \/ Settles(b) /\ ret' = "ok"
                  \/ content' = [content EXCEPT ![b] = Padded(b)] /\ UNCHANGED readable /\ ret' = "error"
             ELSE ret' = f.err /\ UNCHANGED <<content, readable>>
    BY DEF lfs_bd_sync, Becomes, Returns, Sync_rcache
  <1>3. CASE pcache.block = b
    <2>1. PICK k \in Int : Outcome(f, NullCache, FALSE, k)
      BY <1>2, <1>3, Outcomes
    <2>2. CASE f.err # "ok"
      <3>1. /\ f.err = "corrupt" /\ pcache' = pcache /\ disk' = Programmed(k) /\ k <= Unit
            /\ \/ rcache' \in {rcache, NullCache, Loaded(disk', b, pcache.off, Unit)}
               \/ b \in Unreadable /\ rcache' = LeftBehind(b, pcache.off, Unit)
        BY <1>2, <1>3, <2>1, <2>2 DEF Outcome
      <3>2. UNCHANGED <<content, readable, life>>
        BY <1>1, <1>2, <2>2
      <3>3. QED BY <1>1, <1>2, <1>3, <3>1, <3>2, FailKeeps
    <2>3. CASE f.err = "ok"
      <3>1. PICK r : /\ content' = [content EXCEPT ![b] = Padded(b)]
                     /\ r \in {Len(Padded(b)), readable[b]} /\ readable' = [readable EXCEPT ![b] = r]
                     /\ ret' \in {"ok", "error"}
        <4>1. CASE Settles(b) /\ ret' = "ok"
          BY <4>1 DEF Settles
        <4>2. CASE content' = [content EXCEPT ![b] = Padded(b)] /\ UNCHANGED readable /\ ret' = "error"
          <5>1. readable' = [readable EXCEPT ![b] = readable[b]]
            BY <4>2 DEF CacheIndInv, Shapes
          <5>2. QED BY <4>2, <5>1
        <4>3. QED BY <1>2, <2>3, <4>1, <4>2
      <3>2. pcache' = lfs_cache_zero(pcache) /\ rcache' = NullCache
        BY <1>2, <2>1, <2>3 DEF Outcome
      <3>3. Takes(disk', b)
        <4>1. Takes(f.disk, b)
          BY <1>1, <1>3, <2>1, <2>3, SameAfter
        <4>2. QED BY <1>2, <4>1
      <3>4. FlushDone(b, Padded(b), r)
        BY <1>3, <3>1, <3>2, <3>3, PaddedFacts DEF FlushDone
      <3>5. ~ Failed'
        BY <3>1 DEF Failed
      <3>6. /\ disk' \in [Blocks -> Contents] /\ pcache' \in Caches /\ rcache' \in ReadCaches
            /\ content' \in [Blocks -> Seq(Bytes)] /\ readable' \in [Blocks -> Nat]
            /\ \A d \in Blocks : Len(content'[d]) <= BlockSize
            /\ PcacheIsTail' /\ DiskIsRest' /\ RcacheFresh'
        BY <1>1, <1>3, <3>4, <3>5, DoneKeeps
      <3>7. Shapes'
        BY <1>1, <1>2, <3>1, <3>6 DEF CacheIndInv, Shapes
      <3>8. CallOnItsWay' /\ ReadSoFar'
        BY <1>2 DEF CallOnItsWay, ReadSoFar, Idle
      <3>9. QED BY <3>6, <3>7, <3>8 DEF CacheIndInv
    <2>4. QED BY <2>2, <2>3
  <1>4. CASE pcache.block # b
    <2>1. pcache.block = LFS_BLOCK_NULL /\ b # LFS_BLOCK_NULL
      BY <1>1, <1>4, Sizes
    <2>2. disk' = disk /\ pcache' = pcache /\ rcache' = NullCache /\ ret' \in {"ok", "error"}
          /\ \/ Settles(b)
             \/ content' = [content EXCEPT ![b] = Padded(b)] /\ UNCHANGED readable
      BY <1>2, <2>1 DEF Flushed
    <2>3. PICK c \in Seq(Bytes), len \in Nat : c = content[b] /\ len = Len(c) /\ len % ProgSize = 0 /\ len <= BlockSize
      <3>1. content[b] \in Seq(Bytes) /\ Len(content[b]) <= BlockSize
        BY DEF CacheIndInv, Shapes
      <3>2. Len(content[b]) % ProgSize = 0
        BY <2>1 DEF CacheIndInv, PcacheIsTail
      <3>3. Len(content[b]) \in Nat
        BY <3>1
      <3>4. QED BY <3>1, <3>2, <3>3
    <2>4. Padded(b) = c
      <3>1. lfs_alignup(len, ProgSize) = len
        BY <2>3, Sizes, AlignedUp
      <3>2. len - len = 0
        BY <2>3
      <3>4. PICK e : e = [j \in 1 .. 0 |-> pcache.buffer[len + j - 1 - pcache.off]]
        OBVIOUS
      <3>5. e = <<>>
        BY <3>4
      <3>6. c \o <<>> = c
        OBVIOUS
      <3>7. Padded(b) = c \o e
        BY <2>3, <3>1, <3>2, <3>4 DEF Padded
      <3>8. QED BY <3>5, <3>6, <3>7
    <2>5. content' = content /\ (readable' = [readable EXCEPT ![b] = len] \/ readable' = readable)
      BY <2>2, <2>3, <2>4 DEF Settles, CacheIndInv, Shapes
    <2>6. readable' \in [Blocks -> Nat] /\ readable'[b] \in {len, readable[b]} /\ \A d \in Blocks \ {b} : readable'[d] = readable[d]
      BY <2>3, <2>5 DEF CacheIndInv, Shapes
    <2>7. ~ Failed'
      BY <2>2 DEF Failed
    <2>8. NullCache \in Caches /\ NullCache \in ReadCaches /\ NullCache.block = LFS_BLOCK_NULL
      BY Sizes DEF NullCache, Caches, ReadCaches, ReadBytes, Buffers, Blank, Cells, Bytes
    <2>9. Shapes'
      BY <1>1, <1>2, <2>2, <2>5, <2>6, <2>8 DEF CacheIndInv, Shapes
    <2>10. PcacheIsTail'
      BY <1>1, <2>1, <2>2, <2>5 DEF CacheIndInv, PcacheIsTail
    <2>11. DiskIsRest'
      <3>1. \A d \in Blocks : Settled(d)' = Settled(d)
        BY <2>2, <2>5 DEF Settled
      <3>2. Settled(b) = len
        BY <2>1, <2>3 DEF Settled
      <3>3. \A d \in Blocks : readable'[d] <= Settled(d)
        BY <2>3, <2>6, <3>2 DEF CacheIndInv, DiskIsRest
      <3>4. QED BY <1>1, <2>2, <2>5, <2>7, <3>1, <3>3 DEF CacheIndInv, DiskIsRest
    <2>12. RcacheFresh' /\ CallOnItsWay' /\ ReadSoFar'
      BY <1>2, <2>2, <2>8 DEF RcacheFresh, CallOnItsWay, ReadSoFar, Idle
    <2>13. QED BY <2>9, <2>10, <2>11, <2>12 DEF CacheIndInv
  <1>5. QED BY <1>3, <1>4

(* The flush of a program cache that is full, while programming.           *)
LEMMA ProgFlushesKeeps ==
  ASSUME CacheIndInv, ProgFlushes  PROVE  CacheIndInv'
  <1>0. call.op = "full" /\ UNCHANGED <<content, life>>
    BY DEF ProgFlushes
  <1>1. PICK b \in Blocks, v \in BOOLEAN :
          /\ b = call.block /\ b = pcache.block /\ pcache.size = CacheSize /\ v = call.validate
          /\ v = (b \in Validated) /\ ~ Failed /\ call \in ProgCalls
    <2>1. /\ call.block \in Blocks /\ pcache.block = call.block /\ pcache.size = CacheSize
          /\ call.validate = (call.block \in Validated) /\ ~ Failed /\ call \in ProgCalls
      BY <1>0, ProgFacts
    <2>2. call.validate \in BOOLEAN
      BY <2>1 DEF ProgCalls
    <2>3. QED BY <2>1, <2>2
  <1>2. PICK f \in Flushed(rcache, v) :
          /\ disk' = f.disk /\ pcache' = f.pcache /\ rcache' = f.rcache
          /\ IF f.err # "ok" THEN Returns(f.err) ELSE call' = [call EXCEPT !.op = "prog"] /\ UNCHANGED ret
          /\ readable' = IF f.err = "ok" /\ v
                         THEN [readable EXCEPT ![b] = Len(content[b])] ELSE readable
    BY <1>1 DEF ProgFlushes, Becomes
  <1>3. PICK k \in Int : Outcome(f, rcache, v, k)
    BY <1>1, <1>2, Outcomes
  <1>4. CASE f.err # "ok"
    <2>1. /\ f.err = "corrupt" /\ pcache' = pcache /\ disk' = Programmed(k) /\ k <= Unit
          /\ \/ rcache' \in {rcache, NullCache, Loaded(disk', b, pcache.off, Unit)}
             \/ b \in Unreadable /\ rcache' = LeftBehind(b, pcache.off, Unit)
      BY <1>1, <1>2, <1>3, <1>4 DEF Outcome
    <2>2. UNCHANGED <<content, readable, life>> /\ call' = Idle /\ ret' = f.err
      BY <1>0, <1>2, <1>4 DEF Returns
    <2>3. QED BY <1>1, <2>1, <2>2, FailKeeps
  <1>5. CASE f.err = "ok"
    <2>1. /\ call' \in ProgCalls /\ call'.op = "prog" /\ call'.block = b /\ call'.off = call.off
          /\ call'.data = call.data /\ call'.validate = call.validate
      <3>1. call' = [call EXCEPT !.op = "prog"] /\ call \in ProgCalls
        BY <1>1, <1>2, <1>5
      <3>2. QED BY <1>1, <3>1 DEF ProgCalls
    <2>2. ~ Failed' /\ ret' = ret
      BY <1>2, <1>5, <2>1 DEF Failed, Idle
    <2>3. PICK c \in Seq(Bytes) : c = content[b]
      BY DEF CacheIndInv, Shapes
    <2>4. PICK at \in Nat, u \in Nat :
            at = pcache.off /\ u = Unit /\ u = pcache.size /\ at + u = Len(c)
      BY <1>1, <2>3, UnitFacts, CacheFacts, Sizes
    <2>5. content' = [content EXCEPT ![b] = c]
      BY <1>0, <2>3 DEF CacheIndInv, Shapes
    <2>6. PICK r \in Nat : r = IF v THEN Len(c) ELSE readable[b]
      BY <2>3, <2>4 DEF CacheIndInv, Shapes
    <2>7. readable' = [readable EXCEPT ![b] = r]
      <3>1. CASE v
        BY <1>2, <1>5, <2>3, <2>6, <3>1
      <3>2. CASE ~ v
        BY <1>2, <1>5, <2>6, <3>2 DEF CacheIndInv, Shapes
      <3>3. QED BY <3>1, <3>2
    <2>8. \A o \in pcache.off .. pcache.off + Unit - 1 : c[o + 1] = pcache.buffer[o - pcache.off]
      <3>1. \A o \in Pending(b) : pcache.buffer[o - pcache.off] = content[b][o + 1]
        BY <1>1, Sizes DEF CacheIndInv, PcacheIsTail
      <3>2. Pending(b) = pcache.off .. pcache.off + Unit - 1
        BY <1>1, <2>4 DEF Pending
      <3>3. QED BY <2>3, <3>1, <3>2
    <2>9. Takes(disk', b)
      <3>1. v \/ b \notin BadBlocks
        BY <1>1, Sizes
      <3>2. Takes(f.disk, b)
        BY <1>1, <1>3, <1>5, <3>1, SameAfter
      <3>3. QED BY <1>2, <3>2
    <2>10. /\ pcache' = lfs_cache_zero(pcache)
           /\ \/ r = Len(c) /\ rcache' \in {NullCache, Loaded(disk', b, pcache.off, Unit)}
              \/ r = readable[b] /\ rcache' = rcache
      <3>1. CASE v
        BY <1>1, <1>2, <1>3, <1>5, <2>6, <3>1 DEF Outcome
      <3>2. CASE ~ v
        BY <1>1, <1>2, <1>3, <1>5, <2>6, <3>2 DEF Outcome
      <3>3. QED BY <3>1, <3>2
    <2>11. FlushDone(b, c, r)
      <3>1. \A o \in 0 .. pcache.off - 1 : c[o + 1] = content[b][o + 1]
        BY <2>3
      <3>2. Len(c) = pcache.off + Unit
        BY <2>4
      <3>3. QED BY <2>5, <2>7, <2>8, <2>9, <2>10, <3>1, <3>2 DEF FlushDone
    <2>12. /\ disk' \in [Blocks -> Contents] /\ pcache' \in Caches /\ rcache' \in ReadCaches
           /\ pcache'.block = LFS_BLOCK_NULL
           /\ content' \in [Blocks -> Seq(Bytes)] /\ readable' \in [Blocks -> Nat]
           /\ \A d \in Blocks : Len(content'[d]) <= BlockSize
           /\ PcacheIsTail' /\ DiskIsRest' /\ RcacheFresh'
      BY <1>1, <2>2, <2>11, DoneKeeps
    <2>13. Shapes'
      BY <1>0, <2>1, <2>2, <2>12 DEF CacheIndInv, Shapes
    <2>14. CallOnItsWay'
      <3>1. /\ call.off = Len(content[b]) /\ call.off + Len(call.data) <= BlockSize
            /\ call.validate = (b \in Validated)
        BY <1>0, <1>1, ProgFacts
      <3>2. QED BY <1>0, <2>1, <2>12, <3>1 DEF CallOnItsWay
    <2>15. ReadSoFar'
      BY <2>1 DEF ReadSoFar
    <2>16. QED BY <2>12, <2>13, <2>14, <2>15 DEF CacheIndInv
  <1>6. QED BY <1>4, <1>5

-----------------------------------------------------------------------------
(* Every step of the clients, the caches and the device keeps the          *)
(* invariant.                                                              *)
LEMMA NextKeepsCacheInv == CacheIndInv /\ [Next]_vars => CacheIndInv'
  <1> SUFFICES ASSUME CacheIndInv, [Next]_vars PROVE CacheIndInv'
    OBVIOUS
  <1>1. CASE lfs_bd_flush
    BY <1>1, FlushKeeps
  <1>2. ASSUME NEW b \in Blocks, lfs_bd_erase(b) \/ lfs_bd_sync(b) PROVE CacheIndInv'
    BY <1>2, EraseKeeps, SyncKeeps
  <1>3. ASSUME NEW p \in BOOLEAN, NEW b \in 0 .. BlockCount, NEW o \in 0 .. BlockSize - 1,
               NEW n \in ClientReads, NEW h \in Hints, lfs_bd_read(p, b, o, n, h)
        PROVE  CacheIndInv'
    BY <1>3, ReadBegins
  <1>4. CASE ReadsPcache \/ ReadsRcache \/ ReadsDisk \/ ReadFails
    BY <1>4, ReadsPcacheKeeps, ReadsRcacheKeeps, ReadsDiskKeeps, ReadFailsKeeps
  <1>5. CASE ReadReturns \/ ProgReturns
    BY <1>5, ReturnKeeps
  <1>6. ASSUME NEW b \in Blocks, NEW n \in ClientProgs, lfs_bd_prog(b \in Validated, b, n)
        PROVE  CacheIndInv'
    BY <1>6, ProgBegins
  <1>7. CASE ProgFits \/ ProgFlushes \/ ProgPrepares \/ GivesUp
    BY <1>7, FitsKeeps, ProgFlushesKeeps, PrepareKeeps, GivesUpKeeps
  <1>8. CASE UNCHANGED vars
    <2>1. UNCHANGED <<disk, pcache, rcache, call, ret, content, readable, life>>
      BY <1>8 DEF vars
    <2>2. Shapes'
      BY <2>1 DEF CacheIndInv, Shapes
    <2>3. PcacheIsTail' /\ DiskIsRest'
      BY <2>1 DEF CacheIndInv, PcacheIsTail, DiskIsRest, Pending, Settled, Failed
    <2>4. RcacheFresh' /\ CallOnItsWay' /\ ReadSoFar'
      BY <2>1 DEF CacheIndInv, RcacheFresh, CallOnItsWay, ReadSoFar, Pending
    <2>5. QED BY <2>2, <2>3, <2>4 DEF CacheIndInv
  <1>9. QED BY <1>1, <1>2, <1>3, <1>4, <1>5, <1>6, <1>7, <1>8 DEF Next

(* What is read back is what was programmed last, what was flushed is on   *)
(* the device, the program cache is never taken from a block that still    *)
(* has bytes in it, and all that these rest on.                            *)
THEOREM CacheCorrect == Spec => []CacheInv
  <1>1. Init => CacheIndInv
    BY InitCacheInv
  <1>2. CacheIndInv /\ [Next]_vars => CacheIndInv'
    BY NextKeepsCacheInv
  <1>3. CacheIndInv => CacheInv
    BY IndImpliesCacheInv
  <1>4. QED BY <1>1, <1>2, <1>3, PTL DEF Spec

\* What NeverReprogrammed says of a step.
ErasedFirst ==
  \A b \in Blocks : disk[b] # disk'[b] =>
    \/ \A o \in 0 .. BlockSize - 1 : disk'[b][o] = Erased
    \/ \A o \in 0 .. BlockSize - 1 : disk[b][o] \in {Erased, disk'[b][o]}

(* A flush programs bytes that are erased ...                              *)
LEMMA FlushesErased ==
  ASSUME CacheIndInv, NEW b \in Blocks, b = pcache.block, ~ Failed, NEW rc, NEW v \in BOOLEAN,
         NEW f \in Flushed(rc, v), disk' = f.disk
  PROVE  ErasedFirst
  <1>1. PICK k \in Int : Outcome(f, rc, v, k)
    BY Outcomes
  <1>2. disk' = Programmed(k) /\ k <= Unit
    BY <1>1 DEF Outcome
  <1>3. /\ \A c \in Blocks \ {b} : disk'[c] = disk[c]
        /\ \A o \in Places : disk'[b][o] # disk[b][o] => disk[b][o] = Erased
    BY <1>2, ProgrammedFacts
  <1>4. QED BY <1>3 DEF ErasedFirst, Places

(* ... and nothing else does more than erase.                              *)
LEMMA StepsErasedFirst == CacheIndInv /\ [Next]_vars => ErasedFirst
  <1> SUFFICES ASSUME CacheIndInv, [Next]_vars PROVE ErasedFirst
    OBVIOUS
  <1>1. ASSUME UNCHANGED disk PROVE ErasedFirst
    BY <1>1 DEF ErasedFirst
  <1>2. ASSUME NEW b \in Blocks, disk' = [disk EXCEPT ![b] = [o \in 0 .. BlockSize - 1 |-> Erased]]
        PROVE  ErasedFirst
    <2>1. /\ \A c \in Blocks \ {b} : disk'[c] = disk[c]
          /\ disk'[b] = [o \in 0 .. BlockSize - 1 |-> Erased]
      BY <1>2 DEF CacheIndInv, Shapes
    <2>2. QED BY <2>1 DEF ErasedFirst
  <1>3. CASE lfs_bd_flush
    <2>1. PICK b \in Blocks : b = pcache.block /\ ~ Failed
      BY <1>3, Sizes DEF lfs_bd_flush, Free
    <2>2. PICK f \in Flushed(rcache, TRUE) : disk' = f.disk
      BY <1>3 DEF lfs_bd_flush, Becomes
    <2>3. QED BY <2>1, <2>2, FlushesErased
  <1>4. ASSUME NEW b \in Blocks, lfs_bd_sync(b) PROVE ErasedFirst
    <2>1. PICK f \in Flushed(NullCache, FALSE) : disk' = f.disk
      BY <1>4 DEF lfs_bd_sync, Becomes, Sync_rcache
    <2>2. CASE pcache.block = b
      <3>1. ~ Failed
        BY <1>4 DEF lfs_bd_sync, Free
      <3>2. QED BY <2>1, <2>2, <3>1, FlushesErased
    <2>3. CASE pcache.block # b
      <3>1. pcache.block = LFS_BLOCK_NULL
        BY <1>4, <2>3 DEF lfs_bd_sync
      <3>2. disk' = disk
        BY <2>1, <3>1 DEF Flushed
      <3>3. QED BY <1>1, <3>2
    <2>4. QED BY <2>2, <2>3
  <1>5. CASE ProgFlushes
    <2>1. PICK b \in Blocks : b = pcache.block /\ ~ Failed /\ call.validate \in BOOLEAN
      BY <1>5, ProgFacts DEF ProgFlushes, ProgCalls
    <2>2. PICK f \in Flushed(rcache, call.validate) : disk' = f.disk
      BY <1>5 DEF ProgFlushes, Becomes
    <2>3. QED BY <2>1, <2>2, FlushesErased
  <1>6. ASSUME NEW b \in Blocks, lfs_bd_erase(b) PROVE ErasedFirst
    BY <1>2, <1>6 DEF lfs_bd_erase
  <1>7. CASE GivesUp
    <2>1. pcache.block \in Blocks
      BY <1>7, CacheFacts DEF GivesUp
    <2>2. QED BY <1>2, <1>7, <2>1 DEF GivesUp
  <1>8. ASSUME NEW p \in BOOLEAN, NEW b \in 0 .. BlockCount, NEW o \in 0 .. BlockSize - 1,
               NEW n \in ClientReads, NEW h \in Hints, lfs_bd_read(p, b, o, n, h)
        PROVE  ErasedFirst
    BY <1>1, <1>8 DEF lfs_bd_read
  <1>9. CASE ReadsPcache \/ ReadsRcache \/ ReadsDisk \/ ReadFails \/ ReadReturns \/ ProgReturns
    BY <1>1, <1>9 DEF ReadsPcache, ReadsRcache, ReadsDisk, ReadFails, ReadReturns, ProgReturns
  <1>10. ASSUME NEW b \in Blocks, NEW n \in ClientProgs, lfs_bd_prog(b \in Validated, b, n)
         PROVE  ErasedFirst
    BY <1>1, <1>10 DEF lfs_bd_prog
  <1>11. CASE ProgFits \/ ProgPrepares
    BY <1>1, <1>11 DEF ProgFits, ProgPrepares
  <1>12. CASE UNCHANGED vars
    BY <1>1, <1>12 DEF vars
  <1>13. QED BY <1>3, <1>4, <1>5, <1>6, <1>7, <1>8, <1>9, <1>10, <1>11, <1>12 DEF Next

(* No byte is programmed twice between two erases of its block.            *)
THEOREM ProgrammedOnce == Spec => NeverReprogrammed
  <1>1. Init => CacheIndInv
    BY InitCacheInv
  <1>2. CacheIndInv /\ [Next]_vars => CacheIndInv'
    BY NextKeepsCacheInv
  <1>3. CacheIndInv /\ [Next]_vars =>
          \A b \in Blocks : disk[b] # disk'[b] =>
            \/ \A o \in 0 .. BlockSize - 1 : disk'[b][o] = Erased
            \/ \A o \in 0 .. BlockSize - 1 : disk[b][o] \in {Erased, disk'[b][o]}
    BY StepsErasedFirst DEF ErasedFirst
  <1>4. QED BY <1>1, <1>2, <1>3, PTL DEF Spec, NeverReprogrammed
=============================================================================
