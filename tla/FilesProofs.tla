---------------------------- MODULE FilesProofs ----------------------------
(***************************************************************************)
(* That fs.c and main.py are together the service FileService describes,   *)
(* for every number of clients, every disk and every operation of the types *)
(* of fs.h: what the host unpacks is what the phone packed.  And that the  *)
(* load of the database through them brings what the user wrote, whatever  *)
(* that is, as Database promises.                                          *)
(***************************************************************************)
EXTENDS DbLoad, BasicLemmas, FiniteSetTheorems

-----------------------------------------------------------------------------
(* Integers as bytes. *)

(* To divide by a product is to divide by its factors in turn.             *)
LEMMA DivideTwice ==
  \A x \in Int, a, b \in Nat \ {0} : x \div (a * b) = (x \div a) \div b
  <1> SUFFICES ASSUME NEW x \in Int, NEW a \in Nat \ {0}, NEW b \in Nat \ {0}
               PROVE  x \div (a * b) = (x \div a) \div b
    OBVIOUS
  <1>1. PICK q \in Int, r \in 0 .. a - 1 : q = x \div a /\ r = x % a
    BY Division
  <1>2. PICK s \in Int, t \in 0 .. b - 1 : s = q \div b /\ t = q % b
    BY <1>1, Division
  <1>3. x = a * q + r /\ q = b * s + t
    BY <1>1, <1>2, Division
  <1>4. x = (a * b) * s + (a * t + r)
    <2>1. a * (b * s + t) = (a * b) * s + a * t
      OBVIOUS
    <2>2. QED BY <1>3, <2>1
  <1>5. a * t + r \in 0 .. a * b - 1
    <2>1. a * t <= a * (b - 1) /\ 0 <= a * t
      BY Division
    <2>2. a * (b - 1) = a * b - a
      OBVIOUS
    <2>3. a * t \in Int /\ a * b \in Int
      OBVIOUS
    <2>4. QED BY <2>1, <2>2, <2>3
  <1>6. a * b \in Nat \ {0}
    <2>1. 0 <= a * (b - 1)
      BY Division
    <2>2. a * (b - 1) = a * b - a /\ a * b \in Int
      OBVIOUS
    <2>3. QED BY <2>1, <2>2
  <1>7. x \div (a * b) = s
    BY <1>4, <1>5, <1>6, OneQuotient
  <1>8. QED BY <1>1, <1>2, <1>7

(* The powers of the base.                                                 *)
LEMMA Powers ==
  /\ Pow(0) = 1 /\ Pow(1) = Base /\ Pow(2) = Base * Base
  /\ Pow(3) = Base * Pow(2) /\ Pow(4) = Base * Pow(3)
  /\ \A k \in 0 .. 4 : Pow(k) \in Nat \ {0}
  <1>1. Pow(0) = 1 /\ Pow(1) = Base /\ Pow(2) = Base * Base
        /\ Pow(3) = Base * Base * Base /\ Pow(4) = Base * Base * Base * Base
    BY DEF Pow
  <1>2. \A a, b \in Nat \ {0} : a * b \in Nat \ {0}
    <2>1. SUFFICES ASSUME NEW a \in Nat \ {0}, NEW b \in Nat \ {0} PROVE a * b \in Nat \ {0}
      OBVIOUS
    <2>2. 0 <= a * (b - 1)
      BY Division
    <2>3. a * (b - 1) = a * b - a /\ a * b \in Int
      OBVIOUS
    <2>4. QED BY <2>2, <2>3
  <1>3. \A a \in Nat : a * a * a = a * (a * a) /\ a * a * a * a = a * (a * (a * a))
    OBVIOUS
  <1>4. Base \in Nat \ {0}
    BY FilesAssumption
  <1>5. Pow(3) = Base * Pow(2) /\ Pow(4) = Base * Pow(3)
    <2>1. Base * Base * Base = Base * (Base * Base)
          /\ Base * Base * Base * Base = Base * (Base * (Base * Base))
      BY <1>3, <1>4
    <2>2. Pow(3) = Base * (Base * Base) /\ Pow(4) = Base * (Base * (Base * Base))
      BY <1>1, <2>1, Zenon
    <2>3. QED BY <1>1, <2>2, Zenon
  <1>6. Pow(1) \in Nat \ {0}
    BY <1>1, <1>4, Zenon
  <1>7. Pow(2) \in Nat \ {0}
    BY <1>1, <1>2, <1>4, Zenon
  <1>8. Pow(3) \in Nat \ {0}
    BY <1>2, <1>4, <1>5, <1>7, Zenon
  <1>9. Pow(4) \in Nat \ {0}
    BY <1>2, <1>4, <1>5, <1>8, Zenon
  <1>10. Pow(0) \in Nat \ {0}
    BY <1>1
  <1>11. ASSUME NEW k \in 0 .. 4 PROVE Pow(k) \in Nat \ {0}
    <2>1. k = 0 \/ k = 1 \/ k = 2 \/ k = 3 \/ k = 4
      OBVIOUS
    <2>2. QED BY <2>1, <1>6, <1>7, <1>8, <1>9, <1>10, Zenon
  <1>12. QED BY <1>1, <1>5, <1>11, Zenon

(* The bytes of an integer are bytes.                                      *)
LEMMA BytesAre ==
  \A k \in 0 .. 5, n \in Int : /\ Bytes(k, n) \in Seq(0 .. Base - 1) /\ Len(Bytes(k, n)) = k
                               /\ DOMAIN Bytes(k, n) = 1 .. k
                               /\ \A at \in 1 .. k : Bytes(k, n)[at] = (n \div Pow(at - 1)) % Base
  <1> SUFFICES ASSUME NEW k \in 0 .. 5, NEW n \in Int
               PROVE  /\ Bytes(k, n) \in Seq(0 .. Base - 1) /\ Len(Bytes(k, n)) = k
                      /\ DOMAIN Bytes(k, n) = 1 .. k
                      /\ \A at \in 1 .. k : Bytes(k, n)[at] = (n \div Pow(at - 1)) % Base
    OBVIOUS
  <1>1. Bytes(k, n) = [at \in 1 .. k |-> (n \div Pow(at - 1)) % Base]
    BY DEF Bytes
  <1>2. ASSUME NEW at \in 1 .. k PROVE (n \div Pow(at - 1)) % Base \in 0 .. Base - 1
    <2>1. Pow(at - 1) \in Nat \ {0}
      BY Powers
    <2>2. PICK x \in Int : x = n \div Pow(at - 1)
      BY <2>1, Division
    <2>3. Base \in Nat \ {0}
      BY FilesAssumption
    <2>4. x % Base \in 0 .. Base - 1
      BY <2>3, Division
    <2>5. QED BY <2>2, <2>4, Zenon
  <1>3. Bytes(k, n) \in [1 .. k -> 0 .. Base - 1]
    BY <1>1, <1>2
  <1>4. QED BY <1>1, <1>3

(* The four digits of an integer are the integer, but for multiples of the *)
(* largest power.                                                          *)
LEMMA FourDigits ==
  \A n \in Int : \E q \in Int :
    /\ Unsigned(Bytes(4, n)) = n - Pow(4) * q
    /\ Unsigned(Bytes(4, n)) \in 0 .. Pow(4) - 1
  <1> SUFFICES ASSUME NEW n \in Int
               PROVE  \E q \in Int : /\ Unsigned(Bytes(4, n)) = n - Pow(4) * q
                                     /\ Unsigned(Bytes(4, n)) \in 0 .. Pow(4) - 1
    OBVIOUS
  <1>1. PICK b \in Nat \ {0} : b = Base
    BY FilesAssumption
  <1>2. PICK q1 \in Int, d0 \in 0 .. b - 1 : q1 = n \div b /\ d0 = n % b /\ n = b * q1 + d0
    BY Division
  <1>3. PICK q2 \in Int, d1 \in 0 .. b - 1 : q2 = q1 \div b /\ d1 = q1 % b /\ q1 = b * q2 + d1
    BY Division
  <1>4. PICK q3 \in Int, d2 \in 0 .. b - 1 : q3 = q2 \div b /\ d2 = q2 % b /\ q2 = b * q3 + d2
    BY Division
  <1>5. PICK q4 \in Int, d3 \in 0 .. b - 1 : q4 = q3 \div b /\ d3 = q3 % b /\ q3 = b * q4 + d3
    BY Division
  <1>6. PICK b2 \in Nat \ {0} : b2 = Pow(2) /\ b2 = b * b
    BY <1>1, Powers
  <1>7. PICK b3 \in Nat \ {0} : b3 = Pow(3) /\ b3 = b * b2
    BY <1>1, <1>6, Powers
  <1>8. PICK b4 \in Nat \ {0} : b4 = Pow(4) /\ b4 = b * b3
    BY <1>1, <1>7, Powers
  <1>9. n \div Pow(0) = n /\ n \div Pow(1) = q1 /\ n \div Pow(2) = q2 /\ n \div Pow(3) = q3
    <2>1. n \div 1 = n
      OBVIOUS
    <2>2. n \div (b * b) = (n \div b) \div b
      BY DivideTwice
    <2>3. b3 = b2 * b
      BY <1>7
    <2>4. n \div (b2 * b) = (n \div b2) \div b
      BY DivideTwice
    <2>5. n \div b2 = q2
      BY <2>2, <1>2, <1>3, <1>6, Zenon
    <2>6. n \div b3 = q3
      BY <2>3, <2>4, <2>5, <1>4, Zenon
    <2>7. QED BY <2>1, <2>5, <2>6, <1>1, <1>2, <1>6, <1>7, Powers, Zenon
  <1>10. /\ Bytes(4, n)[1] = d0 /\ Bytes(4, n)[2] = d1 /\ Bytes(4, n)[3] = d2 /\ Bytes(4, n)[4] = d3
         /\ DOMAIN Bytes(4, n) = 1 .. 4
    <2>1. DOMAIN Bytes(4, n) = 1 .. 4 /\ \A at \in 1 .. 4 : Bytes(4, n)[at] = (n \div Pow(at - 1)) % Base
      BY BytesAre
    <2>2. /\ Bytes(4, n)[1] = (n \div Pow(0)) % Base /\ Bytes(4, n)[2] = (n \div Pow(1)) % Base
          /\ Bytes(4, n)[3] = (n \div Pow(2)) % Base /\ Bytes(4, n)[4] = (n \div Pow(3)) % Base
      BY <2>1
    <2>3. QED BY <2>1, <2>2, <1>1, <1>2, <1>3, <1>4, <1>5, <1>9, Zenon
  <1>11. Unsigned(Bytes(4, n)) = d0 * 1 + d1 * b + d2 * b2 + d3 * b3
    <2>1. /\ Digit(Bytes(4, n), 1) = d0 * Pow(0) /\ Digit(Bytes(4, n), 2) = d1 * Pow(1)
          /\ Digit(Bytes(4, n), 3) = d2 * Pow(2) /\ Digit(Bytes(4, n), 4) = d3 * Pow(3)
      BY <1>10 DEF Digit
    <2>2. QED BY <2>1, <1>1, <1>6, <1>7, Powers, Zenon DEF Unsigned
  <1>12. d0 * 1 + d1 * b + d2 * b2 + d3 * b3 = n - b4 * q4
    <2>1. b2 * q2 = b2 * (b * q3) + b2 * d2 /\ b3 * q3 = b3 * (b * q4) + b3 * d3
      BY <1>4, <1>5
    <2>2. b2 * (b * q3) = b3 * q3
      BY <1>7
    <2>3. b3 * (b * q4) = b4 * q4
      BY <1>8
    <2>4. b * q1 = b * (b * q2) + b * d1
      BY <1>3
    <2>5. b * (b * q2) = b2 * q2
      BY <1>6
    <2>6. d1 * b = b * d1 /\ d2 * b2 = b2 * d2 /\ d3 * b3 = b3 * d3
      OBVIOUS
    <2>7. /\ b * d1 \in Int /\ b2 * d2 \in Int /\ b3 * d3 \in Int /\ b4 * q4 \in Int
          /\ b * q1 \in Int /\ b2 * q2 \in Int /\ b3 * q3 \in Int /\ d0 * 1 = d0
      OBVIOUS
    <2>8. PICK u1, u2, u3, u4, e1, e2, e3 \in Int :
            /\ u1 = b * q1 /\ u2 = b2 * q2 /\ u3 = b3 * q3 /\ u4 = b4 * q4
            /\ e1 = b * d1 /\ e2 = b2 * d2 /\ e3 = b3 * d3
      BY <2>7
    <2>9. n = u1 + d0 /\ u1 = u2 + e1 /\ u2 = u3 + e2 /\ u3 = u4 + e3
      BY <2>1, <2>2, <2>3, <2>4, <2>5, <2>8, <1>2, Zenon
    <2>10. d0 + e1 + e2 + e3 = n - u4
      BY <2>9
    <2>11. d0 * 1 + d1 * b + d2 * b2 + d3 * b3 = d0 + e1 + e2 + e3
      BY <2>6, <2>7, <2>8, Zenon
    <2>12. QED BY <2>8, <2>10, <2>11, Zenon
  <1>13. d0 * 1 + d1 * b + d2 * b2 + d3 * b3 \in 0 .. b4 - 1
    <2>1. /\ d1 * b >= 0 /\ d1 * b <= b * b - b
          /\ d2 * b2 >= 0 /\ d2 * b2 <= b * b2 - b2
          /\ d3 * b3 >= 0 /\ d3 * b3 <= b * b3 - b3
      <3>1. \A d \in 0 .. b - 1, e \in Nat \ {0} : d * e >= 0 /\ d * e <= b * e - e
        <4>1. SUFFICES ASSUME NEW d \in 0 .. b - 1, NEW e \in Nat \ {0}
                       PROVE  d * e >= 0 /\ d * e <= b * e - e
          OBVIOUS
        <4>2. e * 0 <= e * d /\ e * d <= e * (b - 1)
          BY Division
        <4>3. e * d = d * e /\ e * (b - 1) = b * e - e /\ e * 0 = 0
          OBVIOUS
        <4>4. QED BY <4>2, <4>3
      <3>2. QED BY <3>1
    <2>2. PICK e1, e2, e3 \in Int : e1 = d1 * b /\ e2 = d2 * b2 /\ e3 = d3 * b3
      OBVIOUS
    <2>3. /\ e1 >= 0 /\ e1 <= b2 - b /\ e2 >= 0 /\ e2 <= b3 - b2
          /\ e3 >= 0 /\ e3 <= b4 - b3
      BY <2>1, <2>2, <1>6, <1>7, <1>8, Zenon
    <2>4. d0 * 1 = d0
      OBVIOUS
    <2>5. d0 + e1 + e2 + e3 \in 0 .. b4 - 1
      BY <2>3
    <2>6. QED BY <2>2, <2>4, <2>5, Zenon
  <1>14. QED BY <1>8, <1>11, <1>12, <1>13

(* A C int comes out of its four bytes as it went in.                      *)
LEMMA SignedBytes == \A n \in Int32 : Signed(Bytes(4, n)) = n
  <1> SUFFICES ASSUME NEW n \in Int32 PROVE Signed(Bytes(4, n)) = n
    OBVIOUS
  <1>1. PICK p \in Nat \ {0} : p = Pow(4)
    BY Powers
  <1>2. PICK h \in Int : h = p \div 2
    BY Division
  <1>3. 2 * h <= p /\ p <= 2 * h + 1
    <2>1. p = 2 * h + (p % 2) /\ p % 2 \in 0 .. 1
      BY <1>2, Division
    <2>2. QED BY <2>1
  <1>4. n \in -(p - h) .. h - 1
    BY <1>1, <1>2 DEF Int32
  <1>5. PICK q \in Int : Unsigned(Bytes(4, n)) = n - p * q /\ n - p * q \in 0 .. p - 1
    BY <1>1, <1>4, FourDigits
  <1>6. q = 0 \/ q = -1
    <2>1. ASSUME q >= 1 PROVE FALSE
      <3>1. p * 1 <= p * q
        BY <2>1, Division
      <3>2. QED BY <3>1, <1>3, <1>4, <1>5
    <2>2. ASSUME q <= -2 PROVE FALSE
      <3>1. p * q <= p * (-2)
        BY <2>2, Division
      <3>2. p * (-2) = -(2 * p) /\ p * q \in Int
        OBVIOUS
      <3>3. QED BY <3>1, <3>2, <1>3, <1>4, <1>5
    <2>3. QED BY <2>1, <2>2
  <1>7. Len(Bytes(4, n)) = 4
    BY <1>4, BytesAre
  <1>8. Signed(Bytes(4, n)) = IF n - p * q >= h THEN n - p * q - p ELSE n - p * q
    BY <1>1, <1>2, <1>5, <1>7, Zenon DEF Signed
  <1>9. CASE q = 0
    <2>1. n - p * q = n
      BY <1>9, <1>4
    <2>2. QED BY <2>1, <1>4, <1>5, <1>8
  <1>10. CASE q = -1
    <2>1. n - p * q = n + p
      BY <1>10, <1>4
    <2>2. QED BY <2>1, <1>4, <1>5, <1>8
  <1>11. QED BY <1>6, <1>9, <1>10

(* As does a byte.                                                         *)
LEMMA UnsignedByte == \A n \in 0 .. Base - 1 : Unsigned(Bytes(1, n)) = n
  <1> SUFFICES ASSUME NEW n \in 0 .. Base - 1 PROVE Unsigned(Bytes(1, n)) = n
    OBVIOUS
  <1>1. DOMAIN Bytes(1, n) = 1 .. 1 /\ Bytes(1, n)[1] = (n \div Pow(0)) % Base
    BY BytesAre
  <1>2. (n \div 1) % Base = n
    <2>1. n \div 1 = n
      OBVIOUS
    <2>2. Base \in Nat \ {0} /\ n \in Int
      BY FilesAssumption
    <2>3. n \div Base = 0
      <3>1. n = Base * 0 + n
        BY FilesAssumption
      <3>2. QED BY <3>1, OneQuotient, FilesAssumption
    <2>4. n = (Base * (n \div Base)) + (n % Base)
      BY <2>2, Division
    <2>5. n % Base \in Int /\ Base * 0 = 0
      BY Division, FilesAssumption
    <2>6. QED BY <2>1, <2>3, <2>4, <2>5
  <1>3. /\ Digit(Bytes(1, n), 1) = n /\ Digit(Bytes(1, n), 2) = 0
        /\ Digit(Bytes(1, n), 3) = 0 /\ Digit(Bytes(1, n), 4) = 0
    BY <1>1, <1>2, Powers DEF Digit
  <1>4. QED BY <1>3 DEF Unsigned

-----------------------------------------------------------------------------
(* Packing and unpacking. *)

(* What is cut out of a concatenation where a part lies is the part: a, b  *)
(* and c are k, l and m long.                                              *)
Parts(a, b, c, k, l, m) ==
  /\ SubSeq(a, 1, k) = a
  /\ SubSeq(a \o b, 1, k) = a
  /\ SubSeq(a \o b, k + 1, k + l) = b
  /\ SubSeq((a \o b) \o c, 1, k) = a
  /\ SubSeq((a \o b) \o c, k + 1, k + l) = b
  /\ SubSeq((a \o b) \o c, k + l + 1, k + l + m) = c

(* That is so of all sequences.                                            *)
LEMMA PartsOf ==
  \A S : \A a, b, c \in Seq(S) : \A k, l, m \in Nat :
    k = Len(a) /\ l = Len(b) /\ m = Len(c) => Parts(a, b, c, k, l, m)
  <1>1. \A S : \A a, b \in Seq(S) : SubSeq(a \o b, 1, Len(a)) = a
    <2> SUFFICES ASSUME NEW S, NEW a \in Seq(S), NEW b \in Seq(S)
                 PROVE  SubSeq(a \o b, 1, Len(a)) = a
      OBVIOUS
    <2>1. CASE Len(a) = 0
      <3>1. a = << >>
        BY <2>1, EmptySeq
      <3>2. SubSeq(a \o b, 1, 0) = << >>
        BY SubSeqEmpty
      <3>3. QED BY <2>1, <3>1, <3>2, Zenon
    <2>2. CASE Len(a) # 0
      <3>1. 1 \in 1 .. Len(a) /\ Len(a) \in 1 .. Len(a)
        BY <2>2, LenProperties
      <3>2. SubSeq(a \o b, 1, Len(a)) = SubSeq(a, 1, Len(a))
        BY <3>1, SubSeqOfConcat1
      <3>3. QED BY <3>2, SubSeqFull
    <2>3. QED BY <2>1, <2>2
  <1>2. \A S : \A a, b \in Seq(S) : SubSeq(a \o b, Len(a) + 1, Len(a) + Len(b)) = b
    <2> SUFFICES ASSUME NEW S, NEW a \in Seq(S), NEW b \in Seq(S)
                 PROVE  SubSeq(a \o b, Len(a) + 1, Len(a) + Len(b)) = b
      OBVIOUS
    <2>0. PICK k, l \in Nat : k = Len(a) /\ l = Len(b)
      BY LenProperties
    <2>1. CASE l = 0
      <3>1. b = << >>
        BY <2>0, <2>1, EmptySeq
      <3>2. SubSeq(a \o b, k + 1, k + 0) = << >>
        BY <2>0, SubSeqEmpty
      <3>3. QED BY <2>0, <2>1, <3>1, <3>2, Zenon
    <2>2. CASE l # 0
      <3>1. k + 1 \in Len(a) + 1 .. Len(a) + Len(b) /\ k + l \in Len(a) + 1 .. Len(a) + Len(b)
        BY <2>0, <2>2
      <3>2. SubSeq(a \o b, k + 1, k + l) = SubSeq(b, (k + 1) - Len(a), (k + l) - Len(a))
        BY <3>1, SubSeqOfConcat2
      <3>3. (k + 1) - Len(a) = 1 /\ (k + l) - Len(a) = l
        BY <2>0
      <3>4. SubSeq(b, 1, l) = b
        BY <2>0, SubSeqFull
      <3>5. QED BY <2>0, <3>2, <3>3, <3>4, Zenon
    <2>3. QED BY <2>1, <2>2
  <1> SUFFICES ASSUME NEW S, NEW a \in Seq(S), NEW b \in Seq(S), NEW c \in Seq(S)
               PROVE  Parts(a, b, c, Len(a), Len(b), Len(c))
    OBVIOUS
  <1>3. SubSeq(a, 1, Len(a)) = a
    BY SubSeqFull
  <1>4. (a \o b) \o c = a \o (b \o c) /\ b \o c \in Seq(S) /\ a \o b \in Seq(S)
        /\ Len(a \o b) = Len(a) + Len(b)
    BY ConcatAssociative, ConcatProperties, SMTT(30)
  <1>5. SubSeq((a \o b) \o c, 1, Len(a)) = a
    BY <1>1, <1>4, Zenon
  <1>6. SubSeq((a \o b) \o c, Len(a) + Len(b) + 1, Len(a) + Len(b) + Len(c)) = c
    BY <1>2, <1>4, Zenon
  <1>7. SubSeq((a \o b) \o c, Len(a) + 1, Len(a) + Len(b)) = b
    <2>0. PICK k, l \in Nat : k = Len(a) /\ l = Len(b)
      BY LenProperties
    <2>1. CASE l = 0
      <3>1. b = << >>
        BY <2>0, <2>1, EmptySeq
      <3>2. SubSeq((a \o b) \o c, k + 1, k + 0) = << >>
        BY <2>0, SubSeqEmpty
      <3>3. QED BY <2>0, <2>1, <3>1, <3>2, Zenon
    <2>2. CASE l # 0
      <3>1. k + 1 \in 1 .. Len(a \o b) /\ k + l \in 1 .. Len(a \o b)
        BY <1>4, <2>0, <2>2
      <3>2. SubSeq((a \o b) \o c, k + 1, k + l) = SubSeq(a \o b, k + 1, k + l)
        BY <1>4, <3>1, SubSeqOfConcat1
      <3>3. QED BY <1>2, <2>0, <3>2, Zenon
    <2>3. QED BY <2>1, <2>2
  <1>8. QED BY <1>1, <1>2, <1>3, <1>5, <1>6, <1>7, Zenon DEF Parts

(* What the host makes of the argument bytes of an operation: what main.py *)
(* reads is what fs.c put there.                                           *)
Understood(d, b) ==
  /\ d.op \in {"open", "close", "size", "read", "seek"}
  /\ d.op = "open" => SubSeq(b, 2, 1 + Unsigned(SubSeq(b, 1, 1))) = d.path
  /\ d.op # "open" => fd_of(b) = d.fd
  /\ d.op \in {"read", "seek"} => n_of(b) = d.n
  /\ d.op = "seek" => Unsigned(SubSeq(b, 9, 9)) = d.whence

(* For every operation of the types of fs.h (fs.c:12-87, main.py:110-156). *)
LEMMA Unpacked == \A d : WellTyped(d) => Understood(d, Packed(d))
  <1> SUFFICES ASSUME NEW d, WellTyped(d) PROVE Understood(d, Packed(d))
    OBVIOUS
  <1>0. DEFINE B == 0 .. Base - 1
  <1>1. \A n \in Int32 : n \in Int /\ Bytes(4, n) \in Seq(B) /\ Len(Bytes(4, n)) = 4
                         /\ Signed(Bytes(4, n)) = n
    <2>1. \A n \in Int32 : n \in Int
      BY DEF Int32
    <2>2. QED BY <2>1, BytesAre, SignedBytes
  <1>2. \A n \in B : Bytes(1, n) \in Seq(B) /\ Len(Bytes(1, n)) = 1 /\ Unsigned(Bytes(1, n)) = n
    BY BytesAre, UnsignedByte
  <1>3. d.op \in {"open", "close", "size", "read", "seek"}
    BY DEF WellTyped
  <1>4. CASE d.op = "open"
    <2>1. PICK n \in Nat, p \in Seq(B) : p = d.path /\ n = Len(p) /\ n \in B
      BY <1>4, LenProperties, FilesAssumption, SMTT(30) DEF WellTyped
    <2>2. Packed(d) = Bytes(1, n) \o p
      BY <1>4, <2>1 DEF Packed, fs_open_bytes
    <2>3. PICK a \in Seq(B) : a = Bytes(1, n) /\ Len(a) = 1 /\ Unsigned(a) = n
      BY <1>2, <2>1
    <2>4. Parts(a, p, p, 1, n, n)
      <3>1. 1 \in Nat /\ n \in Nat /\ 1 = Len(a) /\ n = Len(p)
        BY <2>1, <2>3
      <3>2. a \in Seq(B) /\ p \in Seq(B)
        OBVIOUS
      <3>3. QED BY <3>1, <3>2, PartsOf, Zenon
    <2>5. SubSeq(Packed(d), 1, 1) = a /\ SubSeq(Packed(d), 1 + 1, 1 + n) = p
      BY <2>2, <2>3, <2>4, Zenon DEF Parts
    <2>6. 1 + 1 = 2
      OBVIOUS
    <2>7. SubSeq(Packed(d), 2, 1 + Unsigned(SubSeq(Packed(d), 1, 1))) = d.path
      BY <2>1, <2>3, <2>5, <2>6, Zenon
    <2>8. QED BY <1>3, <1>4, <2>7 DEF Understood
  <1>5. CASE d.op = "close" \/ d.op = "size"
    <2>1. d.fd \in Int32
      BY <1>5 DEF WellTyped
    <2>2. Packed(d) = Bytes(4, d.fd)
      BY <1>5 DEF Packed, fs_close_bytes, fs_size_bytes
    <2>3. PICK a \in Seq(B) : a = Bytes(4, d.fd) /\ Len(a) = 4 /\ Signed(a) = d.fd
      BY <1>1, <2>1
    <2>4. Parts(a, a, a, 4, 4, 4)
      BY <2>3, PartsOf
    <2>5. fd_of(Packed(d)) = d.fd
      BY <2>2, <2>3, <2>4, Zenon DEF fd_of, Parts
    <2>6. QED BY <1>3, <1>5, <2>5, Zenon DEF Understood
  <1>6. CASE d.op = "read"
    <2>1. d.fd \in Int32 /\ d.n \in Int32
      BY <1>6 DEF WellTyped
    <2>2. Packed(d) = Bytes(4, d.fd) \o Bytes(4, d.n)
      BY <1>6 DEF Packed, fs_read_bytes
    <2>3. PICK a \in Seq(B) : a = Bytes(4, d.fd) /\ Len(a) = 4 /\ Signed(a) = d.fd
      BY <1>1, <2>1
    <2>4. PICK b \in Seq(B) : b = Bytes(4, d.n) /\ Len(b) = 4 /\ Signed(b) = d.n
      BY <1>1, <2>1
    <2>5. Parts(a, b, b, 4, 4, 4)
      BY <2>3, <2>4, PartsOf
    <2>6. 4 + 1 = 5 /\ 4 + 4 = 8
      OBVIOUS
    <2>7. fd_of(Packed(d)) = d.fd /\ n_of(Packed(d)) = d.n
      BY <2>2, <2>3, <2>4, <2>5, <2>6, Zenon DEF fd_of, n_of, Parts
    <2>8. QED BY <1>3, <1>6, <2>7, Zenon DEF Understood
  <1>7. CASE d.op = "seek"
    <2>1. d.fd \in Int32 /\ d.n \in Int32 /\ d.whence \in B
      BY <1>7, FilesAssumption DEF WellTyped
    <2>2. Packed(d) = (Bytes(4, d.fd) \o Bytes(4, d.n)) \o Bytes(1, d.whence)
      BY <1>7 DEF Packed, fs_seek_bytes
    <2>3. PICK a \in Seq(B) : a = Bytes(4, d.fd) /\ Len(a) = 4 /\ Signed(a) = d.fd
      BY <1>1, <2>1
    <2>4. PICK b \in Seq(B) : b = Bytes(4, d.n) /\ Len(b) = 4 /\ Signed(b) = d.n
      BY <1>1, <2>1
    <2>5. PICK e \in Seq(B) : e = Bytes(1, d.whence) /\ Len(e) = 1 /\ Unsigned(e) = d.whence
      BY <1>2, <2>1
    <2>6. Parts(a, b, e, 4, 4, 1)
      BY <2>3, <2>4, <2>5, PartsOf
    <2>7. 4 + 1 = 5 /\ 4 + 4 = 8 /\ 4 + 4 + 1 = 9
      OBVIOUS
    <2>8. /\ fd_of(Packed(d)) = d.fd /\ n_of(Packed(d)) = d.n
          /\ Unsigned(SubSeq(Packed(d), 9, 9)) = d.whence
      BY <2>2, <2>3, <2>4, <2>5, <2>6, <2>7, Zenon DEF fd_of, n_of, Parts
    <2>9. QED BY <1>3, <1>7, <2>8, Zenon DEF Understood
  <1>8. QED BY <1>3, <1>4, <1>5, <1>6, <1>7

-----------------------------------------------------------------------------
(* The invariant: the host's open files are of its disk, and a request     *)
(* waits with the bytes of what its client asked for and nothing answered. *)

OpenFiles == UNION {[D -> [path : DOMAIN disk, pos : Nat]] : D \in SUBSET (0 .. MaxFd)}
Sound(dir) == \A path \in DOMAIN dir : dir[path] \in Seq(0 .. Base - 1) /\ Len(dir[path]) < Pow(4) \div 2
HostInv == Sound(disk) /\ files \in OpenFiles /\ host_up \in BOOLEAN

Call(d, ret) == [code |-> CodeOf[d.op], bytes |-> Packed(d), ret |-> ret]
Pending(c) == data[c] # Nothing /\ host_data[c].ret = Nothing

(* What the clients see of the answers.                                    *)
Results == [c \in Clients |-> IF Answered(c) THEN fs_result(data[c], host_data[c].ret)
                              ELSE Nothing]

CallsInv ==
  /\ data \in [Clients -> Ops \cup {Nothing}]
  /\ host_data = [c \in Clients |-> host_data[c]]
  /\ \A c \in Clients : data[c] # Nothing => host_data[c] = Call(data[c], host_data[c].ret)
  /\ \A c \in Clients : Answered(c) => Results[c] # Nothing

QueueInv ==
  /\ requests \in Seq(Clients)
  /\ \A k, l \in 1 .. Len(requests) : requests[k] = requests[l] => k = l
  /\ \A k \in 1 .. Len(requests) : Pending(requests[k])

FilesInv == HostInv /\ CallsInv /\ QueueInv

(* The step of the host in which it answers the first request.             *)
Answers(c, ret, new) ==
  ret # Nothing /\ fs_result(data[c], ret) # Nothing /\ new \in OpenFiles /\ Reply(c, ret, new)

(* An answer is added to the results; nobody else's call changes.          *)
LEMMA AnswerAdds ==
  ASSUME FilesInv, requests # << >>, NEW ret, NEW new, Answers(Head(requests), ret, new)
  PROVE  /\ Results[Head(requests)] = Nothing
         /\ Results' = [Results EXCEPT ![Head(requests)] = fs_result(data[Head(requests)], ret)]
         /\ FilesInv'
  <1>1. PICK c \in Clients : c = Head(requests) /\ c = requests[1]
    BY HeadTailProperties DEF FilesInv, QueueInv
  <1>2. Pending(c)
    <2>1. 1 \in 1 .. Len(requests)
      BY LenProperties, EmptySeq DEF FilesInv, QueueInv
    <2>2. QED BY <1>1, <2>1, Zenon DEF FilesInv, QueueInv
  <1>3. /\ data' = data /\ disk' = disk /\ host_up' = host_up /\ requests' = Tail(requests)
        /\ host_data' = [host_data EXCEPT ![c].ret = ret] /\ files' = new /\ ret # Nothing
        /\ new \in OpenFiles /\ fs_result(data[c], ret) # Nothing
    BY <1>1 DEF Answers, Reply
  <1>4. host_data[c] = Call(data[c], host_data[c].ret)
    BY <1>2, Zenon DEF FilesInv, CallsInv, Pending
  <1>5. /\ host_data' = [x \in Clients |-> host_data'[x]]
        /\ host_data'[c].ret = ret /\ host_data'[c] = Call(data[c], ret)
        /\ \A x \in Clients \ {c} : host_data'[x] = host_data[x]
    <2>1. host_data = [x \in Clients |-> host_data[x]]
      BY Zenon DEF FilesInv, CallsInv
    <2>2. host_data' = [x \in Clients |-> IF x = c THEN [host_data[c] EXCEPT !.ret = ret]
                                                   ELSE host_data[x]]
      BY <1>3, <2>1
    <2>3. host_data'[c] = [host_data[c] EXCEPT !.ret = ret]
      BY <2>2
    <2>4. [host_data[c] EXCEPT !.ret = ret] = Call(data[c], ret)
      BY <1>4 DEF Call
    <2>5. Call(data[c], ret).ret = ret
      BY DEF Call
    <2>6. QED BY <2>2, <2>3, <2>4, <2>5
  <1>6. Results[c] = Nothing
    BY <1>2 DEF Results, Answered, Pending
  <1>7. /\ Results' = [Results EXCEPT ![c] = fs_result(data[c], ret)]
        /\ \A x \in Clients : Answered(x)' => Results'[x] # Nothing
    <2>1. \A x \in Clients \ {c} : Answered(x)' = Answered(x)
      BY <1>3, <1>5 DEF Answered
    <2>2. Answered(c)'
      BY <1>2, <1>3, <1>5 DEF Answered, Pending
    <2>3. fs_result(data[c], host_data[c].ret)' = fs_result(data[c], ret)
      BY <1>3, <1>5, Zenon DEF fs_result
    <2>4. \A x \in Clients \ {c} :
            fs_result(data[x], host_data[x].ret)' = fs_result(data[x], host_data[x].ret)
      BY <1>3, <1>5, Zenon DEF fs_result
    <2>5. \A x \in Clients : Results'[x] = [Results EXCEPT ![c] = fs_result(data[c], ret)][x]
      BY <2>1, <2>2, <2>3, <2>4 DEF Results
    <2>6. Results' = [Results EXCEPT ![c] = fs_result(data[c], ret)]
      BY <2>5 DEF Results
    <2>7. \A x \in Clients \ {c} : Answered(x)' => Results'[x] # Nothing
      BY <2>1, <2>6 DEF FilesInv, CallsInv, Results
    <2>8. Results'[c] # Nothing
      BY <1>3, <2>6 DEF Results
    <2>9. QED BY <2>6, <2>7, <2>8
  <1>8. HostInv'
    BY <1>3 DEF FilesInv, HostInv, OpenFiles
  <1>9. CallsInv'
    <2>1. \A x \in Clients : data'[x] # Nothing => host_data'[x] = Call(data'[x], host_data'[x].ret)
      BY <1>3, <1>5 DEF FilesInv, CallsInv
    <2>2. (\A x \in Clients : data[x] # Nothing => host_data[x] = Call(data[x], host_data[x].ret))'
      BY <2>1 DEF Call, Packed, fs_open_bytes, fs_close_bytes, fs_size_bytes, fs_read_bytes,
                  fs_seek_bytes, CodeOf, Bytes, Pow
    <2>3. (\A x \in Clients : Answered(x) => Results[x] # Nothing)'
      BY <1>7, Zenon
    <2>4. QED BY <1>3, <1>5, <2>2, <2>3, Zenon DEF FilesInv, CallsInv
  <1>10. QueueInv'
    <2>1. /\ Tail(requests) \in Seq(Clients) /\ Len(Tail(requests)) = Len(requests) - 1
          /\ \A k \in 1 .. Len(Tail(requests)) : Tail(requests)[k] = requests[k + 1]
          /\ Len(requests) \in Nat
      BY HeadTailProperties, LenProperties DEF FilesInv, QueueInv
    <2>2. \A k \in 1 .. Len(Tail(requests)) :
            k + 1 \in 1 .. Len(requests) /\ k + 1 # 1 /\ 1 \in 1 .. Len(requests)
      BY <2>1
    <2>3. \A k, l \in 1 .. Len(requests) : requests[k] = requests[l] => k = l
      BY Zenon DEF FilesInv, QueueInv
    <2>4. \A k, l \in 1 .. Len(Tail(requests)) : Tail(requests)[k] = Tail(requests)[l] => k = l
      BY <2>1, <2>3
    <2>5. ASSUME NEW k \in 1 .. Len(Tail(requests))
          PROVE  Tail(requests)[k] \in Clients \ {c} /\ Pending(Tail(requests)[k])
      <3>1. Tail(requests)[k] = requests[k + 1] /\ Tail(requests)[k] \in Clients
        BY <2>1, ElementOfSeq
      <3>2. requests[k + 1] # requests[1]
        BY <2>2, <2>3, Zenon
      <3>3. Pending(requests[k + 1])
        BY <2>2, Zenon DEF FilesInv, QueueInv
      <3>4. QED BY <1>1, <3>1, <3>2, <3>3
    <2>6. \A x \in Clients \ {c} : Pending(x) => Pending(x)'
      BY <1>3, <1>5 DEF Pending
    <2>7. QED BY <1>3, <2>1, <2>4, <2>5, <2>6 DEF QueueInv
  <1>11. QED BY <1>1, <1>6, <1>7, <1>8, <1>9, <1>10, Zenon DEF FilesInv

-----------------------------------------------------------------------------
(* The host's five operations.  Each either raises, on what can not be done, *)
(* or answers, and then it is the service's operation.                     *)

Done(c, Operation) ==
  \/ Raise /\ Impossible(data[c])
  \/ Operation /\ \E ret, new : Answers(c, ret, new)

(* What the host has before it when it serves.                             *)
Served(c, d) ==
  /\ FilesInv /\ requests # << >> /\ c = Head(requests) /\ d = data[c]
  /\ WellTyped(d) /\ Understood(d, host_data[c].bytes)

(* The open files are files of the disk, with an offset.                   *)
LEMMA OpenFile ==
  ASSUME FilesInv, NEW file \in DOMAIN files
  PROVE  /\ files \in [DOMAIN files -> [path : DOMAIN disk, pos : Nat]]
         /\ file \in 0 .. MaxFd /\ files[file] \in [path : DOMAIN disk, pos : Nat]
         /\ files[file].path \in DOMAIN disk /\ files[file].pos \in Nat
         /\ InFile(file) \in Seq(0 .. Base - 1) /\ Len(InFile(file)) \in 0 .. Pow(4) \div 2 - 1
         /\ \A pos \in Nat : Moved(file, pos) \in OpenFiles
         /\ Moved(file, files[file].pos) = files
  <1>1. PICK D \in SUBSET (0 .. MaxFd) : files \in [D -> [path : DOMAIN disk, pos : Nat]]
    BY Zenon DEF FilesInv, HostInv, OpenFiles
  <1>2. D = DOMAIN files
    BY <1>1
  <1>3. files[file] \in [path : DOMAIN disk, pos : Nat] /\ file \in 0 .. MaxFd
    BY <1>1, <1>2
  <1>4. files[file].path \in DOMAIN disk /\ files[file].pos \in Nat
    BY <1>3
  <1>5. InFile(file) \in Seq(0 .. Base - 1) /\ Len(InFile(file)) < Pow(4) \div 2
    BY <1>4, Zenon DEF FilesInv, HostInv, Sound, InFile
  <1>6. Len(InFile(file)) \in 0 .. Pow(4) \div 2 - 1
    <2>1. PICK h \in Int : h = Pow(4) \div 2
      BY Powers, Division
    <2>2. PICK l \in Nat : l = Len(InFile(file))
      BY <1>5, LenProperties
    <2>3. l \in 0 .. h - 1
      BY <1>5, <2>1, <2>2
    <2>4. QED BY <2>1, <2>2, <2>3, Zenon
  <1>7. ASSUME NEW pos \in Nat PROVE Moved(file, pos) \in OpenFiles
    <2>1. Moved(file, pos) \in [D -> [path : DOMAIN disk, pos : Nat]]
      BY <1>1, <1>2 DEF Moved
    <2>2. QED BY <2>1, Zenon DEF OpenFiles
  <1>8. Moved(file, files[file].pos) = files
    BY <1>1, <1>2, <1>3 DEF Moved
  <1>9. QED BY <1>1, <1>2, <1>3, <1>4, <1>5, <1>6, <1>7, <1>8, Zenon

(* The answers that are numbers.                                           *)
LEMMA NumberAnswers ==
  \A n \in Int32 : /\ Signed(Bytes(4, n)) = n /\ Bytes(4, n) # Nothing
  <1>1. \A n \in Int32 : n \in Int
    BY DEF Int32
  <1>2. QED BY <1>1, BytesAre, SignedBytes, FilesAssumption

(* Opening gives a descriptor that is free, at the start of the file       *)
(* (main.py:110-119).                                                      *)
LEMMA HostOpenDone ==
  ASSUME NEW c \in Clients, NEW d, Served(c, d), d.op = "open", HostOpen(c, host_data[c].bytes)
  PROVE  Done(c, Service!Open(c, d))
  <1>1. SubSeq(host_data[c].bytes, 2, 1 + Unsigned(SubSeq(host_data[c].bytes, 1, 1))) = d.path
    BY DEF Served, Understood
  <1>2. CASE d.path \notin DOMAIN disk \/ AllInUse
    BY <1>1, <1>2 DEF Done, HostOpen, Impossible, Served
  <1>3. CASE ~ (d.path \notin DOMAIN disk \/ AllInUse)
    <2>1. PICK file \in 0 .. MaxFd \ DOMAIN files :
            Reply(c, Bytes(4, file),
                  [x \in DOMAIN files \cup {file} |-> IF x = file THEN [path |-> d.path, pos |-> 0]
                                                    ELSE files[x]])
      BY <1>1, <1>3, Zenon DEF HostOpen
    <2> DEFINE new == [x \in DOMAIN files \cup {file} |-> IF x = file THEN [path |-> d.path, pos |-> 0]
                                                         ELSE files[x]]
    <2>2. file \in Int32
      <3>1. PICK h \in Int, p \in Int : h = Pow(4) \div 2 /\ p = Pow(4) /\ p - h >= 0
        <4>1. PICK p \in Nat : p = Pow(4)
          BY Powers
        <4>2. p \div 2 \in Int /\ p - (p \div 2) >= 0
          OBVIOUS
        <4>3. QED BY <4>1, <4>2
      <3>2. file \in -(p - h) .. h - 1
        BY <3>1, FilesAssumption, SMTT(30)
      <3>3. QED BY <3>1, <3>2, Zenon DEF Int32
    <2>3. Signed(Bytes(4, file)) = file /\ Bytes(4, file) # Nothing
      BY <2>2, NumberAnswers
    <2>4. new \in OpenFiles
      <3>1. PICK D \in SUBSET (0 .. MaxFd) : files \in [D -> [path : DOMAIN disk, pos : Nat]]
        BY Zenon DEF Served, FilesInv, HostInv, OpenFiles
      <3>2. D = DOMAIN files /\ D \cup {file} \in SUBSET (0 .. MaxFd)
        BY <3>1
      <3>3. [path |-> d.path, pos |-> 0] \in [path : DOMAIN disk, pos : Nat]
        BY <1>3
      <3>4. new \in [D \cup {file} -> [path : DOMAIN disk, pos : Nat]]
        BY <3>1, <3>2, <3>3
      <3>5. QED BY <3>2, <3>4, Zenon DEF OpenFiles
    <2>5. fs_result(data[c], Bytes(4, file)) # Nothing
      BY <2>3, FilesAssumption DEF fs_result, Served
    <2>6. Answers(c, Bytes(4, file), new)
      BY <2>1, <2>3, <2>4, <2>5, Zenon DEF Answers
    <2>7. Results' = [Results EXCEPT ![c] = fs_result(d, Bytes(4, file))]
      BY <2>6, AnswerAdds DEF Served
    <2>8. fs_result(d, Bytes(4, file)) = file
      BY <2>3 DEF fs_result
    <2>9. files' = Service!With(files, file, [path |-> d.path, pos |-> 0])
      BY <2>1 DEF Reply, Service!With
    <2>10. Service!Answer(c, file)
      BY <2>7, <2>8 DEF Service!Answer, Results
    <2>11. Service!Open(c, d)
      BY <1>3, <2>9, <2>10, Zenon DEF Service!Open
    <2>12. QED BY <2>6, <2>11 DEF Done
  <1>4. QED BY <1>2, <1>3

(* Closing forgets the descriptor (main.py:121-125).                       *)
LEMMA HostCloseDone ==
  ASSUME NEW c \in Clients, NEW d, Served(c, d), d.op = "close", HostClose(c, host_data[c].bytes)
  PROVE  Done(c, Service!Close(c, d))
  <1>1. fd_of(host_data[c].bytes) = d.fd
    BY DEF Served, Understood
  <1>2. CASE d.fd \notin DOMAIN files
    BY <1>1, <1>2 DEF Done, HostClose, Impossible, Served
  <1>3. CASE d.fd \in DOMAIN files
    <2> DEFINE new == [x \in DOMAIN files \ {d.fd} |-> files[x]]
    <2>1. Reply(c, << >>, new)
      BY <1>1, <1>3, Zenon DEF HostClose
    <2>2. new \in OpenFiles
      <3>1. PICK D \in SUBSET (0 .. MaxFd) : files \in [D -> [path : DOMAIN disk, pos : Nat]]
        BY Zenon DEF Served, FilesInv, HostInv, OpenFiles
      <3>2. D = DOMAIN files /\ D \ {d.fd} \in SUBSET (0 .. MaxFd)
        BY <3>1
      <3>3. new \in [D \ {d.fd} -> [path : DOMAIN disk, pos : Nat]]
        BY <3>1, <3>2
      <3>4. QED BY <3>2, <3>3, Zenon DEF OpenFiles
    <2>3. << >> # Nothing
      BY FilesAssumption, EmptySeq
    <2>4. fs_result(data[c], << >>) # Nothing
      BY FilesAssumption DEF fs_result, Served
    <2>5. Answers(c, << >>, new)
      BY <2>1, <2>2, <2>3, <2>4, Zenon DEF Answers
    <2>6. Results' = [Results EXCEPT ![c] = fs_result(d, << >>)]
      BY <2>5, AnswerAdds DEF Served
    <2>7. fs_result(d, << >>) = "closed"
      BY DEF fs_result
    <2>8. files' = Service!Without(files, d.fd)
      BY <2>1 DEF Reply, Service!Without
    <2>9. Service!Answer(c, "closed")
      BY <2>6, <2>7 DEF Service!Answer, Results
    <2>10. Service!Close(c, d)
      BY <1>3, <2>8, <2>9, Zenon DEF Service!Close
    <2>11. QED BY <2>5, <2>10 DEF Done
  <1>4. QED BY <1>2, <1>3

(* The size is found by going to the end and back: no file moves           *)
(* (main.py:127-135).                                                      *)
LEMMA HostSizeDone ==
  ASSUME NEW c \in Clients, NEW d, Served(c, d), d.op = "size", HostSize(c, host_data[c].bytes)
  PROVE  Done(c, Service!Size(c, d))
  <1>1. fd_of(host_data[c].bytes) = d.fd
    BY DEF Served, Understood
  <1>2. CASE d.fd \notin DOMAIN files
    BY <1>1, <1>2 DEF Done, HostSize, Impossible, Served
  <1>3. CASE d.fd \in DOMAIN files
    <2> DEFINE n == Len(InFile(d.fd))
    <2>1. Reply(c, Bytes(4, n), Moved(d.fd, files[d.fd].pos))
      BY <1>1, <1>3, Zenon DEF HostSize, offset_restored
    <2>2. FilesInv
      BY DEF Served
    <2>3. /\ n \in 0 .. Pow(4) \div 2 - 1 /\ Moved(d.fd, files[d.fd].pos) = files
      BY <1>3, <2>2, OpenFile
    <2>4. n \in Int32
      <3>1. PICK p \in Nat : p = Pow(4)
        BY Powers
      <3>2. p \div 2 \in Int /\ p - (p \div 2) >= 0
        OBVIOUS
      <3>3. n \in -(p - (p \div 2)) .. (p \div 2) - 1
        BY <2>3, <3>1, <3>2
      <3>4. QED BY <3>1, <3>3, Zenon DEF Int32
    <2>5. Signed(Bytes(4, n)) = n /\ Bytes(4, n) # Nothing
      BY <2>4, NumberAnswers
    <2>6. files \in OpenFiles /\ Reply(c, Bytes(4, n), files)
      BY <2>1, <2>2, <2>3, Zenon DEF FilesInv, HostInv
    <2>7. fs_result(data[c], Bytes(4, n)) # Nothing
      <3>1. fs_result(data[c], Bytes(4, n)) = n
        BY <2>5 DEF fs_result, Served
      <3>2. n \in Int
        BY <2>4 DEF Int32
      <3>3. QED BY <3>1, <3>2, FilesAssumption, Zenon
    <2>8. Answers(c, Bytes(4, n), files)
      BY <2>5, <2>6, <2>7, Zenon DEF Answers
    <2>9. Results' = [Results EXCEPT ![c] = fs_result(d, Bytes(4, n))]
      BY <2>8, AnswerAdds DEF Served
    <2>10. fs_result(d, Bytes(4, n)) = n
      BY <2>5 DEF fs_result
    <2>11. files' = files
      BY <2>6 DEF Reply
    <2>12. Service!Answer(c, n) /\ n = Len(Service!At(d.fd))
      BY <2>9, <2>10 DEF Service!Answer, Results, Service!At, InFile
    <2>13. Service!Size(c, d)
      BY <1>3, <2>11, <2>12, Zenon DEF Service!Size
    <2>14. QED BY <2>8, <2>13 DEF Done
  <1>4. QED BY <1>2, <1>3

(* A read that the host can answer finds as many bytes as it asked for.    *)
LEMMA HostReadDone ==
  ASSUME NEW c \in Clients, NEW d, Served(c, d), d.op = "read", HostRead(c, host_data[c].bytes)
  PROVE  Done(c, Service!Read(c, d))
  <1>1. fd_of(host_data[c].bytes) = d.fd /\ n_of(host_data[c].bytes) = d.n
    BY DEF Served, Understood
  <1>2. CASE d.fd \notin DOMAIN files
    BY <1>1, <1>2 DEF Done, HostRead, Impossible, Served
  <1>3. CASE d.fd \in DOMAIN files
    <2>1. FilesInv
      BY DEF Served
    <2>2. PICK size \in Nat, pos \in Nat, n \in Int :
            size = Len(InFile(d.fd)) /\ pos = files[d.fd].pos /\ n = d.n
      <3>1. d.n \in Int
        BY DEF Served, WellTyped, Int32
      <3>2. Len(InFile(d.fd)) \in Nat /\ files[d.fd].pos \in Nat
        BY <1>3, <2>1, OpenFile, LenProperties
      <3>3. QED BY <3>1, <3>2
    <2>3. PICK rest \in Nat : rest = Rest(d.fd) /\ rest = IF pos < size THEN size - pos ELSE 0
      BY <2>2 DEF Rest
    <2>4. PICK got \in Int : got = IF n < 0 \/ n > rest THEN rest ELSE n
      OBVIOUS
    <2>5. IF got # n \/ got >= Base THEN Raise
          ELSE Reply(c, SubSeq(InFile(d.fd), pos + 1, pos + got), Moved(d.fd, pos + got))
      BY <1>1, <1>3, <2>2, <2>3, <2>4 DEF HostRead
    <2>6. CASE got # n \/ got >= Base
      <3>1. n \notin 0 .. rest \/ n >= Base
        BY <2>4, <2>6
      <3>2. Impossible(d)
        BY <1>3, <2>2, <2>3, <3>1 DEF Impossible
      <3>3. QED BY <2>5, <2>6, <3>2 DEF Done, Served
    <2>7. CASE ~ (got # n \/ got >= Base)
      <3> DEFINE ret == SubSeq(InFile(d.fd), pos + 1, pos + n)
      <3>1. got = n /\ n \in 0 .. rest
        BY <2>4, <2>7
      <3>2. Reply(c, ret, Moved(d.fd, pos + n))
        BY <2>5, <2>7, <3>1, Zenon
      <3>3. ret \in Seq(0 .. Base - 1) /\ Len(ret) = n
        <4>1. InFile(d.fd) \in Seq(0 .. Base - 1)
          BY <1>3, <2>1, OpenFile
        <4>2. \A k \in pos + 1 .. pos + n : k \in 1 .. Len(InFile(d.fd))
          BY <2>2, <2>3, <3>1, SMTT(30)
        <4>3. \A k \in pos + 1 .. pos + n : InFile(d.fd)[k] \in 0 .. Base - 1
          BY <4>1, <4>2, ElementOfSeq
        <4>4. pos + 1 \in Int /\ pos + n \in Int
          OBVIOUS
        <4>5. /\ ret \in Seq(0 .. Base - 1)
              /\ Len(ret) = IF pos + 1 <= pos + n THEN (pos + n) - (pos + 1) + 1 ELSE 0
          BY <4>3, <4>4, SubSeqProperties
        <4>6. QED BY <4>5, <3>1
      <3>4. pos + n \in Nat /\ ret # Nothing
        <4>1. pos + n \in Nat
          BY <3>1
        <4>2. QED BY <4>1, <3>3, FilesAssumption, Zenon
      <3>5. Moved(d.fd, pos + n) \in OpenFiles
        BY <1>3, <2>1, <3>4, OpenFile
      <3>6. fs_result(d, ret) = ret
        <4>1. SubSeq(ret, 1, n) = ret
          BY <3>3, SubSeqFull
        <4>2. fs_result(d, ret) = SubSeq(ret, 1, d.n)
          BY DEF fs_result
        <4>3. QED BY <2>2, <4>1, <4>2, Zenon
      <3>7. Answers(c, ret, Moved(d.fd, pos + n))
        BY <3>2, <3>4, <3>5, <3>6, Zenon DEF Answers, Served
      <3>8. Results' = [Results EXCEPT ![c] = fs_result(d, ret)]
        BY <3>7, AnswerAdds DEF Served
      <3>9. files' = [files EXCEPT ![d.fd].pos = @ + d.n]
        BY <2>2, <3>2 DEF Reply, Moved
      <3>10. /\ Service!Answer(c, ret)
             /\ ret = SubSeq(Service!At(d.fd), files[d.fd].pos + 1, files[d.fd].pos + d.n)
        BY <2>2, <3>6, <3>8, Zenon DEF Service!Answer, Results, Service!At, InFile
      <3>11. d.n \in 0 .. Service!Left(d.fd)
        <4>1. Service!Left(d.fd) = IF pos > size THEN 0 ELSE size - pos
          BY <2>2, Zenon DEF Service!Left, Service!At, InFile
        <4>2. QED BY <2>2, <2>3, <3>1, <4>1
      <3>12. Service!Read(c, d)
        BY <1>3, <3>9, <3>10, <3>11, Zenon DEF Service!Read
      <3>13. QED BY <3>7, <3>12 DEF Done
    <2>8. QED BY <2>6, <2>7
  <1>4. QED BY <1>2, <1>3

(* A seek goes to the place asked for, unless it is before the start       *)
(* (main.py:148-156).                                                      *)
LEMMA HostSeekDone ==
  ASSUME NEW c \in Clients, NEW d, Served(c, d), d.op = "seek", HostSeek(c, host_data[c].bytes)
  PROVE  Done(c, Service!Seek(c, d))
  <1>1. /\ fd_of(host_data[c].bytes) = d.fd /\ n_of(host_data[c].bytes) = d.n
        /\ Unsigned(SubSeq(host_data[c].bytes, 9, 9)) = d.whence
    BY DEF Served, Understood
  <1>2. CASE d.fd \notin DOMAIN files
    BY <1>1, <1>2 DEF Done, HostSeek, Impossible, Served
  <1>3. CASE d.fd \in DOMAIN files
    <2>1. FilesInv
      BY DEF Served
    <2>2. d.whence \in 0 .. 2 /\ d.n \in Int
      BY DEF Served, WellTyped, Int32
    <2>3. PICK size \in Nat, pos \in Nat, n \in Int :
            size = Len(InFile(d.fd)) /\ pos = files[d.fd].pos /\ n = d.n
      <3>1. Len(InFile(d.fd)) \in Nat /\ files[d.fd].pos \in Nat
        BY <1>3, <2>1, OpenFile, LenProperties
      <3>2. QED BY <2>2, <3>1
    <2>4. PICK target \in Int : /\ target = SeekTarget(d.fd, d.n, d.whence)
                                /\ target = Service!Target(d)
                                /\ (target < 0 => Impossible(d))
      <3>1. CASE d.whence = 0
        <4>1. SeekTarget(d.fd, d.n, d.whence) = n + 0 /\ Service!Target(d) = n + 0
          BY <2>3, <3>1 DEF SeekTarget, Service!Target
        <4>2. n + 0 < 0 => Impossible(d)
          BY <1>3, <2>3, <3>1 DEF Impossible
        <4>3. QED BY <4>1, <4>2
      <3>2. CASE d.whence = 1
        <4>1. SeekTarget(d.fd, d.n, d.whence) = n + pos /\ Service!Target(d) = n + pos
          BY <2>3, <3>2 DEF SeekTarget, Service!Target
        <4>2. n + pos < 0 => Impossible(d)
          BY <1>3, <2>3, <3>2 DEF Impossible
        <4>3. QED BY <4>1, <4>2
      <3>3. CASE d.whence = 2
        <4>1. SeekTarget(d.fd, d.n, d.whence) = n + size /\ Service!Target(d) = n + size
          BY <2>3, <3>3 DEF SeekTarget, Service!Target, Service!At, InFile
        <4>2. n + size < 0 => Impossible(d)
          BY <1>3, <2>3, <3>3 DEF Impossible
        <4>3. QED BY <4>1, <4>2
      <3>4. QED BY <2>2, <3>1, <3>2, <3>3
    <2>5. IF target < 0 THEN Raise ELSE Reply(c, << >>, Moved(d.fd, target))
      <3>1. IF d.whence > 2 \/ SeekTarget(d.fd, d.n, d.whence) < 0 THEN Raise
            ELSE Reply(c, << >>, Moved(d.fd, SeekTarget(d.fd, d.n, d.whence)))
        BY <1>1, <1>3, Zenon DEF HostSeek
      <3>2. ~ (d.whence > 2)
        BY <2>2
      <3>3. QED BY <2>4, <3>1, <3>2, Zenon
    <2>6. CASE target < 0
      BY <2>4, <2>5, <2>6 DEF Done, Served
    <2>7. CASE target >= 0
      <3>1. Reply(c, << >>, Moved(d.fd, target)) /\ target \in Nat
        BY <2>5, <2>7
      <3>2. Moved(d.fd, target) \in OpenFiles
        BY <1>3, <2>1, <3>1, OpenFile
      <3>3. << >> # Nothing
        BY FilesAssumption, EmptySeq
      <3>4. fs_result(data[c], << >>) # Nothing
        BY FilesAssumption DEF fs_result, Served
      <3>5. Answers(c, << >>, Moved(d.fd, target))
        BY <3>1, <3>2, <3>3, <3>4, Zenon DEF Answers
      <3>6. Results' = [Results EXCEPT ![c] = fs_result(d, << >>)]
        BY <3>5, AnswerAdds DEF Served
      <3>7. fs_result(d, << >>) = "moved"
        BY DEF fs_result
      <3>8. files' = [files EXCEPT ![d.fd].pos = target]
        BY <3>1 DEF Reply, Moved
      <3>9. Service!Answer(c, "moved")
        BY <3>6, <3>7 DEF Service!Answer, Results
      <3>10. Service!Seek(c, d)
        BY <1>3, <2>4, <2>7, <3>8, <3>9 DEF Service!Seek
      <3>11. QED BY <3>5, <3>10 DEF Done
    <2>8. QED BY <2>6, <2>7
  <1>4. QED BY <1>2, <1>3

-----------------------------------------------------------------------------
(* The steps. *)

(* What the host does with the first request.                              *)
LEMMA HostServesDone ==
  ASSUME FilesInv, HostServes
  PROVE  /\ requests # << >> /\ Head(requests) \in Clients
         /\ \/ Raise /\ Impossible(data[Head(requests)])
            \/ /\ Service!Perform(Head(requests))
               /\ \E ret, new : Answers(Head(requests), ret, new)
  <1>1. requests # << >>
    BY DEF HostServes
  <1>2. PICK c \in Clients : c = Head(requests) /\ c = requests[1]
    BY <1>1, HeadTailProperties DEF FilesInv, QueueInv
  <1>3. Pending(c)
    <2>1. 1 \in 1 .. Len(requests)
      BY <1>1, LenProperties, EmptySeq DEF FilesInv, QueueInv
    <2>2. QED BY <1>2, <2>1, Zenon DEF FilesInv, QueueInv
  <1>4. PICK d \in Ops : d = data[c] /\ host_data[c] = Call(d, Nothing)
    <2>1. data[c] \in Ops
      BY <1>3, Zenon DEF FilesInv, CallsInv, Pending
    <2>2. QED BY <1>3, <2>1, Zenon DEF FilesInv, CallsInv, Pending
  <1>5. host_data[c].bytes = Packed(d) /\ host_data[c].code = CodeOf[d.op]
    BY <1>4 DEF Call
  <1>6. WellTyped(d) /\ Understood(d, host_data[c].bytes)
    BY <1>5, FilesAssumption, Unpacked, Zenon
  <1>7. Served(c, d)
    BY <1>1, <1>2, <1>4, <1>6, Zenon DEF Served
  <1>8. Service!Perform(c) <=>
          /\ data[c] # Nothing /\ Results[c] = Nothing
          /\ \/ Service!Open(c, d) \/ Service!Close(c, d) \/ Service!Size(c, d)
             \/ Service!Read(c, d) \/ Service!Seek(c, d)
          /\ disk' = disk /\ data' = data
    BY <1>4 DEF Service!Perform, Results
  <1>9. \/ Done(c, Service!Open(c, d)) \/ Done(c, Service!Close(c, d))
        \/ Done(c, Service!Size(c, d)) \/ Done(c, Service!Read(c, d))
        \/ Done(c, Service!Seek(c, d))
    <2> DEFINE b == host_data[c].bytes
    <2>1. \/ (CodeOf[d.op] = 4 /\ HostOpen(c, b)) \/ (CodeOf[d.op] = 5 /\ HostClose(c, b))
          \/ (CodeOf[d.op] = 6 /\ HostSize(c, b)) \/ (CodeOf[d.op] = 7 /\ HostRead(c, b))
          \/ (CodeOf[d.op] = 8 /\ HostSeek(c, b))
      BY <1>2, <1>5, Zenon DEF HostServes
    <2>2. d.op \in {"open", "close", "size", "read", "seek"}
      BY <1>6 DEF Understood
    <2>3. /\ CodeOf["open"] = 4 /\ CodeOf["close"] = 5 /\ CodeOf["size"] = 6
          /\ CodeOf["read"] = 7 /\ CodeOf["seek"] = 8
      BY DEF CodeOf
    <2>4. \/ (d.op = "open" /\ HostOpen(c, b)) \/ (d.op = "close" /\ HostClose(c, b))
          \/ (d.op = "size" /\ HostSize(c, b)) \/ (d.op = "read" /\ HostRead(c, b))
          \/ (d.op = "seek" /\ HostSeek(c, b))
      BY <2>1, <2>2, <2>3
    <2>5. QED BY <1>7, <2>4, HostOpenDone, HostCloseDone, HostSizeDone, HostReadDone, HostSeekDone
  <1>10. CASE Raise /\ Impossible(data[c])
    BY <1>1, <1>2, <1>10, Zenon
  <1>11. CASE \E ret, new : Answers(c, ret, new)
    <2>1. PICK ret, new : Answers(c, ret, new)
      BY <1>11
    <2>2. Results[c] = Nothing
      BY <1>1, <1>2, <2>1, AnswerAdds
    <2>3. disk' = disk /\ data' = data
      BY <2>1 DEF Answers, Reply
    <2>4. CASE Raise /\ Impossible(data[c])
      BY <1>10, <2>4
    <2>5. CASE \/ Service!Open(c, d) \/ Service!Close(c, d) \/ Service!Size(c, d)
               \/ Service!Read(c, d) \/ Service!Seek(c, d)
      BY <1>1, <1>2, <1>3, <1>8, <1>11, <2>2, <2>3, <2>5, Zenon DEF Pending
    <2>6. QED BY <1>9, <2>4, <2>5, Zenon DEF Done
  <1>12. QED BY <1>9, <1>10, <1>11, Zenon DEF Done

(* A call is asked for, and waits behind those before it.                  *)
LEMMA CallAsks ==
  ASSUME FilesInv, NEW c \in Clients, NEW d \in Ops, fs_call(c, d)
  PROVE  /\ FilesInv' /\ Service!Ask(c, d)
         /\ requests # << >> => /\ requests' # << >> /\ Head(requests') = Head(requests)
                                /\ data'[Head(requests)] = data[Head(requests)]
  <1>1. /\ data[c] = Nothing /\ data' = [data EXCEPT ![c] = d] /\ requests' = Append(requests, c)
        /\ host_data' = [host_data EXCEPT ![c] = Call(d, Nothing)]
        /\ disk' = disk /\ files' = files /\ host_up' = host_up
    BY DEF fs_call, Call
  <1>2. d # Nothing
    BY FilesAssumption
  <1>3. /\ data' \in [Clients -> Ops \cup {Nothing}] /\ data'[c] = d
        /\ \A x \in Clients \ {c} : data'[x] = data[x]
    BY <1>1 DEF FilesInv, CallsInv
  <1>4. /\ host_data' = [x \in Clients |-> host_data'[x]] /\ host_data'[c] = Call(d, Nothing)
        /\ \A x \in Clients \ {c} : host_data'[x] = host_data[x]
    <2>1. host_data = [x \in Clients |-> host_data[x]]
      BY Zenon DEF FilesInv, CallsInv
    <2>2. QED BY <1>1, <2>1
  <1>5. Call(d, Nothing).ret = Nothing
    BY DEF Call
  <1>6. HostInv'
    BY <1>1 DEF FilesInv, HostInv, OpenFiles
  <1>7. Results' = Results /\ \A x \in Clients : Answered(x)' => Results'[x] # Nothing
    <2>1. \A x \in Clients \ {c} : Answered(x)' = Answered(x)
      BY <1>3, <1>4 DEF Answered
    <2>2. ~ Answered(c) /\ ~ Answered(c)'
      BY <1>1, <1>4, <1>5 DEF Answered
    <2>3. \A x \in Clients \ {c} :
            fs_result(data[x], host_data[x].ret)' = fs_result(data[x], host_data[x].ret)
      BY <1>3, <1>4, Zenon DEF fs_result
    <2>4. \A x \in Clients : Results'[x] = Results[x]
      BY <2>1, <2>2, <2>3 DEF Results
    <2>5. Results' = Results
      BY <2>4 DEF Results
    <2>6. QED BY <2>1, <2>2, <2>5, Zenon DEF FilesInv, CallsInv
  <1>8. /\ Append(requests, c) \in Seq(Clients) /\ Append(requests, c) # << >>
        /\ Len(Append(requests, c)) = Len(requests) + 1 /\ Len(requests) \in Nat
        /\ \A k \in 1 .. Len(requests) : Append(requests, c)[k] = requests[k]
        /\ Append(requests, c)[Len(requests) + 1] = c
    BY AppendProperties, LenProperties DEF FilesInv, QueueInv
  <1>9. \A k \in 1 .. Len(requests) : /\ requests[k] \in Clients \ {c} /\ Pending(requests[k])
    <2>1. ASSUME NEW k \in 1 .. Len(requests)
          PROVE  requests[k] \in Clients \ {c} /\ Pending(requests[k])
      <3>1. requests[k] \in Clients
        BY ElementOfSeq DEF FilesInv, QueueInv
      <3>2. Pending(requests[k])
        BY Zenon DEF FilesInv, QueueInv
      <3>3. QED BY <1>1, <3>1, <3>2 DEF Pending
    <2>2. QED BY <2>1
  <1>10. QueueInv'
    <2>1. \A k, l \in 1 .. Len(requests) : requests[k] = requests[l] => k = l
      BY Zenon DEF FilesInv, QueueInv
    <2>2. \A k, l \in 1 .. Len(requests) + 1 :
            Append(requests, c)[k] = Append(requests, c)[l] => k = l
      BY <1>8, <1>9, <2>1
    <2>3. \A x \in Clients \ {c} : Pending(x) => Pending(x)'
      BY <1>3, <1>4 DEF Pending
    <2>4. Pending(c)'
      BY <1>2, <1>3, <1>4, <1>5 DEF Pending
    <2>5. ASSUME NEW k \in 1 .. Len(requests) + 1 PROVE Pending(Append(requests, c)[k])'
      <3>1. CASE k = Len(requests) + 1
        BY <1>1, <1>8, <2>4, <3>1
      <3>2. CASE k # Len(requests) + 1
        <4>1. k \in 1 .. Len(requests)
          BY <1>8, <3>2
        <4>2. Append(requests, c)[k] = requests[k]
          BY <1>8, <4>1
        <4>3. Pending(requests[k]) /\ requests[k] \in Clients \ {c}
          BY <1>9, <4>1, Zenon
        <4>4. QED BY <1>3, <1>4, <1>1, <4>2, <4>3 DEF Pending
      <3>3. QED BY <3>1, <3>2
    <2>6. QED BY <1>1, <1>8, <2>2, <2>5, SMTT(30) DEF QueueInv
  <1>11. CallsInv'
    <2>1. \A x \in Clients : data'[x] # Nothing => host_data'[x] = Call(data'[x], host_data'[x].ret)
      BY <1>3, <1>4, <1>5 DEF FilesInv, CallsInv
    <2>2. (\A x \in Clients : data[x] # Nothing => host_data[x] = Call(data[x], host_data[x].ret))'
      BY <2>1 DEF Call, Packed, fs_open_bytes, fs_close_bytes, fs_size_bytes, fs_read_bytes,
                  fs_seek_bytes, CodeOf, Bytes, Pow
    <2>3. (\A x \in Clients : Answered(x) => Results[x] # Nothing)'
      BY <1>7, Zenon
    <2>4. QED BY <1>3, <1>4, <2>2, <2>3, Zenon DEF CallsInv
  <1>12. Service!Ask(c, d)
    BY <1>1, <1>7 DEF Service!Ask, Results
  <1>13. ASSUME requests # << >>
         PROVE  /\ requests' # << >> /\ Head(requests') = Head(requests)
                /\ data'[Head(requests)] = data[Head(requests)]
    <2>1. 1 \in 1 .. Len(requests) /\ Head(requests) = requests[1]
      BY <1>13, <1>8, EmptySeq, HeadTailProperties DEF FilesInv, QueueInv
    <2>2. Head(Append(requests, c)) = Append(requests, c)[1]
      OBVIOUS
    <2>3. requests[1] \in Clients \ {c} /\ Append(requests, c)[1] = requests[1]
      BY <1>8, <1>9, <2>1
    <2>4. data'[requests[1]] = data[requests[1]]
      BY <1>3, <2>3, Zenon
    <2>5. QED BY <1>1, <1>8, <2>1, <2>2, <2>3, <2>4, Zenon
  <1>14. QED BY <1>6, <1>10, <1>11, <1>12, <1>13, Zenon DEF FilesInv

(* A call returns, with the answer; nobody that waits is affected.         *)
LEMMA ReturnGives ==
  ASSUME FilesInv, NEW c \in Clients, fs_return(c)
  PROVE  /\ FilesInv' /\ Service!Return(c)
         /\ requests # << >> => data'[Head(requests)] = data[Head(requests)]
  <1>1. /\ Answered(c) /\ data' = [data EXCEPT ![c] = Nothing] /\ requests' = requests
        /\ host_data' = [host_data EXCEPT ![c] = Nothing]
        /\ disk' = disk /\ files' = files /\ host_up' = host_up
    BY DEF fs_return
  <1>2. /\ data' \in [Clients -> Ops \cup {Nothing}] /\ data'[c] = Nothing
        /\ \A x \in Clients \ {c} : data'[x] = data[x]
    BY <1>1 DEF FilesInv, CallsInv
  <1>3. /\ host_data' = [x \in Clients |-> host_data'[x]]
        /\ \A x \in Clients \ {c} : host_data'[x] = host_data[x]
    <2>1. host_data = [x \in Clients |-> host_data[x]]
      BY Zenon DEF FilesInv, CallsInv
    <2>2. QED BY <1>1, <2>1
  <1>4. HostInv'
    BY <1>1 DEF FilesInv, HostInv, OpenFiles
  <1>5. /\ Results' = [Results EXCEPT ![c] = Nothing]
        /\ \A x \in Clients : Answered(x)' => Results'[x] # Nothing
    <2>1. \A x \in Clients \ {c} : Answered(x)' = Answered(x)
      BY <1>2, <1>3 DEF Answered
    <2>2. ~ Answered(c)'
      BY <1>2 DEF Answered
    <2>3. \A x \in Clients \ {c} :
            fs_result(data[x], host_data[x].ret)' = fs_result(data[x], host_data[x].ret)
      BY <1>2, <1>3, Zenon DEF fs_result
    <2>4. \A x \in Clients : Results'[x] = [Results EXCEPT ![c] = Nothing][x]
      BY <2>1, <2>2, <2>3 DEF Results
    <2>5. Results' = [Results EXCEPT ![c] = Nothing]
      BY <2>4 DEF Results
    <2>6. QED BY <2>1, <2>2, <2>5 DEF FilesInv, CallsInv, Results
  <1>6. \A k \in 1 .. Len(requests) : requests[k] \in Clients \ {c} /\ Pending(requests[k])
    <2>1. ASSUME NEW k \in 1 .. Len(requests)
          PROVE  requests[k] \in Clients \ {c} /\ Pending(requests[k])
      <3>1. requests[k] \in Clients
        BY ElementOfSeq DEF FilesInv, QueueInv
      <3>2. Pending(requests[k])
        BY Zenon DEF FilesInv, QueueInv
      <3>3. QED BY <1>1, <3>1, <3>2 DEF Pending, Answered
    <2>2. QED BY <2>1
  <1>7. QueueInv'
    <2>1. ASSUME NEW k \in 1 .. Len(requests) PROVE Pending(requests[k])'
      BY <1>1, <1>2, <1>3, <1>6 DEF Pending
    <2>2. QED BY <1>1, <2>1 DEF FilesInv, QueueInv
  <1>8. CallsInv'
    <2>1. \A x \in Clients : data'[x] # Nothing => host_data'[x] = Call(data'[x], host_data'[x].ret)
      BY <1>2, <1>3 DEF FilesInv, CallsInv
    <2>2. (\A x \in Clients : data[x] # Nothing => host_data[x] = Call(data[x], host_data[x].ret))'
      BY <2>1 DEF Call, Packed, fs_open_bytes, fs_close_bytes, fs_size_bytes, fs_read_bytes,
                  fs_seek_bytes, CodeOf, Bytes, Pow
    <2>3. (\A x \in Clients : Answered(x) => Results[x] # Nothing)'
      BY <1>5, Zenon
    <2>4. QED BY <1>2, <1>3, <2>2, <2>3, Zenon DEF CallsInv
  <1>9. Results[c] # Nothing
    BY <1>1, Zenon DEF FilesInv, CallsInv
  <1>10. Service!Return(c)
    BY <1>1, <1>5, <1>9 DEF Service!Return, Results
  <1>11. requests # << >> => data'[Head(requests)] = data[Head(requests)]
    <2>1. ASSUME requests # << >> PROVE data'[Head(requests)] = data[Head(requests)]
      <3>1. 1 \in 1 .. Len(requests) /\ Head(requests) = requests[1]
        BY <2>1, EmptySeq, LenProperties DEF FilesInv, QueueInv
      <3>2. QED BY <1>2, <1>6, <3>1
    <2>2. QED BY <2>1
  <1>12. QED BY <1>4, <1>7, <1>8, <1>10, <1>11, Zenon DEF FilesInv

(* What can not be done stays so while the disk and the open files stay.   *)
LEMMA StillImpossible ==
  ASSUME disk' = disk, files' = files, requests' # << >>,
         data'[Head(requests')] = data[Head(requests)], Impossible(data[Head(requests)])
  PROVE  Impossible(data[Head(requests)])'
  BY Zenon DEF Impossible, AllInUse, Rest, InFile

(* A step that leaves the calls and the files alone is none of the service. *)
LEMMA NothingAsked ==
  ASSUME FilesInv, disk' = disk, files' = files, data' = data, requests' = requests,
         host_data' = host_data, host_up' \in BOOLEAN
  PROVE  FilesInv' /\ UNCHANGED Service!vars
  <1>1. HostInv'
    BY DEF FilesInv, HostInv, OpenFiles
  <1>2. Results' = Results /\ \A c \in Clients : Answered(c)' = Answered(c)
    <2>1. \A c \in Clients : Answered(c)' = Answered(c)
      BY DEF Answered
    <2>2. \A c \in Clients : fs_result(data[c], host_data[c].ret)' = fs_result(data[c], host_data[c].ret)
      BY Zenon DEF fs_result
    <2>3. \A c \in Clients : Results'[c] = Results[c]
      BY <2>1, <2>2 DEF Results
    <2>4. QED BY <2>1, <2>3 DEF Results
  <1>3. CallsInv'
    <2>1. \A c \in Clients : data'[c] # Nothing => host_data'[c] = Call(data'[c], host_data'[c].ret)
      BY Zenon DEF FilesInv, CallsInv
    <2>2. (\A c \in Clients : data[c] # Nothing => host_data[c] = Call(data[c], host_data[c].ret))'
      BY <2>1 DEF Call, Packed, fs_open_bytes, fs_close_bytes, fs_size_bytes, fs_read_bytes,
                  fs_seek_bytes, CodeOf, Bytes, Pow
    <2>3. (\A c \in Clients : Answered(c) => Results[c] # Nothing)'
      BY <1>2, Zenon DEF FilesInv, CallsInv
    <2>4. QED BY <2>2, <2>3, Zenon DEF FilesInv, CallsInv
  <1>4. QueueInv'
    BY DEF FilesInv, QueueInv, Pending
  <1>5. UNCHANGED Service!vars
    BY <1>2 DEF Service!vars, Results
  <1>6. QED BY <1>1, <1>3, <1>4, <1>5 DEF FilesInv

(* The invariant holds, and with it that the host dies for cause only.     *)
LEMMA FilesInvStep ==
  ASSUME FilesInv, HostDiesForCause, [Next]_vars
  PROVE  FilesInv' /\ HostDiesForCause' /\ [Service!Next]_(Service!vars)
  <1>1. CASE UNCHANGED vars
    <2>1. /\ disk' = disk /\ files' = files /\ data' = data /\ requests' = requests
          /\ host_data' = host_data /\ host_up' = host_up
      BY <1>1 DEF vars
    <2>2. FilesInv' /\ UNCHANGED Service!vars
      BY <2>1, NothingAsked DEF FilesInv, HostInv
    <2>3. HostDiesForCause'
      BY <2>1, StillImpossible DEF HostDiesForCause
    <2>4. QED BY <2>2, <2>3
  <1>2. CASE HostServes
    <2>1. /\ requests # << >> /\ Head(requests) \in Clients
          /\ \/ Raise /\ Impossible(data[Head(requests)])
             \/ /\ Service!Perform(Head(requests))
                /\ \E ret, new : Answers(Head(requests), ret, new)
      BY <1>2, HostServesDone
    <2>2. CASE Raise /\ Impossible(data[Head(requests)])
      <3>1. /\ disk' = disk /\ files' = files /\ data' = data /\ requests' = requests
            /\ host_data' = host_data /\ host_up' = FALSE
        BY <2>2 DEF Raise
      <3>2. FilesInv' /\ UNCHANGED Service!vars
        BY <3>1, NothingAsked
      <3>3. HostDiesForCause'
        BY <2>1, <2>2, <3>1, StillImpossible DEF HostDiesForCause
      <3>4. QED BY <3>2, <3>3
    <2>3. CASE /\ Service!Perform(Head(requests))
               /\ \E ret, new : Answers(Head(requests), ret, new)
      <3>1. PICK ret, new : Answers(Head(requests), ret, new)
        BY <2>3
      <3>2. FilesInv'
        BY <2>1, <3>1, AnswerAdds
      <3>3. host_up' = TRUE
        BY <1>2, <3>1 DEF HostServes, Answers, Reply, FilesInv, HostInv
      <3>4. Service!Next
        BY <2>1, <2>3 DEF Service!Next
      <3>5. QED BY <3>2, <3>3, <3>4 DEF HostDiesForCause
    <2>4. QED BY <2>1, <2>2, <2>3
  <1>3. ASSUME NEW c \in Clients, fs_return(c)
        PROVE  FilesInv' /\ HostDiesForCause' /\ Service!Next
    <2>1. /\ FilesInv' /\ Service!Return(c)
          /\ requests # << >> => data'[Head(requests)] = data[Head(requests)]
      BY <1>3, ReturnGives
    <2>2. disk' = disk /\ files' = files /\ requests' = requests /\ host_up' = host_up
      BY <1>3 DEF fs_return
    <2>3. HostDiesForCause'
      BY <2>1, <2>2, StillImpossible DEF HostDiesForCause
    <2>4. QED BY <2>1, <2>3 DEF Service!Next
  <1>4. ASSUME NEW c \in Clients, NEW d \in Ops, fs_call(c, d)
        PROVE  FilesInv' /\ HostDiesForCause' /\ Service!Next
    <2>1. /\ FilesInv' /\ Service!Ask(c, d)
          /\ requests # << >> => /\ requests' # << >> /\ Head(requests') = Head(requests)
                                 /\ data'[Head(requests)] = data[Head(requests)]
      BY <1>4, CallAsks
    <2>2. disk' = disk /\ files' = files /\ host_up' = host_up
      BY <1>4 DEF fs_call
    <2>3. HostDiesForCause'
      BY <2>1, <2>2, StillImpossible DEF HostDiesForCause
    <2>4. QED BY <2>1, <2>3 DEF Service!Next
  <1>5. QED BY <1>1, <1>2, <1>3, <1>4 DEF Next

(* It holds at first.                                                      *)
LEMMA FilesInvInit == FilesInit => FilesInv /\ HostDiesForCause /\ Service!Init
  <1> SUFFICES ASSUME FilesInit PROVE FilesInv /\ HostDiesForCause /\ Service!Init
    OBVIOUS
  <1>1. HostInv
    <2>1. files \in [{} -> [path : DOMAIN disk, pos : Nat]]
      BY DEF FilesInit
    <2>2. {} \in SUBSET (0 .. MaxFd)
      OBVIOUS
    <2>3. Sound(disk)
      BY FilesAssumption, Zenon DEF FilesInit, Sound
    <2>4. QED BY <2>1, <2>2, <2>3, Zenon DEF HostInv, OpenFiles, FilesInit
  <1>2. \A c \in Clients : data[c] = Nothing
    BY DEF FilesInit
  <1>3. CallsInv
    BY <1>2 DEF FilesInit, CallsInv, Answered
  <1>4. QueueInv
    BY DEF FilesInit, QueueInv
  <1>5. Results = [c \in Clients |-> Nothing]
    BY <1>2 DEF Results, Answered
  <1>6. Service!Init
    BY <1>5, Zenon DEF FilesInit, Service!Init, Results
  <1>7. HostDiesForCause
    BY DEF FilesInit, HostDiesForCause
  <1>8. QED BY <1>1, <1>3, <1>4, <1>6, <1>7 DEF FilesInv

(* What it says of the types.                                              *)
LEMMA InvIsTyped ==
  ASSUME FilesInv
  PROVE  TypeOK
  <1>1. \A file \in DOMAIN files : /\ file \in 0 .. MaxFd /\ files[file].path \in DOMAIN disk
                                 /\ files[file].pos \in Nat
    BY OpenFile
  <1>2. \A path \in DOMAIN disk : disk[path] \in Seq(0 .. Base - 1)
    BY Zenon DEF FilesInv, HostInv, Sound
  <1>3. QED BY <1>1, <1>2 DEF TypeOK, FilesInv, HostInv, CallsInv, QueueInv

(* Types: the open files are files of the disk, the requests are of the    *)
(* clients (fs.c, main.py:58-66).                                          *)
THEOREM FilesTyped == Spec => []TypeOK
  BY InvIsTyped, FilesInvInit, FilesInvStep, PTL DEF Spec

(* An exception ends the host only on a request that can not be carried    *)
(* out, whatever the clients ask for and in whatever order: the packing of *)
(* fs.c never makes a bad request of a good one (main.py:115-155).         *)
THEOREM HostDies == Spec => []HostDiesForCause
  BY FilesInvInit, FilesInvStep, PTL DEF Spec

(* fs.c, the bytes it sends and the host that unpacks them are together    *)
(* the file service: every operation is done to the file it was asked of,  *)
(* at one moment, and its caller gets what was found then (fs.c:12-87,     *)
(* main.py:110-156).                                                       *)
THEOREM FileServiceKept == Spec => ImplementsFileService
  BY FilesInvInit, FilesInvStep, PTL DEF Spec, ImplementsFileService, Service!Spec

-----------------------------------------------------------------------------
(* The order of the conversations. *)

\* A strict order in which any two of the numbers up to n compare.
Orders(R, n) ==
  /\ \A k \in 1 .. n : <<k, k>> \notin R
  /\ \A k, l, m \in 1 .. n : <<k, l>> \in R /\ <<l, m>> \in R => <<k, m>> \in R
  /\ \A k, l \in 1 .. n : k # l => <<k, l>> \in R \/ <<l, k>> \in R

Sorted(R, n, s) == s \in [1 .. n -> 1 .. n] /\ \A k, l \in 1 .. n : k < l => <<s[k], s[l]>> \in R

(* The numbers up to n + 1 can be sorted when those up to n are: the last  *)
(* goes before the first that it precedes.                                 *)
LEMMA SortedMore ==
  ASSUME NEW R, NEW n \in Nat, Orders(R, n + 1), NEW s, Sorted(R, n, s)
  PROVE  \E t : Sorted(R, n + 1, t)
  <1>1. PICK p \in 1 .. n + 1 : /\ \A k \in 1 .. p - 1 : <<s[k], n + 1>> \in R
                                /\ p <= n => <<n + 1, s[p]>> \in R
    <2> DEFINE T == {k \in 1 .. n : <<n + 1, s[k]>> \in R} \cup {n + 1}
    <2>0. T \in SUBSET Nat /\ T # {}
      OBVIOUS
    <2>1. PICK p \in T : \A k \in T : p <= k
      <3> HIDE DEF T
      <3>1. QED BY <2>0, NatHasLeast
    <2>2. ASSUME NEW k \in 1 .. p - 1 PROVE <<s[k], n + 1>> \in R
      <3>1. k \in 1 .. n /\ k \notin T
        BY <2>1
      <3>2. s[k] \in 1 .. n /\ <<n + 1, s[k]>> \notin R
        BY <3>1 DEF Sorted
      <3>3. QED BY <3>2 DEF Orders
    <2>3. QED BY <2>1, <2>2
  <1> DEFINE t == [k \in 1 .. n + 1 |-> IF k < p THEN s[k] ELSE IF k = p THEN n + 1 ELSE s[k - 1]]
  <1>2. t \in [1 .. n + 1 -> 1 .. n + 1]
    BY DEF Sorted
  <1>3. ASSUME NEW k \in 1 .. n + 1, NEW l \in 1 .. n + 1, k < l
        PROVE  <<t[k], t[l]>> \in R
    <2>1. CASE l < p
      <3>1. k \in 1 .. n /\ l \in 1 .. n
        BY <1>3, <2>1
      <3>2. t[k] = s[k] /\ t[l] = s[l]
        BY <1>3, <2>1
      <3>3. QED BY <1>3, <3>1, <3>2 DEF Sorted
    <2>2. CASE l = p
      <3>1. k \in 1 .. p - 1 /\ t[k] = s[k] /\ t[l] = n + 1
        BY <1>3, <2>2
      <3>2. QED BY <1>1, <3>1
    <2>3. CASE k = p
      <3>1. t[k] = n + 1 /\ t[l] = s[l - 1] /\ l - 1 \in 1 .. n /\ p \in 1 .. n
        BY <1>3, <2>3
      <3>2. <<n + 1, s[p]>> \in R /\ s[p] \in 1 .. n /\ s[l - 1] \in 1 .. n
        BY <1>1, <3>1 DEF Sorted
      <3>3. p = l - 1 \/ <<s[p], s[l - 1]>> \in R
        BY <1>3, <2>3, <3>1 DEF Sorted
      <3>4. QED BY <3>1, <3>2, <3>3 DEF Orders
    <2>4. CASE k # p /\ l > p
      <3> DEFINE h == IF k < p THEN k ELSE k - 1
      <3>1. h \in 1 .. n /\ l - 1 \in 1 .. n /\ h < l - 1
        BY <1>3, <2>4
      <3>2. t[k] = s[h] /\ t[l] = s[l - 1]
        BY <1>3, <2>4
      <3>3. <<s[h], s[l - 1]>> \in R
        BY <3>1 DEF Sorted
      <3>4. QED BY <3>2, <3>3
    <2>5. QED BY <2>1, <2>2, <2>3, <2>4
  <1>4. QED BY <1>2, <1>3 DEF Sorted

(* They can be sorted.                                                     *)
LEMMA CanBeSorted ==
  ASSUME NEW R, NEW n \in Nat, Orders(R, n)
  PROVE  \E s : Sorted(R, n, s)
  <1> DEFINE P == {m \in Nat : m <= n => \E s : Sorted(R, m, s)}
  <1>1. 0 \in P
    <2>1. Sorted(R, 0, [k \in 1 .. 0 |-> k])
      BY DEF Sorted
    <2>2. QED BY <2>1
  <1>2. ASSUME NEW m \in P PROVE m + 1 \in P
    <2>1. SUFFICES ASSUME m + 1 <= n PROVE \E s : Sorted(R, m + 1, s)
      OBVIOUS
    <2>2. PICK s : Sorted(R, m, s)
      BY <2>1
    <2>3. Orders(R, m + 1)
      <3>1. \A k \in 1 .. m + 1 : k \in 1 .. n
        BY <2>1
      <3>2. QED BY <3>1 DEF Orders
    <2>4. QED BY <2>2, <2>3, SortedMore
  <1>3. P = Nat
    <2> HIDE DEF P
    <2>1. P \in SUBSET Nat
      BY DEF P
    <2>2. QED BY <1>1, <1>2, <2>1, NatInducts
  <1>4. QED BY <1>3

(* What is sorted has every number once.                                   *)
LEMMA SortedIsComplete ==
  ASSUME NEW R, NEW n \in Nat, Orders(R, n), NEW s, Sorted(R, n, s), NEW x \in 1 .. n
  PROVE  \E k \in 1 .. n : s[k] = x
  <1>1. ASSUME NEW k \in 1 .. n, NEW l \in 1 .. n, s[k] = s[l] PROVE k = l
    <2>1. s[k] \in 1 .. n /\ (k < l => <<s[k], s[l]>> \in R) /\ (l < k => <<s[l], s[k]>> \in R)
      BY DEF Sorted
    <2>2. <<s[k], s[k]>> \notin R
      BY <2>1 DEF Orders
    <2>3. ~ (k < l) /\ ~ (l < k)
      BY <1>1, <2>1, <2>2
    <2>4. QED BY <2>3
  <1>2. s \in Injection(1 .. n, 1 .. n)
    BY <1>1 DEF Injection, IsInjective, Sorted
  <1>3. IsFiniteSet(1 .. n)
    BY FS_Interval
  <1>4. s \in Surjection(1 .. n, 1 .. n)
    BY <1>2, <1>3, FS_Injection
  <1>5. QED BY <1>4 DEF Surjection

(* Stamps of the same length are in a strict order.                        *)
LEMMA LaterOrders ==
  ASSUME NEW n \in Nat
  PROVE  LET Stamps == [1 .. n -> Nat] IN
         /\ \A s \in Stamps : ~ Later(s, s)
         /\ \A s, t, u \in Stamps : Later(s, t) /\ Later(t, u) => Later(s, u)
         /\ \A s, t \in Stamps : s # t => Later(s, t) \/ Later(t, s)
  <1> DEFINE Stamps == [1 .. n -> Nat]
  <1>1. \A s \in Stamps : DOMAIN s = 1 .. n /\ \A k \in 1 .. n : s[k] \in Nat
    OBVIOUS
  <1>2. ASSUME NEW s \in Stamps PROVE ~ Later(s, s)
    BY <1>1 DEF Later
  <1>3. ASSUME NEW s \in Stamps, NEW t \in Stamps, NEW u \in Stamps, Later(s, t), Later(t, u)
        PROVE  Later(s, u)
    <2>1. PICK k \in 1 .. n : s[k] > t[k] /\ \A m \in 1 .. k - 1 : s[m] = t[m]
      BY <1>1, <1>3 DEF Later
    <2>2. PICK l \in 1 .. n : t[l] > u[l] /\ \A m \in 1 .. l - 1 : t[m] = u[m]
      BY <1>1, <1>3 DEF Later
    <2>3. PICK h \in {k, l} : h <= k /\ h <= l
      OBVIOUS
    <2>4. h \in 1 .. n /\ s[h] \in Nat /\ t[h] \in Nat /\ u[h] \in Nat
      BY <1>1, <2>3
    <2>5. s[h] >= t[h] /\ t[h] >= u[h] /\ (s[h] > t[h] \/ t[h] > u[h])
      <3>1. CASE k < l
        <4>1. h = k /\ k \in 1 .. l - 1
          BY <2>3, <3>1
        <4>2. QED BY <2>1, <2>2, <2>4, <4>1
      <3>2. CASE l < k
        <4>1. h = l /\ l \in 1 .. k - 1
          BY <2>3, <3>2
        <4>2. QED BY <2>1, <2>2, <2>4, <4>1
      <3>3. CASE k = l
        BY <2>1, <2>2, <2>3, <2>4, <3>3
      <3>4. QED BY <3>1, <3>2, <3>3
    <2>6. \A m \in 1 .. h - 1 : m \in 1 .. k - 1 /\ m \in 1 .. l - 1
      BY <2>3, <2>4
    <2>7. \A m \in 1 .. h - 1 : s[m] = u[m]
      BY <2>1, <2>2, <2>6, Zenon
    <2>8. s[h] > u[h] /\ h \in DOMAIN s
      BY <1>1, <2>4, <2>5
    <2>9. QED BY <2>7, <2>8, Zenon DEF Later
  <1>4. ASSUME NEW s \in Stamps, NEW t \in Stamps, s # t PROVE Later(s, t) \/ Later(t, s)
    <2> DEFINE D == {k \in 1 .. n : s[k] # t[k]}
    <2>1. D \in SUBSET Nat /\ D # {}
      <3>1. (\A k \in 1 .. n : s[k] = t[k]) => s = t
        OBVIOUS
      <3>2. PICK k \in 1 .. n : s[k] # t[k]
        BY <1>4, <3>1
      <3>3. k \in D
        BY <3>2
      <3>4. D \in SUBSET Nat
        OBVIOUS
      <3> HIDE DEF D
      <3>5. QED BY <3>3, <3>4
    <2>2. PICK k \in D : \A l \in D : k <= l
      <3> HIDE DEF D
      <3>1. QED BY <2>1, NatHasLeast
    <2>3. \A l \in 1 .. k - 1 : s[l] = t[l]
      BY <2>2
    <2>4. k \in 1 .. n /\ (s[k] > t[k] \/ t[k] > s[k])
      BY <1>1, <2>2
    <2>5. QED BY <1>1, <2>3, <2>4 DEF Later
  <1>5. QED BY <1>2, <1>3, <1>4

\* What Before is of conversations whose stamps have the same length.
Precedes == {p \in (1 .. Len(shuffled)) \X (1 .. Len(shuffled)) : Before(p[1], p[2])}

(* Later conversations first, and those of the same time as they are.      *)
LEMMA BeforeOrders ==
  ASSUME NEW n \in Nat, NEW m \in Nat, Len(shuffled) = m, DOMAIN shuffled = 1 .. m,
         \A k \in 1 .. m : shuffled[k].stamp \in [1 .. n -> Nat]
  PROVE  Orders(Precedes, m)
  <1>1. \A k, l \in 1 .. m : <<k, l>> \in Precedes <=> Before(k, l)
    <2>1. ASSUME NEW k \in 1 .. m, NEW l \in 1 .. m PROVE <<k, l>> \in Precedes <=> Before(k, l)
      <3>1. <<k, l>>[1] = k /\ <<k, l>>[2] = l /\ <<k, l>> \in (1 .. m) \X (1 .. m)
        OBVIOUS
      <3>2. QED BY <3>1, Zenon DEF Precedes
    <2>2. QED BY <2>1
  <1> DEFINE st(k) == shuffled[k].stamp
             Stamps == [1 .. n -> Nat]
  <1>2. \A k, l \in 1 .. m : Before(k, l) <=> Later(st(k), st(l)) \/ (st(k) = st(l) /\ k < l)
    BY DEF Before
  <1>3. \A k \in 1 .. m : st(k) \in Stamps
    OBVIOUS
  <1>4. /\ \A s \in Stamps : ~ Later(s, s)
        /\ \A s, t, u \in Stamps : Later(s, t) /\ Later(t, u) => Later(s, u)
        /\ \A s, t \in Stamps : s # t => Later(s, t) \/ Later(t, s)
    BY LaterOrders
  <1> HIDE DEF st, Stamps
  <1>5. \A k \in 1 .. m : <<k, k>> \notin Precedes
    BY <1>1, <1>2, <1>3, <1>4
  <1>6. ASSUME NEW k \in 1 .. m, NEW l \in 1 .. m, NEW h \in 1 .. m, Before(k, l), Before(l, h)
        PROVE  Before(k, h)
    <2>1. st(k) \in Stamps /\ st(l) \in Stamps /\ st(h) \in Stamps
      BY <1>3
    <2>2. CASE Later(st(k), st(l)) /\ Later(st(l), st(h))
      BY <1>2, <1>4, <2>1, <2>2, Zenon
    <2>3. CASE Later(st(k), st(l)) /\ st(l) = st(h)
      BY <1>2, <2>3, Zenon
    <2>4. CASE st(k) = st(l) /\ Later(st(l), st(h))
      BY <1>2, <2>4, Zenon
    <2>5. CASE st(k) = st(l) /\ k < l /\ st(l) = st(h) /\ l < h
      BY <1>2, <2>5
    <2>6. QED BY <1>2, <1>6, <2>2, <2>3, <2>4, <2>5, Zenon
  <1>7. \A k, l \in 1 .. m : k # l => Before(k, l) \/ Before(l, k)
    BY <1>2, <1>3, <1>4
  <1>8. QED BY <1>1, <1>5, <1>6, <1>7 DEF Orders

-----------------------------------------------------------------------------
(* Pieces of a file. *)

Octets == 0 .. Base - 1

(* A number that fits two bytes comes back from them.                      *)
LEMMA TwoBytes ==
  \A n \in Nat : n < Pow(2) \div 2 =>
    Signed(Bytes(2, n)) = n /\ Bytes(2, n) \in Seq(Octets) /\ Len(Bytes(2, n)) = 2
  <1> SUFFICES ASSUME NEW n \in Nat, n < Pow(2) \div 2
               PROVE  Signed(Bytes(2, n)) = n /\ Bytes(2, n) \in Seq(Octets) /\ Len(Bytes(2, n)) = 2
    OBVIOUS
  <1>1. PICK B \in Nat \ {0} : B = Base /\ Pow(0) = 1 /\ Pow(1) = B /\ Pow(2) = B * B
    BY Powers, FilesAssumption
  <1>2. PICK q \in Int, r \in 0 .. B - 1 : q = n \div B /\ r = n % B /\ n = B * q + r
    <2>1. n % B \in 0 .. B - 1 /\ n \div B \in Int /\ n = (B * (n \div B)) + (n % B)
      BY Division
    <2>2. QED BY <2>1
  <1>3. n < B * B
    <2>1. PICK p \in Nat \ {0} : p = B * B
      BY <1>1, Powers
    <2>2. p = 2 * (p \div 2) + (p % 2) /\ p % 2 \in 0 .. 1 /\ p \div 2 \in Int
      BY Division
    <2>3. n < p \div 2
      BY <1>1, <2>1
    <2>4. p \div 2 >= 0
      BY <2>2
    <2>5. n < p
      BY <2>2, <2>3, <2>4
    <2>6. QED BY <2>1, <2>5
  <1>4. q \in 0 .. B - 1
    <2>1. ASSUME q >= B PROVE FALSE
      <3>1. B * B <= B * q /\ B * q \in Int
        BY <2>1, Division
      <3>2. QED BY <1>2, <1>3, <3>1
    <2>2. ASSUME q <= -1 PROVE FALSE
      <3>1. B * q <= B * (-1) /\ B * q \in Int /\ B * (-1) = - B
        BY <2>2, Division
      <3>2. QED BY <1>2, <3>1
    <2>3. QED BY <2>1, <2>2
  <1>5. q % B = q /\ n \div 1 = n
    <2>1. q = B * 0 + q
      OBVIOUS
    <2>2. q \div B = 0
      BY <1>4, <2>1, OneQuotient
    <2>3. q = (B * (q \div B)) + (q % B) /\ q % B \in Int /\ B * 0 = 0
      BY Division
    <2>4. QED BY <2>2, <2>3
  <1>6. /\ Bytes(2, n) \in Seq(Octets) /\ Len(Bytes(2, n)) = 2 /\ DOMAIN Bytes(2, n) = 1 .. 2
        /\ \A at \in 1 .. 2 : Bytes(2, n)[at] = (n \div Pow(at - 1)) % Base
    BY BytesAre DEF Octets
  <1>7. Bytes(2, n)[1] = r /\ Bytes(2, n)[2] = q
    <2>1. 1 - 1 = 0 /\ 2 - 1 = 1
      OBVIOUS
    <2>2. Bytes(2, n)[1] = (n \div Pow(0)) % Base /\ Bytes(2, n)[2] = (n \div Pow(1)) % Base
      BY <1>6, <2>1
    <2>3. QED BY <1>1, <1>2, <1>5, <2>2, Zenon
  <1>8. /\ Digit(Bytes(2, n), 1) = r * 1 /\ Digit(Bytes(2, n), 2) = q * B
        /\ Digit(Bytes(2, n), 3) = 0 /\ Digit(Bytes(2, n), 4) = 0
    <2>1. 1 \in 1 .. 2 /\ 2 \in 1 .. 2 /\ 3 \notin 1 .. 2 /\ 4 \notin 1 .. 2 /\ 1 - 1 = 0 /\ 2 - 1 = 1
      OBVIOUS
    <2>2. QED BY <1>1, <1>6, <1>7, <2>1, Zenon DEF Digit
  <1>9. Unsigned(Bytes(2, n)) = n
    <2>1. r * 1 = r /\ q * B = B * q /\ B * q \in Int
      OBVIOUS
    <2>2. QED BY <1>2, <1>8, <2>1 DEF Unsigned
  <1>10. ~ (n >= Pow(Len(Bytes(2, n))) \div 2)
    <2>1. PICK h \in Int : h = Pow(2) \div 2
      BY Powers, Division
    <2>2. ~ (n >= h)
      BY <2>1
    <2>3. QED BY <1>6, <2>1, <2>2, Zenon
  <1>11. QED BY <1>6, <1>9, <1>10, Zenon DEF Signed

\* What is left of a sequence from an offset on.
Beyond(s, pos) == SubSeq(s, pos + 1, Len(s))

(* Its length and its members.                                             *)
LEMMA BeyondIs ==
  ASSUME NEW S, NEW s \in Seq(S), NEW pos \in 0 .. Len(s)
  PROVE  /\ Beyond(s, pos) \in Seq(S) /\ Len(Beyond(s, pos)) = Len(s) - pos
         /\ \A k \in 1 .. Len(s) - pos : Beyond(s, pos)[k] = s[pos + k]
  <1>1. PICK n \in Nat : n = Len(s) /\ pos \in 0 .. n
    BY LenProperties
  <1>2. pos + 1 \in Int /\ n \in Int /\ \A k \in pos + 1 .. n : s[k] \in S
    <2>1. \A k \in pos + 1 .. n : k \in 1 .. Len(s)
      BY <1>1
    <2>2. QED BY <1>1, <2>1, ElementOfSeq
  <1>3. /\ SubSeq(s, pos + 1, n) \in Seq(S)
        /\ Len(SubSeq(s, pos + 1, n)) = IF pos + 1 <= n THEN n - (pos + 1) + 1 ELSE 0
        /\ \A k \in 1 .. n - (pos + 1) + 1 : SubSeq(s, pos + 1, n)[k] = s[(pos + 1) + k - 1]
    BY <1>2, SubSeqProperties
  <1>4. (IF pos + 1 <= n THEN n - (pos + 1) + 1 ELSE 0) = n - pos /\ n - (pos + 1) + 1 = n - pos
    BY <1>1
  <1>5. \A k \in 1 .. n - pos : (pos + 1) + k - 1 = pos + k
    BY <1>1
  <1>6. QED BY <1>1, <1>3, <1>4, <1>5 DEF Beyond

\* To read a from an offset of s leaves b.
Leaves(s, pos, a, b) ==
  /\ pos + Len(a) \in 0 .. Len(s)
  /\ SubSeq(s, pos + 1, pos + Len(a)) = a
  /\ Beyond(s, pos + Len(a)) = b

(* To read the first part of what is left leaves the second.               *)
LEMMA ReadOn ==
  ASSUME NEW S, NEW s \in Seq(S), NEW pos \in 0 .. Len(s), NEW a \in Seq(S), NEW b \in Seq(S),
         Beyond(s, pos) = a \o b
  PROVE  Leaves(s, pos, a, b)
  <1>1. /\ Len(a) \in Nat /\ Len(b) \in Nat /\ Len(s) \in Nat /\ pos \in 0 .. Len(s)
        /\ Len(a \o b) = Len(a) + Len(b)
    BY LenProperties, ConcatProperties
  <1>2. Len(a) + Len(b) = Len(s) - pos
    BY <1>1, BeyondIs
  <1>3. pos + Len(a) \in pos .. Len(s)
    BY <1>1, <1>2
  <1>4. PICK end \in pos .. Len(s) : end = pos + Len(a)
    BY <1>3
  <1>5. PICK x, y, z \in Seq(S) : CutUp(s, pos, end, x, y, z)
    BY Cut
  <1>6. /\ x = SubSeq(s, pos + 1, end) /\ y = Beyond(s, end) /\ a \o b = x \o y
        /\ Len(x) + pos = end /\ Len(x) \in Nat
    BY <1>5, LenProperties, Zenon DEF CutUp, Beyond
  <1>7. Len(a) = Len(x)
    BY <1>1, <1>4, <1>6
  <1>8. a = x /\ b = y
    <2>1. a \o b = x \o y
      BY <1>6
    <2>2. QED BY <1>7, <2>1, SplitEqual, Zenon
  <1>9. pos + Len(a) \in 0 .. Len(s)
    BY <1>1, <1>3
  <1>10. QED BY <1>4, <1>6, <1>8, <1>9, Zenon DEF Leaves

\* What is left of the concatenation of sequences after the first k.
From(q, k) == FlattenSeq(Beyond(q, k))

(* The first of those left comes first.                                    *)
LEMMA FromFacts ==
  ASSUME NEW S, NEW q \in Seq(Seq(S))
  PROVE  /\ From(q, 0) = FlattenSeq(q) /\ From(q, Len(q)) = << >>
         /\ \A k \in 0 .. Len(q) : From(q, k) \in Seq(S)
         /\ \A k \in 0 .. Len(q) - 1 : From(q, k) = q[k + 1] \o From(q, k + 1)
  <1>1. PICK n \in Nat : n = Len(q)
    BY LenProperties
  <1>2. \A k \in 0 .. n : /\ Beyond(q, k) \in Seq(Seq(S)) /\ Len(Beyond(q, k)) = n - k
                          /\ \A x \in 1 .. n - k : Beyond(q, k)[x] = q[k + x]
    BY <1>1, BeyondIs
  <1>3. \A k \in 0 .. n : From(q, k) \in Seq(S)
    BY <1>2, FlattenFacts DEF From
  <1>4. From(q, 0) = FlattenSeq(q)
    <2>1. 1 .. n - 0 = 1 .. Len(q) /\ \A x \in 1 .. Len(q) : 0 + x = x
      BY <1>1
    <2>2. Len(Beyond(q, 0)) = Len(q) /\ \A x \in 1 .. Len(q) : Beyond(q, 0)[x] = q[x]
      BY <1>1, <1>2, <2>1
    <2>3. Beyond(q, 0) = q
      BY <1>1, <1>2, <2>2, SeqEqual
    <2>4. QED BY <2>3 DEF From
  <1>5. From(q, n) = << >>
    <2>1. Beyond(q, n) = << >>
      BY <1>2, EmptySeq
    <2>2. QED BY <2>1, FlattenFacts DEF From
  <1>6. ASSUME NEW k \in 0 .. n - 1 PROVE From(q, k) = q[k + 1] \o From(q, k + 1)
    <2>0. k \in 0 .. n /\ k + 1 \in 0 .. n
      BY <1>1
    <2>1. PICK f, g \in Seq(Seq(S)) : f = Beyond(q, k) /\ g = Beyond(q, k + 1)
      BY <1>2, <2>0
    <2>2. /\ Len(f) = n - k /\ \A x \in 1 .. n - k : f[x] = q[k + x]
          /\ Len(g) = n - (k + 1) /\ \A x \in 1 .. n - (k + 1) : g[x] = q[(k + 1) + x]
      BY <1>2, <2>0, <2>1
    <2>3. f # << >>
      BY <1>1, <2>2
    <2>4. /\ Tail(f) \in Seq(Seq(S)) /\ Len(Tail(f)) = Len(f) - 1 /\ Head(f) = f[1]
          /\ \A x \in 1 .. Len(f) - 1 : Tail(f)[x] = f[x + 1]
      BY <2>3, TailFacts
    <2>5. Head(f) = q[k + 1]
      BY <1>1, <2>2, <2>4
    <2>6. ASSUME NEW x \in 1 .. Len(g) PROVE Tail(f)[x] = g[x]
      <3>1. x \in 1 .. Len(f) - 1 /\ x + 1 \in 1 .. n - k /\ k + (x + 1) = (k + 1) + x
            /\ x \in 1 .. n - (k + 1)
        BY <1>1, <2>2
      <3>2. QED BY <2>2, <2>4, <3>1
    <2>7. Len(Tail(f)) = Len(g)
      BY <1>1, <2>2, <2>4
    <2>8. Tail(f) = g
      BY <2>4, <2>6, <2>7, SeqEqual
    <2>9. QED BY <2>1, <2>3, <2>5, <2>8, FlattenHead DEF From
  <1>7. QED BY <1>1, <1>3, <1>4, <1>5, <1>6

(* The concatenation of sequences is no longer than their number times the *)
(* length of the longest.                                                  *)
LEMMA FlattenBounded ==
  ASSUME NEW S, NEW m \in Nat
  PROVE  \A s \in Seq(Seq(S)) : (\A k \in 1 .. Len(s) : Len(s[k]) <= m) =>
           Len(FlattenSeq(s)) <= m * Len(s)
  <1> DEFINE P == {s \in Seq(Seq(S)) : (\A k \in 1 .. Len(s) : Len(s[k]) <= m) =>
                                          Len(FlattenSeq(s)) <= m * Len(s)}
  <1>1. << >> \in P
    <2>1. FlattenSeq(<< >>) = << >>
      BY FlattenFacts
    <2>2. << >> \in Seq(Seq(S)) /\ Len(<< >>) = 0 /\ m * 0 = 0
      OBVIOUS
    <2>3. QED BY <2>1, <2>2
  <1>2. ASSUME NEW s \in P, NEW x \in Seq(S) PROVE Append(s, x) \in P
    <2>1. /\ Append(s, x) \in Seq(Seq(S)) /\ Len(Append(s, x)) = Len(s) + 1 /\ Len(s) \in Nat
          /\ \A k \in 1 .. Len(s) : Append(s, x)[k] = s[k]
          /\ Append(s, x)[Len(s) + 1] = x
      BY AppendProperties, LenProperties
    <2>2. SUFFICES ASSUME \A k \in 1 .. Len(s) + 1 : Len(Append(s, x)[k]) <= m
                   PROVE  Len(FlattenSeq(Append(s, x))) <= m * (Len(s) + 1)
      BY <2>1
    <2>3. Len(x) <= m /\ Len(x) \in Nat
      BY <2>1, <2>2, LenProperties
    <2>4. \A k \in 1 .. Len(s) : Len(s[k]) <= m
      BY <2>1, <2>2
    <2>5. Len(FlattenSeq(s)) <= m * Len(s) /\ Len(FlattenSeq(s)) \in Nat
      BY <2>4, FlattenFacts, LenProperties
    <2>6. Len(FlattenSeq(Append(s, x))) = Len(FlattenSeq(s)) + Len(x)
      BY FlattenFacts, ConcatProperties
    <2>7. m * (Len(s) + 1) = m * Len(s) + m /\ m * Len(s) \in Int
      BY <2>1
    <2>8. QED BY <2>3, <2>5, <2>6, <2>7
  <1>3. P = Seq(Seq(S))
    <2>1. P \in SUBSET Seq(Seq(S))
      OBVIOUS
    <2> HIDE DEF P
    <2>2. QED BY <1>1, <1>2, <2>1, SeqInducts
  <1>4. QED BY <1>3

-----------------------------------------------------------------------------
(* What initial_load should find on the disk. *)

Cards == [name : Seq(Octets), number : Seq(Octets)]
Rows == [number : Seq(Octets), unreads : Octets, stamp : Seq(Octets), preview : Seq(Octets)]

\* The tables as they are to be loaded, each part of them of a size its length tells.
Written(w) ==
  /\ w.contacts \in Seq(Cards) /\ Len(w.contacts) < Pow(2) \div 2
  /\ \A k \in 1 .. Len(w.contacts) : Len(w.contacts[k].name) < Base /\ Len(w.contacts[k].number) < Base
  /\ w.rows \in Seq(Rows) /\ Len(w.rows) < Pow(2) \div 2
  /\ \A k \in 1 .. Len(w.rows) : /\ Len(w.rows[k].number) < Base /\ Len(w.rows[k].preview) < Base
                                 /\ Len(w.rows[k].stamp) = StampLen
  /\ w.places \in [1 .. Len(w.rows) -> 0 .. Len(w.rows) - 1]

CardBytes(c) == ((Bytes(1, Len(c.name)) \o c.name) \o Bytes(1, Len(c.number))) \o c.number
RowBytes(place, r) ==
  (((((Bytes(2, place) \o Bytes(1, Len(r.number))) \o r.number) \o Bytes(1, r.unreads)) \o r.stamp)
    \o Bytes(1, Len(r.preview))) \o r.preview

CardsOf(w) == [k \in 1 .. Len(w.contacts) |-> CardBytes(w.contacts[k])]
RowsOf(w) == [k \in 1 .. Len(w.rows) |-> RowBytes(w.places[k], w.rows[k])]

OnDisk(w) == [p \in {ContactsPath, TextIndexPath} |->
                IF p = ContactsPath THEN Bytes(2, Len(w.contacts)) \o FlattenSeq(CardsOf(w))
                ELSE Bytes(2, Len(w.rows)) \o FlattenSeq(RowsOf(w))]

TextReads == {"position", "number_len", "number", "unreads", "timestamp", "preview_len", "preview"}
FieldReads == {"field_len", "field"}
Reads == {"contacts_len", "text_index_len"} \cup FieldReads \cup TextReads

\* The bytes that are read at a place of initial_load, n entries of a table being
\* there and the field f of a contact next, and those after them.
Due(w, at, n, f) ==
  LET c == w.contacts[n + 1]  r == w.rows[n + 1] IN
  CASE at = "contacts_len" -> Bytes(2, Len(w.contacts))
    [] at = "field_len" -> Bytes(1, Len(c[Field[f]]))
    [] at = "field" -> c[Field[f]]
    [] at = "text_index_len" -> Bytes(2, Len(w.rows))
    [] at = "position" -> Bytes(2, w.places[n + 1])
    [] at = "number_len" -> Bytes(1, Len(r.number))
    [] at = "number" -> r.number
    [] at = "unreads" -> Bytes(1, r.unreads)
    [] at = "timestamp" -> r.stamp
    [] at = "preview_len" -> Bytes(1, Len(r.preview))
    [] at = "preview" -> r.preview

AfterField(w, n, f) ==
  IF f = 2 THEN From(CardsOf(w), n + 1)
  ELSE Due(w, "field_len", n, 2) \o (Due(w, "field", n, 2) \o From(CardsOf(w), n + 1))

Ahead(w, at, n, f) ==
  LET a7 == From(RowsOf(w), n + 1)
      a6 == Due(w, "preview", n, f) \o a7
      a5 == Due(w, "preview_len", n, f) \o a6
      a4 == Due(w, "timestamp", n, f) \o a5
      a3 == Due(w, "unreads", n, f) \o a4
      a2 == Due(w, "number", n, f) \o a3
      a1 == Due(w, "number_len", n, f) \o a2 IN
  CASE at = "contacts_len" -> From(CardsOf(w), 0)
    [] at = "field_len" -> Due(w, "field", n, f) \o AfterField(w, n, f)
    [] at = "field" -> AfterField(w, n, f)
    [] at = "text_index_len" -> From(RowsOf(w), 0)
    [] at = "position" -> a1
    [] at = "number_len" -> a2
    [] at = "number" -> a3
    [] at = "unreads" -> a4
    [] at = "timestamp" -> a5
    [] at = "preview_len" -> a6
    [] at = "preview" -> a7

Remaining(w, at, n, f) == Due(w, at, n, f) \o Ahead(w, at, n, f)

\* Which entry and which field can be next.
Places(w, at, n, f) ==
  /\ at \in FieldReads => n \in 0 .. Len(w.contacts) - 1 /\ f \in 1 .. 2
  /\ at \in TextReads => n \in 0 .. Len(w.rows) - 1

(* The entries of the tables, one by one.                                  *)
LEMMA Entries ==
  ASSUME NEW w, Written(w)
  PROVE  /\ Len(w.contacts) \in Nat /\ Len(w.rows) \in Nat
         /\ Len(w.contacts) < Pow(2) \div 2 /\ Len(w.rows) < Pow(2) \div 2
         /\ \A n \in 0 .. Len(w.contacts) - 1 : \A f \in 1 .. 2 :
              /\ w.contacts[n + 1] \in Cards
              /\ w.contacts[n + 1][Field[f]] \in Seq(Octets)
              /\ Len(w.contacts[n + 1][Field[f]]) \in Octets
         /\ \A n \in 0 .. Len(w.rows) - 1 :
              /\ w.rows[n + 1] \in Rows
              /\ w.rows[n + 1].number \in Seq(Octets) /\ Len(w.rows[n + 1].number) \in Octets
              /\ w.rows[n + 1].unreads \in Octets
              /\ w.rows[n + 1].stamp \in Seq(Octets) /\ Len(w.rows[n + 1].stamp) = StampLen
              /\ w.rows[n + 1].preview \in Seq(Octets) /\ Len(w.rows[n + 1].preview) \in Octets
              /\ w.places[n + 1] \in 0 .. Len(w.rows) - 1
  <1>1. /\ w.contacts \in Seq(Cards) /\ Len(w.contacts) \in Nat
        /\ w.rows \in Seq(Rows) /\ Len(w.rows) \in Nat
    BY LenProperties DEF Written
  <1>2. Base \in Nat /\ \A s \in Seq(Octets) : Len(s) < Base => Len(s) \in Octets
    BY FilesAssumption, LenProperties DEF Octets
  <1>3. ASSUME NEW n \in 0 .. Len(w.contacts) - 1, NEW f \in 1 .. 2
        PROVE  /\ w.contacts[n + 1] \in Cards
               /\ w.contacts[n + 1][Field[f]] \in Seq(Octets)
               /\ Len(w.contacts[n + 1][Field[f]]) \in Octets
    <2>1. n + 1 \in 1 .. Len(w.contacts)
      BY <1>1
    <2>2. PICK c \in Cards : c = w.contacts[n + 1]
      BY <1>1, <2>1, ElementOfSeq
    <2>3. c.name \in Seq(Octets) /\ c.number \in Seq(Octets)
      BY DEF Cards
    <2>4. Len(c.name) < Base /\ Len(c.number) < Base
      BY <2>1, <2>2, Zenon DEF Written
    <2>5. Len(c.name) \in Octets /\ Len(c.number) \in Octets
      BY <1>2, <2>3, <2>4
    <2>6. c[Field[f]] = c.name \/ c[Field[f]] = c.number
      BY DEF Field
    <2>7. QED BY <2>2, <2>3, <2>5, <2>6, Zenon
  <1>4. ASSUME NEW n \in 0 .. Len(w.rows) - 1
        PROVE  /\ w.rows[n + 1] \in Rows
               /\ w.rows[n + 1].number \in Seq(Octets) /\ Len(w.rows[n + 1].number) \in Octets
               /\ w.rows[n + 1].unreads \in Octets
               /\ w.rows[n + 1].stamp \in Seq(Octets) /\ Len(w.rows[n + 1].stamp) = StampLen
               /\ w.rows[n + 1].preview \in Seq(Octets) /\ Len(w.rows[n + 1].preview) \in Octets
               /\ w.places[n + 1] \in 0 .. Len(w.rows) - 1
    <2>1. n + 1 \in 1 .. Len(w.rows)
      BY <1>1
    <2>2. PICK r \in Rows : r = w.rows[n + 1]
      BY <1>1, <2>1, ElementOfSeq
    <2>3. r.number \in Seq(Octets) /\ r.unreads \in Octets /\ r.stamp \in Seq(Octets)
          /\ r.preview \in Seq(Octets)
      BY DEF Rows
    <2>4. Len(r.number) < Base /\ Len(r.preview) < Base /\ Len(r.stamp) = StampLen
      BY <2>1, <2>2, Zenon DEF Written
    <2>5. w.places[n + 1] \in 0 .. Len(w.rows) - 1
      BY <2>1 DEF Written
    <2>6. QED BY <1>2, <2>2, <2>3, <2>4, <2>5
  <1>5. QED BY <1>1, <1>3, <1>4 DEF Written

\* z after four sequences, and after seven, put together from the left and from z.
AfterFour(a, b, c, d, z) == (((a \o b) \o c) \o d) \o z = a \o (b \o (c \o (d \o z)))
AfterSeven(a, b, c, d, e, g, h, z) ==
  ((((((a \o b) \o c) \o d) \o e) \o g) \o h) \o z
    = a \o (b \o (c \o (d \o (e \o (g \o (h \o z))))))

(* They are the same.                                                      *)
LEMMA FromTheLeft ==
  ASSUME NEW S
  PROVE  /\ \A a, b, c, d, z \in Seq(S) : AfterFour(a, b, c, d, z)
         /\ \A a, b, c, d, e, g, h, z \in Seq(S) : AfterSeven(a, b, c, d, e, g, h, z)
  <1>1. \A x, y \in Seq(S) : \E z \in Seq(S) : Cat(x, y, z) /\ z = x \o y
    BY Cats DEF Cat
  <1>2. ASSUME NEW a \in Seq(S), NEW b \in Seq(S), NEW c \in Seq(S), NEW d \in Seq(S), NEW z \in Seq(S)
        PROVE  AfterFour(a, b, c, d, z)
    <2>1. PICK p \in Seq(S) : Cat(a, b, p) /\ p = a \o b
      BY <1>1
    <2>2. PICK q \in Seq(S) : Cat(p, c, q) /\ q = p \o c
      BY <1>1
    <2>3. PICK r \in Seq(S) : Cat(q, d, r) /\ r = q \o d
      BY <1>1
    <2>4. PICK whole \in Seq(S) : Cat(r, z, whole) /\ whole = r \o z
      BY <1>1
    <2>5. PICK x, y, v \in Seq(S) : Nested(a, b, c, d, z, x, y, v, whole)
      BY <2>1, <2>2, <2>3, <2>4, NestedFromLeft, Zenon
    <2>6. x = d \o z /\ y = c \o x /\ v = b \o y /\ whole = a \o v
      BY <2>5, Zenon DEF Nested, Cat
    <2>7. QED BY <2>1, <2>2, <2>3, <2>4, <2>6, Zenon DEF AfterFour
  <1>3. ASSUME NEW a \in Seq(S), NEW b \in Seq(S), NEW c \in Seq(S), NEW d \in Seq(S), NEW e \in Seq(S),
               NEW g \in Seq(S), NEW h \in Seq(S), NEW z \in Seq(S)
        PROVE  AfterSeven(a, b, c, d, e, g, h, z)
    <2>1. PICK p \in Seq(S) : p = a \o b
      BY <1>1
    <2>2. PICK q \in Seq(S) : q = p \o c
      BY <1>1
    <2>3. PICK x \in Seq(S) : x = q \o d
      BY <1>1
    <2>4. PICK u \in Seq(S) : u = h \o z
      BY <1>1
    <2>5. PICK v \in Seq(S) : v = g \o u
      BY <1>1
    <2>6. PICK y \in Seq(S) : y = e \o v
      BY <1>1
    <2>7. AfterFour(x, e, g, h, z) /\ AfterFour(a, b, c, d, y)
      BY <1>2
    <2>8. QED BY <2>1, <2>2, <2>3, <2>4, <2>5, <2>6, <2>7, Zenon DEF AfterFour, AfterSeven
  <1>4. QED BY <1>2, <1>3, Zenon

(* What is due is bytes, as many as the length that precedes it tells.     *)
LEMMA DueIs ==
  ASSUME NEW w, Written(w), NEW at \in Reads, NEW n, NEW f, Places(w, at, n, f)
  PROVE  /\ Due(w, at, n, f) \in Seq(Octets)
         /\ Len(Due(w, at, n, f)) \in Octets
         /\ at \in {"contacts_len", "text_index_len", "position"} => Len(Due(w, at, n, f)) = 2
         /\ at \in {"field_len", "number_len", "unreads", "preview_len"} => Len(Due(w, at, n, f)) = 1
         /\ at = "timestamp" => Len(Due(w, at, n, f)) = StampLen
  <1>1. 1 \in Octets /\ 2 \in Octets /\ StampLen \in Octets
    BY FilesAssumption, LoadAssumption DEF Octets
  <1>2. \A k \in Nat : k < Pow(2) \div 2 => Bytes(2, k) \in Seq(Octets) /\ Len(Bytes(2, k)) = 2
    BY TwoBytes
  <1>3. \A k \in Int : Bytes(1, k) \in Seq(Octets) /\ Len(Bytes(1, k)) = 1
    BY BytesAre DEF Octets
  <1>4. \A k \in Octets : k \in Int
    BY FilesAssumption DEF Octets
  <1>5. CASE at = "contacts_len"
    <2>1. Due(w, at, n, f) = Bytes(2, Len(w.contacts))
      BY <1>5 DEF Due
    <2>2. QED BY <1>1, <1>2, <1>5, <2>1, Entries
  <1>6. CASE at = "text_index_len"
    <2>1. Due(w, at, n, f) = Bytes(2, Len(w.rows))
      BY <1>6 DEF Due
    <2>2. QED BY <1>1, <1>2, <1>6, <2>1, Entries
  <1>7. CASE at \in FieldReads
    <2> DEFINE field == w.contacts[n + 1][Field[f]]
    <2>1. field \in Seq(Octets) /\ Len(field) \in Octets
      BY <1>7, Entries DEF Places
    <2>2. at = "field_len" => Due(w, at, n, f) = Bytes(1, Len(field))
      BY DEF Due
    <2>3. at = "field" => Due(w, at, n, f) = field
      BY DEF Due
    <2> HIDE DEF field
    <2>4. QED BY <1>1, <1>3, <1>4, <1>7, <2>1, <2>2, <2>3 DEF FieldReads
  <1>8. CASE at \in TextReads
    <2> DEFINE r == w.rows[n + 1]
    <2>0. n \in 0 .. Len(w.rows) - 1
      BY <1>8 DEF Places
    <2>1. /\ r.number \in Seq(Octets) /\ Len(r.number) \in Octets /\ r.unreads \in Octets
          /\ r.stamp \in Seq(Octets) /\ Len(r.stamp) = StampLen
          /\ r.preview \in Seq(Octets) /\ Len(r.preview) \in Octets
          /\ w.places[n + 1] \in 0 .. Len(w.rows) - 1
          /\ Len(w.rows) \in Nat /\ Len(w.rows) < Pow(2) \div 2
      BY <2>0, Entries
    <2>2. w.places[n + 1] \in Nat /\ w.places[n + 1] < Pow(2) \div 2
      <3>1. PICK h \in Int : h = Pow(2) \div 2
        BY Powers, Division
      <3>2. QED BY <2>1, <3>1
    <2>3. Bytes(2, w.places[n + 1]) \in Seq(Octets) /\ Len(Bytes(2, w.places[n + 1])) = 2
      BY <1>2, <2>2
    <2>4. \A k \in Octets : Bytes(1, k) \in Seq(Octets) /\ Len(Bytes(1, k)) = 1
      BY <1>3, <1>4
    <2>5. CASE at = "position"
      BY <1>1, <2>3, <2>5 DEF Due
    <2>6. CASE at = "number_len"
      BY <1>1, <2>1, <2>4, <2>6 DEF Due
    <2>7. CASE at = "number"
      BY <2>1, <2>7 DEF Due
    <2>8. CASE at = "unreads"
      BY <1>1, <2>1, <2>4, <2>8 DEF Due
    <2>9. CASE at = "timestamp"
      BY <1>1, <2>1, <2>9 DEF Due
    <2>10. CASE at = "preview_len"
      BY <1>1, <2>1, <2>4, <2>10 DEF Due
    <2>11. CASE at = "preview"
      BY <2>1, <2>11 DEF Due
    <2>12. QED BY <1>8, <2>5, <2>6, <2>7, <2>8, <2>9, <2>10, <2>11 DEF TextReads
  <1>9. QED BY <1>5, <1>6, <1>7, <1>8 DEF Reads

(* The records of the two files.                                           *)
LEMMA RecordsAre ==
  ASSUME NEW w, Written(w)
  PROVE  /\ CardsOf(w) \in Seq(Seq(Octets)) /\ Len(CardsOf(w)) = Len(w.contacts)
         /\ RowsOf(w) \in Seq(Seq(Octets)) /\ Len(RowsOf(w)) = Len(w.rows)
         /\ \A n \in 0 .. Len(w.contacts) - 1 :
              CardsOf(w)[n + 1] = ((Due(w, "field_len", n, 1) \o Due(w, "field", n, 1))
                                     \o Due(w, "field_len", n, 2)) \o Due(w, "field", n, 2)
         /\ \A n \in 0 .. Len(w.rows) - 1, f \in 1 .. 2 :
              RowsOf(w)[n + 1] =
                (((((Due(w, "position", n, f) \o Due(w, "number_len", n, f)) \o Due(w, "number", n, f))
                     \o Due(w, "unreads", n, f)) \o Due(w, "timestamp", n, f))
                   \o Due(w, "preview_len", n, f)) \o Due(w, "preview", n, f)
  <1> DEFINE C == Len(w.contacts)
             R == Len(w.rows)
  <1>0. C \in Nat /\ R \in Nat
    BY Entries
  <1>1. \A a, b \in Seq(Octets) : a \o b \in Seq(Octets)
    BY ConcatProperties
  <1>2. ASSUME NEW n \in 0 .. C - 1
        PROVE  /\ CardBytes(w.contacts[n + 1]) =
                    ((Due(w, "field_len", n, 1) \o Due(w, "field", n, 1))
                       \o Due(w, "field_len", n, 2)) \o Due(w, "field", n, 2)
               /\ CardBytes(w.contacts[n + 1]) \in Seq(Octets)
    <2>1. Field[1] = "name" /\ Field[2] = "number"
      BY DEF Field
    <2>2. /\ Due(w, "field_len", n, 1) = Bytes(1, Len(w.contacts[n + 1].name))
          /\ Due(w, "field_len", n, 2) = Bytes(1, Len(w.contacts[n + 1].number))
          /\ Due(w, "field", n, 1) = w.contacts[n + 1].name
          /\ Due(w, "field", n, 2) = w.contacts[n + 1].number
      BY <2>1 DEF Due
    <2>3. \A f \in 1 .. 2 : Due(w, "field_len", n, f) \in Seq(Octets) /\ Due(w, "field", n, f) \in Seq(Octets)
      <3>1. ASSUME NEW f \in 1 .. 2
            PROVE  Due(w, "field_len", n, f) \in Seq(Octets) /\ Due(w, "field", n, f) \in Seq(Octets)
        <4>1. Places(w, "field_len", n, f) /\ Places(w, "field", n, f)
          BY DEF Places, TextReads
        <4>2. "field_len" \in Reads /\ "field" \in Reads
          BY DEF Reads, FieldReads
        <4>3. QED BY <4>1, <4>2, DueIs
      <3>2. QED BY <3>1
    <2>4. 1 \in 1 .. 2 /\ 2 \in 1 .. 2
      OBVIOUS
    <2>5. QED BY <1>1, <2>2, <2>3, <2>4, Zenon DEF CardBytes
  <1>3. ASSUME NEW n \in 0 .. R - 1, NEW f \in 1 .. 2
        PROVE  /\ RowBytes(w.places[n + 1], w.rows[n + 1]) =
                    (((((Due(w, "position", n, f) \o Due(w, "number_len", n, f)) \o Due(w, "number", n, f))
                         \o Due(w, "unreads", n, f)) \o Due(w, "timestamp", n, f))
                       \o Due(w, "preview_len", n, f)) \o Due(w, "preview", n, f)
               /\ RowBytes(w.places[n + 1], w.rows[n + 1]) \in Seq(Octets)
    <2>1. /\ Due(w, "position", n, f) = Bytes(2, w.places[n + 1])
          /\ Due(w, "number_len", n, f) = Bytes(1, Len(w.rows[n + 1].number))
          /\ Due(w, "number", n, f) = w.rows[n + 1].number
          /\ Due(w, "unreads", n, f) = Bytes(1, w.rows[n + 1].unreads)
          /\ Due(w, "timestamp", n, f) = w.rows[n + 1].stamp
          /\ Due(w, "preview_len", n, f) = Bytes(1, Len(w.rows[n + 1].preview))
          /\ Due(w, "preview", n, f) = w.rows[n + 1].preview
      BY DEF Due
    <2>2. \A at \in TextReads : Due(w, at, n, f) \in Seq(Octets)
      <3>1. \A at \in TextReads : at \in Reads /\ Places(w, at, n, f)
        BY DEF Reads, Places, TextReads, FieldReads
      <3>2. QED BY <3>1, DueIs
    <2>3. /\ Due(w, "position", n, f) \in Seq(Octets) /\ Due(w, "number_len", n, f) \in Seq(Octets)
          /\ Due(w, "number", n, f) \in Seq(Octets) /\ Due(w, "unreads", n, f) \in Seq(Octets)
          /\ Due(w, "timestamp", n, f) \in Seq(Octets) /\ Due(w, "preview_len", n, f) \in Seq(Octets)
          /\ Due(w, "preview", n, f) \in Seq(Octets)
      BY <2>2 DEF TextReads
    <2>4. QED BY <1>1, <2>1, <2>3, Zenon DEF RowBytes
  <1>4. /\ \A n \in 0 .. C - 1 : CardsOf(w)[n + 1] = CardBytes(w.contacts[n + 1])
        /\ \A n \in 0 .. R - 1 : RowsOf(w)[n + 1] = RowBytes(w.places[n + 1], w.rows[n + 1])
    BY <1>0 DEF CardsOf, RowsOf
  <1>5. CardsOf(w) \in Seq(Seq(Octets)) /\ Len(CardsOf(w)) = C
    <2>1. ASSUME NEW k \in 1 .. C PROVE CardBytes(w.contacts[k]) \in Seq(Octets)
      <3>1. k - 1 \in 0 .. C - 1 /\ (k - 1) + 1 = k
        BY <1>0
      <3>2. QED BY <1>2, <3>1
    <2>2. QED BY <1>0, <2>1 DEF CardsOf
  <1>6. RowsOf(w) \in Seq(Seq(Octets)) /\ Len(RowsOf(w)) = R
    <2>1. ASSUME NEW k \in 1 .. R PROVE RowBytes(w.places[k], w.rows[k]) \in Seq(Octets)
      <3>1. k - 1 \in 0 .. R - 1 /\ (k - 1) + 1 = k /\ 1 \in 1 .. 2
        BY <1>0
      <3>2. QED BY <1>3, <3>1
    <2>2. QED BY <1>0, <2>1 DEF RowsOf
  <1>7. QED BY <1>2, <1>3, <1>4, <1>5, <1>6, Zenon

(* What is ahead is bytes, ...                                             *)
LEMMA AheadIs ==
  ASSUME NEW w, Written(w), NEW at \in Reads, NEW n, NEW f, Places(w, at, n, f)
  PROVE  Ahead(w, at, n, f) \in Seq(Octets)
  <1>1. \A a, b \in Seq(Octets) : a \o b \in Seq(Octets)
    BY ConcatProperties
  <1>2. /\ \A k \in 0 .. Len(w.contacts) : From(CardsOf(w), k) \in Seq(Octets)
        /\ \A k \in 0 .. Len(w.rows) : From(RowsOf(w), k) \in Seq(Octets)
        /\ Len(w.contacts) \in Nat /\ Len(w.rows) \in Nat
    BY RecordsAre, FromFacts, Entries
  <1>3. CASE at \in {"contacts_len", "text_index_len"}
    <2>1. 0 \in 0 .. Len(w.contacts) /\ 0 \in 0 .. Len(w.rows)
      BY <1>2
    <2>2. Ahead(w, at, n, f) = From(CardsOf(w), 0) \/ Ahead(w, at, n, f) = From(RowsOf(w), 0)
      BY <1>3 DEF Ahead
    <2>3. QED BY <1>2, <2>1, <2>2, Zenon
  <1>4. CASE at \in FieldReads
    <2>1. n \in 0 .. Len(w.contacts) - 1 /\ f \in 1 .. 2
      BY <1>4 DEF Places
    <2>2. \A g \in 1 .. 2 : Due(w, "field_len", n, g) \in Seq(Octets) /\ Due(w, "field", n, g) \in Seq(Octets)
      <3>1. \A g \in 1 .. 2 : Places(w, "field_len", n, g) /\ Places(w, "field", n, g)
        BY <2>1 DEF Places, TextReads
      <3>2. "field_len" \in Reads /\ "field" \in Reads
        BY DEF Reads, FieldReads
      <3>3. QED BY <3>1, <3>2, DueIs
    <2>3. From(CardsOf(w), n + 1) \in Seq(Octets)
      <3>1. n + 1 \in 0 .. Len(w.contacts)
        BY <1>2, <2>1
      <3>2. QED BY <1>2, <3>1
    <2>4. AfterField(w, n, f) \in Seq(Octets)
      <3>1. 2 \in 1 .. 2
        OBVIOUS
      <3>2. QED BY <1>1, <2>2, <2>3, <3>1, Zenon DEF AfterField
    <2>5. \/ Ahead(w, at, n, f) = Due(w, "field", n, f) \o AfterField(w, n, f)
          \/ Ahead(w, at, n, f) = AfterField(w, n, f)
      BY <1>4 DEF Ahead, FieldReads
    <2>6. QED BY <1>1, <2>1, <2>2, <2>4, <2>5, Zenon
  <1>5. CASE at \in TextReads
    <2>1. n \in 0 .. Len(w.rows) - 1
      BY <1>5 DEF Places
    <2>2. \A p \in TextReads : Due(w, p, n, f) \in Seq(Octets)
      <3>1. \A p \in TextReads : p \in Reads /\ Places(w, p, n, f)
        BY <2>1 DEF Reads, Places, TextReads, FieldReads
      <3>2. QED BY <3>1, DueIs
    <2>3. PICK d2, d3, d4, d5, d6, d7, a7 \in Seq(Octets) :
            /\ d2 = Due(w, "number_len", n, f) /\ d3 = Due(w, "number", n, f)
            /\ d4 = Due(w, "unreads", n, f) /\ d5 = Due(w, "timestamp", n, f)
            /\ d6 = Due(w, "preview_len", n, f) /\ d7 = Due(w, "preview", n, f)
            /\ a7 = From(RowsOf(w), n + 1)
      <3>1. n + 1 \in 0 .. Len(w.rows)
        BY <1>2, <2>1
      <3>2. QED BY <1>2, <2>2, <3>1 DEF TextReads
    <2>4. \/ Ahead(w, at, n, f) = a7 \/ Ahead(w, at, n, f) = d7 \o a7
          \/ Ahead(w, at, n, f) = d6 \o (d7 \o a7)
          \/ Ahead(w, at, n, f) = d5 \o (d6 \o (d7 \o a7))
          \/ Ahead(w, at, n, f) = d4 \o (d5 \o (d6 \o (d7 \o a7)))
          \/ Ahead(w, at, n, f) = d3 \o (d4 \o (d5 \o (d6 \o (d7 \o a7))))
          \/ Ahead(w, at, n, f) = d2 \o (d3 \o (d4 \o (d5 \o (d6 \o (d7 \o a7)))))
      BY <1>5, <2>3 DEF Ahead, TextReads
    <2>5. QED BY <1>1, <2>4, Zenon
  <1>6. QED BY <1>3, <1>4, <1>5 DEF Reads

(* ... and what is read next, with what is then ahead.                     *)
LEMMA ReadingGoesOn ==
  ASSUME NEW w, Written(w)
  PROVE  /\ \A n, f : /\ OnDisk(w)[ContactsPath] = Remaining(w, "contacts_len", n, f)
                      /\ OnDisk(w)[TextIndexPath] = Remaining(w, "text_index_len", n, f)
         /\ \A n \in 0 .. Len(w.contacts) - 1 :
              /\ From(CardsOf(w), n) = Remaining(w, "field_len", n, 1)
              /\ Ahead(w, "field", n, 1) = Remaining(w, "field_len", n, 2)
              /\ Ahead(w, "field", n, 2) = From(CardsOf(w), n + 1)
              /\ \A f \in 1 .. 2 : Ahead(w, "field_len", n, f) = Remaining(w, "field", n, f)
         /\ \A n \in 0 .. Len(w.rows) - 1, f \in 1 .. 2 :
              /\ From(RowsOf(w), n) = Remaining(w, "position", n, f)
              /\ Ahead(w, "position", n, f) = Remaining(w, "number_len", n, f)
              /\ Ahead(w, "number_len", n, f) = Remaining(w, "number", n, f)
              /\ Ahead(w, "number", n, f) = Remaining(w, "unreads", n, f)
              /\ Ahead(w, "unreads", n, f) = Remaining(w, "timestamp", n, f)
              /\ Ahead(w, "timestamp", n, f) = Remaining(w, "preview_len", n, f)
              /\ Ahead(w, "preview_len", n, f) = Remaining(w, "preview", n, f)
              /\ Ahead(w, "preview", n, f) = From(RowsOf(w), n + 1)
  <1>1. /\ CardsOf(w) \in Seq(Seq(Octets)) /\ Len(CardsOf(w)) = Len(w.contacts)
        /\ RowsOf(w) \in Seq(Seq(Octets)) /\ Len(RowsOf(w)) = Len(w.rows)
        /\ Len(w.contacts) \in Nat /\ Len(w.rows) \in Nat
    BY RecordsAre, Entries
  <1>2. From(CardsOf(w), 0) = FlattenSeq(CardsOf(w)) /\ From(RowsOf(w), 0) = FlattenSeq(RowsOf(w))
    BY <1>1, FromFacts
  <1>3. /\ OnDisk(w)[ContactsPath] = Bytes(2, Len(w.contacts)) \o FlattenSeq(CardsOf(w))
        /\ OnDisk(w)[TextIndexPath] = Bytes(2, Len(w.rows)) \o FlattenSeq(RowsOf(w))
    BY DEF OnDisk, ContactsPath, TextIndexPath
  <1>4. ASSUME NEW n, NEW f
        PROVE  /\ OnDisk(w)[ContactsPath] = Remaining(w, "contacts_len", n, f)
               /\ OnDisk(w)[TextIndexPath] = Remaining(w, "text_index_len", n, f)
    <2>1. /\ Due(w, "contacts_len", n, f) = Bytes(2, Len(w.contacts))
          /\ Due(w, "text_index_len", n, f) = Bytes(2, Len(w.rows))
      BY DEF Due
    <2>2. /\ Ahead(w, "contacts_len", n, f) = From(CardsOf(w), 0)
          /\ Ahead(w, "text_index_len", n, f) = From(RowsOf(w), 0)
      BY DEF Ahead
    <2>3. QED BY <1>2, <1>3, <2>1, <2>2, Zenon DEF Remaining
  <1>5. ASSUME NEW n \in 0 .. Len(w.contacts) - 1
        PROVE  /\ From(CardsOf(w), n) = Remaining(w, "field_len", n, 1)
               /\ Ahead(w, "field", n, 1) = Remaining(w, "field_len", n, 2)
               /\ Ahead(w, "field", n, 2) = From(CardsOf(w), n + 1)
               /\ \A f \in 1 .. 2 : Ahead(w, "field_len", n, f) = Remaining(w, "field", n, f)
    <2> DEFINE L(f) == Due(w, "field_len", n, f)
               D(f) == Due(w, "field", n, f)
               z == From(CardsOf(w), n + 1)
    <2>1. \A f \in 1 .. 2 : L(f) \in Seq(Octets) /\ D(f) \in Seq(Octets)
      <3>1. \A f \in 1 .. 2 : Places(w, "field_len", n, f) /\ Places(w, "field", n, f)
        BY DEF Places, TextReads
      <3>2. "field_len" \in Reads /\ "field" \in Reads
        BY DEF Reads, FieldReads
      <3>3. QED BY <3>1, <3>2, DueIs
    <2>2. AfterField(w, n, 2) = z /\ AfterField(w, n, 1) = L(2) \o (D(2) \o z)
      BY DEF AfterField
    <2>3. \A f : Ahead(w, "field", n, f) = AfterField(w, n, f)
                 /\ Ahead(w, "field_len", n, f) = D(f) \o AfterField(w, n, f)
      BY DEF Ahead
    <2>4. From(CardsOf(w), n) = (((L(1) \o D(1)) \o L(2)) \o D(2)) \o z /\ z \in Seq(Octets)
      <3>1. n \in 0 .. Len(CardsOf(w)) - 1 /\ n + 1 \in 0 .. Len(CardsOf(w))
        BY <1>1
      <3>2. From(CardsOf(w), n) = CardsOf(w)[n + 1] \o z /\ z \in Seq(Octets)
        BY <1>1, <3>1, FromFacts
      <3>3. CardsOf(w)[n + 1] = ((L(1) \o D(1)) \o L(2)) \o D(2)
        BY RecordsAre
      <3>4. QED BY <3>2, <3>3, Zenon
    <2>5. AfterFour(L(1), D(1), L(2), D(2), z)
      <3> HIDE DEF L, D, z
      <3>1. 1 \in 1 .. 2 /\ 2 \in 1 .. 2
        OBVIOUS
      <3>2. QED BY <2>1, <2>4, <3>1, FromTheLeft
    <2>6. From(CardsOf(w), n) = L(1) \o (D(1) \o AfterField(w, n, 1))
      BY <2>2, <2>4, <2>5, Zenon DEF AfterFour
    <2>7. QED BY <2>2, <2>3, <2>6, Zenon DEF Remaining
  <1>6. ASSUME NEW n \in 0 .. Len(w.rows) - 1, NEW f \in 1 .. 2
        PROVE  /\ From(RowsOf(w), n) = Remaining(w, "position", n, f)
               /\ Ahead(w, "position", n, f) = Remaining(w, "number_len", n, f)
               /\ Ahead(w, "number_len", n, f) = Remaining(w, "number", n, f)
               /\ Ahead(w, "number", n, f) = Remaining(w, "unreads", n, f)
               /\ Ahead(w, "unreads", n, f) = Remaining(w, "timestamp", n, f)
               /\ Ahead(w, "timestamp", n, f) = Remaining(w, "preview_len", n, f)
               /\ Ahead(w, "preview_len", n, f) = Remaining(w, "preview", n, f)
               /\ Ahead(w, "preview", n, f) = From(RowsOf(w), n + 1)
    <2> DEFINE D(p) == Due(w, p, n, f)
               z == From(RowsOf(w), n + 1)
    <2>1. \A p \in TextReads : D(p) \in Seq(Octets)
      <3>1. \A p \in TextReads : p \in Reads /\ Places(w, p, n, f)
        BY DEF Reads, Places, TextReads, FieldReads
      <3>2. QED BY <3>1, DueIs
    <2>2. /\ D("position") \in Seq(Octets) /\ D("number_len") \in Seq(Octets)
          /\ D("number") \in Seq(Octets) /\ D("unreads") \in Seq(Octets) /\ D("timestamp") \in Seq(Octets)
          /\ D("preview_len") \in Seq(Octets) /\ D("preview") \in Seq(Octets)
      <3> HIDE DEF D
      <3>1. QED BY <2>1 DEF TextReads
    <2>3. /\ From(RowsOf(w), n) =
               ((((((D("position") \o D("number_len")) \o D("number")) \o D("unreads"))
                    \o D("timestamp")) \o D("preview_len")) \o D("preview")) \o z
          /\ z \in Seq(Octets)
      <3>1. n \in 0 .. Len(RowsOf(w)) - 1 /\ n + 1 \in 0 .. Len(RowsOf(w))
        BY <1>1
      <3>2. From(RowsOf(w), n) = RowsOf(w)[n + 1] \o z /\ z \in Seq(Octets)
        BY <1>1, <3>1, FromFacts
      <3>3. RowsOf(w)[n + 1] =
              (((((D("position") \o D("number_len")) \o D("number")) \o D("unreads"))
                  \o D("timestamp")) \o D("preview_len")) \o D("preview")
        BY RecordsAre
      <3>4. QED BY <3>2, <3>3, Zenon
    <2>4. AfterSeven(D("position"), D("number_len"), D("number"), D("unreads"), D("timestamp"),
                     D("preview_len"), D("preview"), z)
      <3> HIDE DEF D, z
      <3>1. QED BY <2>2, <2>3, FromTheLeft
    <2>5. From(RowsOf(w), n) =
            D("position") \o (D("number_len") \o (D("number") \o (D("unreads")
              \o (D("timestamp") \o (D("preview_len") \o (D("preview") \o z))))))
      BY <2>3, <2>4, Zenon DEF AfterSeven
    <2>6. /\ Ahead(w, "preview", n, f) = z
          /\ Ahead(w, "preview_len", n, f) = D("preview") \o z
          /\ Ahead(w, "timestamp", n, f) = D("preview_len") \o (D("preview") \o z)
          /\ Ahead(w, "unreads", n, f) = D("timestamp") \o (D("preview_len") \o (D("preview") \o z))
          /\ Ahead(w, "number", n, f) =
               D("unreads") \o (D("timestamp") \o (D("preview_len") \o (D("preview") \o z)))
          /\ Ahead(w, "number_len", n, f) =
               D("number") \o (D("unreads")
                 \o (D("timestamp") \o (D("preview_len") \o (D("preview") \o z))))
          /\ Ahead(w, "position", n, f) =
               D("number_len") \o (D("number") \o (D("unreads")
                 \o (D("timestamp") \o (D("preview_len") \o (D("preview") \o z)))))
      BY DEF Ahead
    <2>7. QED BY <2>5, <2>6, Zenon DEF Remaining
  <1>7. QED BY <1>4, <1>5, <1>6

\* No record is longer.
Longest == 3 * Base + 2

(* So many records fit a file whose length is a C int.                     *)
LEMMA FitsAnInt ==
  \A n \in Nat : n < Pow(2) \div 2 => Longest \in Nat /\ 2 + Longest * n < Pow(4) \div 2
  <1> SUFFICES ASSUME NEW n \in Nat, n < Pow(2) \div 2
               PROVE  Longest \in Nat /\ 2 + Longest * n < Pow(4) \div 2
    OBVIOUS
  <1>1. PICK B \in Nat \ {0}, p \in Nat \ {0}, x \in Nat \ {0} :
          B = Base /\ p = Pow(2) /\ x = Pow(4) /\ p = B * B /\ x = B * (B * p)
    BY Powers, FilesAssumption
  <1>2. B >= 4
    BY <1>1, LoadAssumption
  <1>3. \A z \in Int : z % 2 \in 0 .. 1 /\ z \div 2 \in Int /\ z = (2 * (z \div 2)) + (z % 2)
    BY Division
  <1>4. PICK h \in Int : h = Pow(2) \div 2 /\ 2 * h <= p /\ p <= 2 * h + 1
    BY <1>1, <1>3
  <1>5. PICK y \in Int : y = Pow(4) \div 2 /\ 2 * y <= x /\ x <= 2 * y + 1
    BY <1>1, <1>3
  <1>6. PICK m \in Nat \ {0} : m = Longest /\ m = 3 * B + 2
    BY <1>1 DEF Longest
  <1>7. m <= p - 2
    <2>1. B * 4 <= B * B /\ B * B \in Int
      BY <1>2, Division
    <2>2. QED BY <1>1, <1>2, <1>6, <2>1
  <1>8. n <= h - 1 /\ h \in Nat \ {0}
    BY <1>4
  <1>9. 2 + m * n < p * h
    <2>1. m * n <= m * (h - 1) /\ m * n \in Int
      BY <1>8, Division
    <2>2. m * (h - 1) = h * m - m /\ h * m \in Int
      BY <1>8
    <2>3. h * m <= h * (p - 2)
      BY <1>7, <1>8, Division
    <2>4. h * (p - 2) = p * h - 2 * h /\ p * h \in Int
      BY <1>8
    <2>5. QED BY <1>2, <1>6, <1>8, <2>1, <2>2, <2>3, <2>4
  <1>10. p * h <= y
    <2>1. p * (2 * h) <= p * p
      <3>1. 2 * h \in Int /\ p \in Int
        OBVIOUS
      <3>2. QED BY <1>4, <3>1, Division
    <2>2. p * (2 * h) = 2 * (p * h) /\ p * h \in Int
      BY <1>8
    <2>3. p * p = x
      <3>1. (B * B) * p = B * (B * p)
        OBVIOUS
      <3>2. QED BY <1>1, <3>1
    <2>4. QED BY <1>5, <2>1, <2>2, <2>3
  <1>11. m * n \in Int /\ p * h \in Int
    BY <1>8
  <1>12. QED BY <1>5, <1>6, <1>9, <1>10, <1>11

(* The two files are files the host can have.                              *)
LEMMA DiskIsSound ==
  ASSUME NEW w, Written(w)
  PROVE  Sound(OnDisk(w)) /\ DOMAIN OnDisk(w) = {ContactsPath, TextIndexPath}
  <1>1. \A a, b \in Seq(Octets) : a \o b \in Seq(Octets) /\ Len(a \o b) = Len(a) + Len(b)
    BY ConcatProperties
  <1>2. Base \in Nat /\ Base >= 4 /\ \A a \in Seq(Octets) : Len(a) \in Octets => Len(a) \in 0 .. Base - 1
    BY FilesAssumption, LoadAssumption DEF Octets
  <1>3. \A n \in 0 .. Len(w.contacts) - 1 : Len(CardsOf(w)[n + 1]) <= Longest
    <2>1. SUFFICES ASSUME NEW n \in 0 .. Len(w.contacts) - 1 PROVE Len(CardsOf(w)[n + 1]) <= Longest
      OBVIOUS
    <2>2. PICK a, b, c, d \in Seq(Octets) :
            /\ Len(a) = 1 /\ Len(b) \in Octets /\ Len(c) = 1 /\ Len(d) \in Octets
            /\ CardsOf(w)[n + 1] = ((a \o b) \o c) \o d
      <3>1. \A f \in 1 .. 2 : Places(w, "field_len", n, f) /\ Places(w, "field", n, f)
        BY DEF Places, TextReads
      <3>2. "field_len" \in Reads /\ "field" \in Reads
        BY DEF Reads, FieldReads
      <3>3. \A f \in 1 .. 2 :
              /\ Due(w, "field_len", n, f) \in Seq(Octets) /\ Len(Due(w, "field_len", n, f)) = 1
              /\ Due(w, "field", n, f) \in Seq(Octets) /\ Len(Due(w, "field", n, f)) \in Octets
        BY <3>1, <3>2, DueIs
      <3>4. CardsOf(w)[n + 1] = ((Due(w, "field_len", n, 1) \o Due(w, "field", n, 1))
                                   \o Due(w, "field_len", n, 2)) \o Due(w, "field", n, 2)
        BY RecordsAre
      <3>5. 1 \in 1 .. 2 /\ 2 \in 1 .. 2
        OBVIOUS
      <3>6. QED BY <3>3, <3>4, <3>5, Zenon
    <2>3. PICK x \in Seq(Octets) : x = a \o b /\ Len(x) = Len(a) + Len(b)
      BY <1>1
    <2>4. PICK y \in Seq(Octets) : y = x \o c /\ Len(y) = Len(x) + Len(c)
      BY <1>1
    <2>5. Len(y \o d) = Len(y) + Len(d)
      BY <1>1
    <2>6. CardsOf(w)[n + 1] = y \o d
      BY <2>2, <2>3, <2>4, Zenon
    <2>7. Len(b) \in 0 .. Base - 1 /\ Len(d) \in 0 .. Base - 1
      BY <1>2, <2>2
    <2>8. QED BY <1>2, <2>2, <2>3, <2>4, <2>5, <2>6, <2>7 DEF Longest
  <1>4. \A n \in 0 .. Len(w.rows) - 1 : Len(RowsOf(w)[n + 1]) <= Longest
    <2>1. SUFFICES ASSUME NEW n \in 0 .. Len(w.rows) - 1 PROVE Len(RowsOf(w)[n + 1]) <= Longest
      OBVIOUS
    <2>2. PICK a, b, c, d, e, g, h \in Seq(Octets) :
            /\ Len(a) = 2 /\ Len(b) = 1 /\ Len(c) \in Octets /\ Len(d) = 1 /\ Len(e) \in Octets
            /\ Len(g) = 1 /\ Len(h) \in Octets
            /\ RowsOf(w)[n + 1] = (((((a \o b) \o c) \o d) \o e) \o g) \o h
      <3> DEFINE D(p) == Due(w, p, n, 1)
      <3>1. \A p \in TextReads : p \in Reads /\ Places(w, p, n, 1)
        BY DEF Reads, Places, TextReads, FieldReads
      <3>2. \A p \in TextReads :
              /\ D(p) \in Seq(Octets) /\ Len(D(p)) \in Octets
              /\ p = "position" => Len(D(p)) = 2
              /\ p \in {"number_len", "unreads", "preview_len"} => Len(D(p)) = 1
        <4>1. SUFFICES ASSUME NEW p \in TextReads
                       PROVE  /\ D(p) \in Seq(Octets) /\ Len(D(p)) \in Octets
                              /\ p = "position" => Len(D(p)) = 2
                              /\ p \in {"number_len", "unreads", "preview_len"} => Len(D(p)) = 1
          OBVIOUS
        <4>2. p \in Reads /\ Places(w, p, n, 1)
          BY <3>1
        <4>3. /\ D(p) \in Seq(Octets) /\ Len(D(p)) \in Octets
              /\ p \in {"contacts_len", "text_index_len", "position"} => Len(D(p)) = 2
              /\ p \in {"field_len", "number_len", "unreads", "preview_len"} => Len(D(p)) = 1
          BY <4>2, DueIs, ZenonT(40)
        <4> HIDE DEF D
        <4>4. QED BY <4>3
      <3>3. RowsOf(w)[n + 1] =
              (((((D("position") \o D("number_len")) \o D("number")) \o D("unreads"))
                  \o D("timestamp")) \o D("preview_len")) \o D("preview")
        <4>1. 1 \in 1 .. 2
          OBVIOUS
        <4>2. QED BY <4>1, RecordsAre, Zenon
      <3> HIDE DEF D
      <3>4. /\ D("position") \in Seq(Octets) /\ Len(D("position")) = 2
            /\ D("number_len") \in Seq(Octets) /\ Len(D("number_len")) = 1
            /\ D("number") \in Seq(Octets) /\ Len(D("number")) \in Octets
            /\ D("unreads") \in Seq(Octets) /\ Len(D("unreads")) = 1
            /\ D("timestamp") \in Seq(Octets) /\ Len(D("timestamp")) \in Octets
            /\ D("preview_len") \in Seq(Octets) /\ Len(D("preview_len")) = 1
            /\ D("preview") \in Seq(Octets) /\ Len(D("preview")) \in Octets
        BY <3>2 DEF TextReads
      <3>5. QED BY <3>3, <3>4, Zenon
    <2>3. PICK x1 \in Seq(Octets) : x1 = a \o b /\ Len(x1) = Len(a) + Len(b)
      BY <1>1
    <2>4. PICK x2 \in Seq(Octets) : x2 = x1 \o c /\ Len(x2) = Len(x1) + Len(c)
      BY <1>1
    <2>5. PICK x3 \in Seq(Octets) : x3 = x2 \o d /\ Len(x3) = Len(x2) + Len(d)
      BY <1>1
    <2>6. PICK x4 \in Seq(Octets) : x4 = x3 \o e /\ Len(x4) = Len(x3) + Len(e)
      BY <1>1
    <2>7. PICK x5 \in Seq(Octets) : x5 = x4 \o g /\ Len(x5) = Len(x4) + Len(g)
      BY <1>1
    <2>8. Len(x5 \o h) = Len(x5) + Len(h)
      BY <1>1
    <2>9. RowsOf(w)[n + 1] = x5 \o h
      BY <2>2, <2>3, <2>4, <2>5, <2>6, <2>7, Zenon
    <2>10. Len(c) \in 0 .. Base - 1 /\ Len(e) \in 0 .. Base - 1 /\ Len(h) \in 0 .. Base - 1
      BY <1>2, <2>2
    <2>11. QED BY <1>2, <2>2, <2>3, <2>4, <2>5, <2>6, <2>7, <2>8, <2>9, <2>10 DEF Longest
  <1>5. ASSUME NEW q \in Seq(Seq(Octets)), Len(q) < Pow(2) \div 2,
               \A n \in 0 .. Len(q) - 1 : Len(q[n + 1]) <= Longest
        PROVE  /\ Bytes(2, Len(q)) \o FlattenSeq(q) \in Seq(0 .. Base - 1)
               /\ Len(Bytes(2, Len(q)) \o FlattenSeq(q)) < Pow(4) \div 2
    <2>1. PICK n \in Nat : n = Len(q)
      BY LenProperties
    <2>2. Longest \in Nat /\ 2 + Longest * n < Pow(4) \div 2
      BY <1>5, <2>1, FitsAnInt
    <2>3. ASSUME NEW k \in 1 .. n PROVE Len(q[k]) <= Longest
      <3>1. k - 1 \in 0 .. n - 1 /\ (k - 1) + 1 = k
        OBVIOUS
      <3>2. QED BY <1>5, <2>1, <3>1
    <2>4. Len(FlattenSeq(q)) <= Longest * n /\ FlattenSeq(q) \in Seq(Octets)
      BY <2>1, <2>2, <2>3, FlattenBounded, FlattenFacts
    <2>5. Bytes(2, n) \in Seq(Octets) /\ Len(Bytes(2, n)) = 2
      BY <1>5, <2>1, TwoBytes
    <2>6. Bytes(2, n) \o FlattenSeq(q) \in Seq(Octets)
          /\ Len(Bytes(2, n) \o FlattenSeq(q)) = 2 + Len(FlattenSeq(q))
      BY <1>1, <2>4, <2>5
    <2>7. Len(FlattenSeq(q)) \in Nat /\ Longest * n \in Int
      BY <2>2, <2>4, LenProperties
    <2>8. PICK h \in Int : h = Pow(4) \div 2
      <3>1. Pow(4) \in Int
        BY Powers
      <3>2. QED BY <3>1, Division
    <2>9. QED BY <2>1, <2>2, <2>4, <2>6, <2>7, <2>8 DEF Octets
  <1>6. DOMAIN OnDisk(w) = {ContactsPath, TextIndexPath}
    BY DEF OnDisk
  <1>7. /\ OnDisk(w)[ContactsPath] = Bytes(2, Len(w.contacts)) \o FlattenSeq(CardsOf(w))
        /\ OnDisk(w)[TextIndexPath] = Bytes(2, Len(w.rows)) \o FlattenSeq(RowsOf(w))
    BY DEF OnDisk, ContactsPath, TextIndexPath
  <1>8. /\ CardsOf(w) \in Seq(Seq(Octets)) /\ Len(CardsOf(w)) = Len(w.contacts)
        /\ RowsOf(w) \in Seq(Seq(Octets)) /\ Len(RowsOf(w)) = Len(w.rows)
        /\ Len(w.contacts) < Pow(2) \div 2 /\ Len(w.rows) < Pow(2) \div 2
    BY RecordsAre, Entries
  <1>9. \A path \in {ContactsPath, TextIndexPath} :
          OnDisk(w)[path] \in Seq(0 .. Base - 1) /\ Len(OnDisk(w)[path]) < Pow(4) \div 2
    BY <1>3, <1>4, <1>5, <1>7, <1>8
  <1>10. QED BY <1>6, <1>9 DEF Sound

-----------------------------------------------------------------------------
(* What disk_gen.py writes. *)

\* What the load begins with: the user's, in an order disk_gen.py may give it.
Users == cont \in Contents /\ Measured /\ shuffled \in Shuffles(cont.texts)

RowOf(t) == [number |-> encode(t.number), unreads |-> t.unreads, stamp |-> t.stamp,
             preview |-> Preview(t.message)]

\* The tables that are to be loaded of it.
Wanted == [contacts |-> Encoded.contacts,
           rows |-> [k \in 1 .. Len(shuffled) |-> RowOf(shuffled[k])],
           places |-> [k \in 1 .. Len(shuffled) |-> index_index[k] - 1]]

(* A text is encoded in bytes; a preview is not longer than PreviewMax.    *)
LEMMA EncodedIs ==
  \A s \in Seq(Characters) : /\ encode(s) \in Seq(Octets)
                             /\ Preview(s) \in Seq(Octets) /\ Len(Preview(s)) <= PreviewMax
  <1> SUFFICES ASSUME NEW s \in Seq(Characters)
               PROVE  /\ encode(s) \in Seq(Octets)
                      /\ Preview(s) \in Seq(Octets) /\ Len(Preview(s)) <= PreviewMax
    OBVIOUS
  <1>1. PICK b \in Seq(Octets) : b = encode(s)
    <2>1. encode(s) = Joined(Encoding, s)
      BY DEF encode, Joined
    <2>2. Encoding \in [Characters -> Seq(Octets)]
      BY LoadAssumption DEF Octets
    <2>3. QED BY <2>1, <2>2, JoinedFacts
  <1>2. PICK m \in Nat : m = PreviewMax /\ m >= 3
    BY LoadAssumption, FilesAssumption
  <1>3. CASE Len(b) <= m
    BY <1>1, <1>2, <1>3 DEF Preview
  <1>4. CASE ~ (Len(b) <= m)
    <2>1. Len(b) \in Nat /\ m - 3 \in 0 .. Len(b)
      BY <1>2, <1>4, LenProperties
    <2>2. PICK x, y \in Seq(Octets) : CutUp(b, 0, m - 3, x, y, b)
      BY <2>1, CutAt
    <2>3. x = SubSeq(b, 0 + 1, m - 3) /\ Len(x) + 0 = m - 3 /\ Len(x) \in Nat
      BY <2>2, LenProperties, Zenon DEF CutUp
    <2>4. x = SubSeq(b, 1, m - 3) /\ Len(x) = m - 3
      <3>1. 0 + 1 = 1 /\ Len(x) + 0 = Len(x)
        BY <2>3
      <3>2. QED BY <2>3, <3>1, Zenon
    <2>5. <<Dot, Dot, Dot>> \in Seq(Octets) /\ Len(<<Dot, Dot, Dot>>) = 3
      BY LoadAssumption DEF Octets
    <2>6. x \o <<Dot, Dot, Dot>> \in Seq(Octets) /\ Len(x \o <<Dot, Dot, Dot>>) = Len(x) + 3
      BY <2>5, ConcatProperties
    <2>7. Preview(s) = x \o <<Dot, Dot, Dot>>
      BY <1>1, <1>2, <1>4, <2>4, Zenon DEF Preview
    <2>8. QED BY <1>1, <1>2, <2>4, <2>6, <2>7
  <1>5. QED BY <1>3, <1>4

(* The user's contacts and texts, and the conversations as shuffled.       *)
LEMMA UsersAre ==
  ASSUME Users
  PROVE  /\ cont.contacts \in Seq([name : Seq(Characters), number : Seq(Characters)])
         /\ Len(cont.contacts) < Pow(2) \div 2
         /\ \A k \in 1 .. Len(cont.contacts) : \A f \in {"name", "number"} :
              /\ Len(cont.contacts[k][f]) < Base
              /\ Len(encode(cont.contacts[k][f])) = Len(cont.contacts[k][f])
         /\ cont.texts \in Seq([number : Seq(Characters), stamp : Seq(Octets), message : Seq(Characters)])
         /\ Len(cont.texts) < Pow(2) \div 2
         /\ \A k \in 1 .. Len(cont.texts) :
              /\ Len(cont.texts[k].number) < Base /\ Len(cont.texts[k].stamp) = StampLen
              /\ Len(encode(cont.texts[k].number)) = Len(cont.texts[k].number)
         /\ Len(shuffled) = Len(cont.texts) /\ DOMAIN shuffled = 1 .. Len(cont.texts)
         /\ \E p \in [1 .. Len(cont.texts) -> 1 .. Len(cont.texts)] :
              /\ \A k, l \in 1 .. Len(cont.texts) : p[k] = p[l] => k = l
              /\ \A k \in 1 .. Len(cont.texts) :
                   /\ shuffled[k].number = cont.texts[p[k]].number
                   /\ shuffled[k].stamp = cont.texts[p[k]].stamp
                   /\ shuffled[k].message = cont.texts[p[k]].message
                   /\ shuffled[k].unreads \in 0 .. 2
  <1>1. /\ cont.contacts \in Seq([name : Seq(Characters), number : Seq(Characters)])
        /\ cont.texts \in Seq([number : Seq(Characters), stamp : Seq(0 .. Base - 1), message : Seq(Characters)])
        /\ Len(cont.contacts) < Pow(2) \div 2 /\ Len(cont.texts) < Pow(2) \div 2
        /\ \A k \in DOMAIN cont.contacts : \A f \in {"name", "number"} : Len(cont.contacts[k][f]) < Base
        /\ \A k \in DOMAIN cont.texts : Len(cont.texts[k].number) < Base /\ Len(cont.texts[k].stamp) = StampLen
    BY LoadAssumption, Zenon DEF Users
  <1>2. DOMAIN cont.contacts = 1 .. Len(cont.contacts) /\ DOMAIN cont.texts = 1 .. Len(cont.texts)
        /\ Len(cont.contacts) \in Nat /\ Len(cont.texts) \in Nat
    BY <1>1, LenProperties
  <1>3. /\ \A k \in 1 .. Len(cont.contacts) : \A f \in {"name", "number"} :
             Len(encode(cont.contacts[k][f])) = Len(cont.contacts[k][f])
        /\ \A k \in 1 .. Len(cont.texts) : Len(encode(cont.texts[k].number)) = Len(cont.texts[k].number)
    BY <1>2 DEF Users, Measured
  <1> DEFINE n == Len(cont.texts)
  <1>4. PICK p \in [1 .. n -> 1 .. n], u \in [1 .. n -> 0 .. 2] :
          /\ \A k, l \in 1 .. n : p[k] = p[l] => k = l
          /\ shuffled = [k \in 1 .. n |-> [number |-> cont.texts[p[k]].number,
                                           stamp |-> cont.texts[p[k]].stamp,
                                           message |-> cont.texts[p[k]].message, unreads |-> u[k]]]
    <2> DEFINE texts == cont.texts
    <2>1. PICK s \in [order : Injection(DOMAIN texts, DOMAIN texts), unreads : [DOMAIN texts -> 0 .. 2]] :
            shuffled = [k \in DOMAIN texts |->
                          [number |-> texts[s.order[k]].number, stamp |-> texts[s.order[k]].stamp,
                           message |-> texts[s.order[k]].message, unreads |-> s.unreads[k]]]
      BY Zenon DEF Users, Shuffles
    <2>2. s.order \in Injection(1 .. n, 1 .. n) /\ s.unreads \in [1 .. n -> 0 .. 2]
      BY <1>2
    <2>3. /\ s.order \in [1 .. n -> 1 .. n]
          /\ \A k, l \in 1 .. n : s.order[k] = s.order[l] => k = l
      BY <2>2 DEF Injection, IsInjective
    <2>4. QED BY <1>2, <2>1, <2>2, <2>3
  <1>5. Len(shuffled) = n /\ DOMAIN shuffled = 1 .. n
    BY <1>2, <1>4
  <1>6. \A k \in 1 .. n : /\ shuffled[k].number = cont.texts[p[k]].number
                          /\ shuffled[k].stamp = cont.texts[p[k]].stamp
                          /\ shuffled[k].message = cont.texts[p[k]].message
                          /\ shuffled[k].unreads \in 0 .. 2
    BY <1>4
  <1>7. QED BY <1>1, <1>2, <1>3, <1>4, <1>5, <1>6 DEF Octets

(* The conversations as they are shuffled.                                 *)
LEMMA ShuffledAre ==
  ASSUME Users, NEW k \in 1 .. Len(cont.texts)
  PROVE  /\ shuffled[k].number \in Seq(Characters) /\ Len(shuffled[k].number) < Base
         /\ Len(encode(shuffled[k].number)) = Len(shuffled[k].number)
         /\ shuffled[k].stamp \in Seq(Octets) /\ Len(shuffled[k].stamp) = StampLen
         /\ shuffled[k].stamp \in [1 .. StampLen -> Nat]
         /\ shuffled[k].message \in Seq(Characters) /\ shuffled[k].unreads \in Octets
  <1>1. PICK p \in [1 .. Len(cont.texts) -> 1 .. Len(cont.texts)] :
          /\ shuffled[k].number = cont.texts[p[k]].number
          /\ shuffled[k].stamp = cont.texts[p[k]].stamp
          /\ shuffled[k].message = cont.texts[p[k]].message
          /\ shuffled[k].unreads \in 0 .. 2
    BY UsersAre, Zenon
  <1>2. p[k] \in 1 .. Len(cont.texts)
    OBVIOUS
  <1>3. cont.texts[p[k]] \in [number : Seq(Characters), stamp : Seq(Octets), message : Seq(Characters)]
    BY <1>2, UsersAre, ElementOfSeq
  <1>4. /\ Len(cont.texts[p[k]].number) < Base /\ Len(cont.texts[p[k]].stamp) = StampLen
        /\ Len(encode(cont.texts[p[k]].number)) = Len(cont.texts[p[k]].number)
    BY <1>2, UsersAre, Zenon
  <1>5. shuffled[k].unreads \in Octets
    BY <1>1, FilesAssumption DEF Octets
  <1>6. PICK s \in Seq(Octets) : s = shuffled[k].stamp /\ Len(s) = StampLen
    BY <1>1, <1>3, <1>4
  <1>7. s \in [1 .. StampLen -> Nat]
    <2>1. s \in [1 .. Len(s) -> Octets]
      BY LenProperties
    <2>2. \A o \in Octets : o \in Nat
      BY DEF Octets
    <2>3. QED BY <1>6, <2>1, <2>2
  <1>8. QED BY <1>1, <1>3, <1>4, <1>5, <1>6, <1>7

(* There is an order that sorted() gives, and it has every conversation.   *)
LEMMA IndexSorts ==
  ASSUME Users
  PROVE  /\ index_index \in [1 .. Len(cont.texts) -> 1 .. Len(cont.texts)]
         /\ \A k, l \in 1 .. Len(cont.texts) : k < l => Before(index_index[k], index_index[l])
         /\ \A m \in 1 .. Len(cont.texts) : \E k \in 1 .. Len(cont.texts) : index_index[k] = m
  <1>1. PICK n \in Nat : n = Len(cont.texts) /\ Len(shuffled) = n /\ DOMAIN shuffled = 1 .. n
    BY UsersAre, LenProperties
  <1>2. \A k \in 1 .. n : shuffled[k].stamp \in [1 .. StampLen -> Nat]
    BY <1>1, ShuffledAre
  <1>3. StampLen \in Nat
    BY LoadAssumption, FilesAssumption
  <1>4. Orders(Precedes, n)
    BY <1>1, <1>2, <1>3, BeforeOrders
  <1>5. \A k, l \in 1 .. n : <<k, l>> \in Precedes <=> Before(k, l)
    <2>1. ASSUME NEW k \in 1 .. n, NEW l \in 1 .. n PROVE <<k, l>> \in Precedes <=> Before(k, l)
      <3>1. <<k, l>>[1] = k /\ <<k, l>>[2] = l /\ <<k, l>> \in (1 .. n) \X (1 .. n)
        OBVIOUS
      <3>2. QED BY <1>1, <3>1, Zenon DEF Precedes
    <2>2. QED BY <2>1
  <1>6. \E s \in [1 .. n -> 1 .. n] : \A k, l \in 1 .. n : k < l => Before(s[k], s[l])
    <2>1. PICK s : Sorted(Precedes, n, s)
      BY <1>1, <1>4, CanBeSorted
    <2>2. s \in [1 .. n -> 1 .. n]
      BY <2>1 DEF Sorted
    <2>3. ASSUME NEW k \in 1 .. n, NEW l \in 1 .. n, k < l PROVE Before(s[k], s[l])
      <3>1. <<s[k], s[l]>> \in Precedes /\ s[k] \in 1 .. n /\ s[l] \in 1 .. n
        BY <2>1, <2>2, <2>3 DEF Sorted
      <3>2. QED BY <1>5, <3>1, Zenon
    <2>4. QED BY <2>2, <2>3
  <1>7. /\ index_index \in [1 .. n -> 1 .. n]
        /\ \A k, l \in 1 .. n : k < l => Before(index_index[k], index_index[l])
    <2> DEFINE P(s) == \A k, l \in DOMAIN s : k < l => Before(s[k], s[l])
    <2>1. \E s \in [1 .. n -> 1 .. n] : P(s)
      <3>1. PICK s \in [1 .. n -> 1 .. n] : \A k, l \in 1 .. n : k < l => Before(s[k], s[l])
        BY <1>6
      <3>2. DOMAIN s = 1 .. n
        OBVIOUS
      <3>3. P(s)
        BY <3>1, <3>2, Zenon
      <3>4. QED BY <3>3, Zenon
    <2>2. index_index = CHOOSE s \in [1 .. n -> 1 .. n] : P(s)
      BY <1>1, Zenon DEF index_index
    <2> HIDE DEF P
    <2>3. index_index \in [1 .. n -> 1 .. n] /\ P(index_index)
      BY <2>1, <2>2, Zenon
    <2>4. DOMAIN index_index = 1 .. n
      BY <2>3
    <2>5. QED BY <2>3, <2>4, Zenon DEF P
  <1>8. ASSUME NEW m \in 1 .. n PROVE \E k \in 1 .. n : index_index[k] = m
    <2>1. Sorted(Precedes, n, index_index)
      <3>1. ASSUME NEW k \in 1 .. n, NEW l \in 1 .. n, k < l
            PROVE  <<index_index[k], index_index[l]>> \in Precedes
        <4>1. index_index[k] \in 1 .. n /\ index_index[l] \in 1 .. n
          BY <1>7
        <4>2. Before(index_index[k], index_index[l])
          BY <1>7, <3>1, Zenon
        <4>3. QED BY <1>5, <4>1, <4>2, Zenon
      <3>2. QED BY <1>7, <3>1 DEF Sorted
    <2>2. QED BY <1>1, <1>4, <2>1, SortedIsComplete
  <1>9. QED BY <1>1, <1>7, <1>8

(* What is to be loaded fits the lengths that are written with it.         *)
LEMMA WantedIsWritten ==
  ASSUME Users
  PROVE  /\ Written(Wanted)
         /\ Len(Wanted.contacts) = Len(cont.contacts) /\ Len(Wanted.rows) = Len(cont.texts)
  <1>1. PICK n \in Nat : n = Len(cont.texts) /\ Len(shuffled) = n /\ DOMAIN shuffled = 1 .. n
    BY UsersAre, LenProperties
  <1>2. PICK m \in Nat : m = Len(cont.contacts) /\ DOMAIN cont.contacts = 1 .. m
    BY UsersAre, LenProperties
  <1>3. Wanted.contacts = [k \in 1 .. m |-> [name |-> encode(cont.contacts[k].name),
                                             number |-> encode(cont.contacts[k].number)]]
    BY <1>2 DEF Wanted, Encoded
  <1>4. /\ Wanted.rows = [k \in 1 .. n |-> RowOf(shuffled[k])]
        /\ Wanted.places = [k \in 1 .. n |-> index_index[k] - 1]
    BY <1>1 DEF Wanted
  <1>5. ASSUME NEW k \in 1 .. m
        PROVE  /\ encode(cont.contacts[k].name) \in Seq(Octets) /\ Len(encode(cont.contacts[k].name)) < Base
               /\ encode(cont.contacts[k].number) \in Seq(Octets) /\ Len(encode(cont.contacts[k].number)) < Base
    <2>1. cont.contacts[k] \in [name : Seq(Characters), number : Seq(Characters)]
      BY <1>2, UsersAre, ElementOfSeq
    <2>2. cont.contacts[k].name \in Seq(Characters) /\ cont.contacts[k].number \in Seq(Characters)
      BY <2>1
    <2>3. /\ Len(encode(cont.contacts[k].name)) < Base
          /\ Len(encode(cont.contacts[k].number)) < Base
      BY <1>2, UsersAre
    <2>4. QED BY <2>2, <2>3, EncodedIs
  <1>6. /\ Wanted.contacts \in Seq(Cards) /\ Len(Wanted.contacts) = m
        /\ \A k \in 1 .. m : Len(Wanted.contacts[k].name) < Base /\ Len(Wanted.contacts[k].number) < Base
    BY <1>3, <1>5 DEF Cards
  <1>7. ASSUME NEW k \in 1 .. n
        PROVE  /\ RowOf(shuffled[k]) \in Rows /\ Len(RowOf(shuffled[k]).number) < Base
               /\ Len(RowOf(shuffled[k]).preview) < Base /\ Len(RowOf(shuffled[k]).stamp) = StampLen
    <2>1. /\ shuffled[k].number \in Seq(Characters) /\ Len(shuffled[k].number) < Base
          /\ Len(encode(shuffled[k].number)) = Len(shuffled[k].number)
          /\ shuffled[k].stamp \in Seq(Octets) /\ Len(shuffled[k].stamp) = StampLen
          /\ shuffled[k].message \in Seq(Characters) /\ shuffled[k].unreads \in Octets
      BY <1>1, ShuffledAre
    <2>2. encode(shuffled[k].number) \in Seq(Octets)
      BY <2>1, EncodedIs
    <2>3. PICK v \in Seq(Octets) : v = Preview(shuffled[k].message) /\ Len(v) <= PreviewMax
      BY <2>1, EncodedIs
    <2>4. Len(v) < Base
      BY <2>3, LenProperties, LoadAssumption, FilesAssumption
    <2>5. QED BY <2>1, <2>2, <2>3, <2>4 DEF RowOf, Rows
  <1>8. /\ Wanted.rows \in Seq(Rows) /\ Len(Wanted.rows) = n
        /\ \A k \in 1 .. n : /\ Len(Wanted.rows[k].number) < Base /\ Len(Wanted.rows[k].preview) < Base
                             /\ Len(Wanted.rows[k].stamp) = StampLen
    BY <1>4, <1>7
  <1>9. Wanted.places \in [1 .. n -> 0 .. n - 1]
    <2>1. index_index \in [1 .. n -> 1 .. n]
      BY <1>1, IndexSorts
    <2>2. QED BY <1>4, <2>1
  <1>10. m < Pow(2) \div 2 /\ n < Pow(2) \div 2
    BY <1>1, <1>2, UsersAre
  <1>11. QED BY <1>1, <1>2, <1>6, <1>8, <1>9, <1>10 DEF Written

(* disk_gen.py writes what is to be loaded.                                *)
LEMMA GeneratedIsWanted ==
  ASSUME Users
  PROVE  DiskGenerated = OnDisk(Wanted)
  <1>1. PICK n \in Nat : n = Len(cont.texts) /\ Len(shuffled) = n /\ DOMAIN shuffled = 1 .. n
    BY UsersAre, LenProperties
  <1>2. PICK m \in Nat : m = Len(cont.contacts) /\ DOMAIN cont.contacts = 1 .. m
    BY UsersAre, LenProperties
  <1>3. Len(Wanted.contacts) = m /\ Len(Wanted.rows) = n
    BY <1>1, <1>2, WantedIsWritten
  <1>4. CardsOf(Wanted) = [k \in DOMAIN cont.contacts |-> ContactRecord(cont.contacts[k])]
    <2>1. ASSUME NEW k \in 1 .. m
          PROVE  CardBytes(Wanted.contacts[k]) = ContactRecord(cont.contacts[k])
      <3>1. /\ Wanted.contacts[k].name = encode(cont.contacts[k].name)
            /\ Wanted.contacts[k].number = encode(cont.contacts[k].number)
        BY <1>2 DEF Wanted, Encoded
      <3>2. /\ Len(encode(cont.contacts[k].name)) = Len(cont.contacts[k].name)
            /\ Len(encode(cont.contacts[k].number)) = Len(cont.contacts[k].number)
        BY <1>2, UsersAre
      <3>3. QED BY <3>1, <3>2, Zenon DEF CardBytes, ContactRecord, len_of_name
    <2>2. QED BY <1>2, <1>3, <2>1 DEF CardsOf
  <1>5. RowsOf(Wanted) = [k \in DOMAIN shuffled |-> TextRecord(index_index[k] - 1, shuffled[k])]
    <2>1. ASSUME NEW k \in 1 .. n
          PROVE  RowBytes(Wanted.places[k], Wanted.rows[k]) = TextRecord(index_index[k] - 1, shuffled[k])
      <3>1. Wanted.places[k] = index_index[k] - 1 /\ Wanted.rows[k] = RowOf(shuffled[k])
        BY <1>1 DEF Wanted
      <3>2. /\ RowOf(shuffled[k]).number = encode(shuffled[k].number)
            /\ RowOf(shuffled[k]).unreads = shuffled[k].unreads
            /\ RowOf(shuffled[k]).stamp = shuffled[k].stamp
            /\ RowOf(shuffled[k]).preview = Preview(shuffled[k].message)
        BY DEF RowOf
      <3>3. Len(encode(shuffled[k].number)) = Len(shuffled[k].number)
        BY <1>1, ShuffledAre
      <3>4. QED BY <3>1, <3>2, <3>3, Zenon DEF RowBytes, TextRecord
    <2>2. QED BY <1>1, <1>3, <2>1 DEF RowsOf
  <1>6. /\ contacts_file = Bytes(2, m) \o FlattenSeq(CardsOf(Wanted))
        /\ text_index_file = Bytes(2, n) \o FlattenSeq(RowsOf(Wanted))
    BY <1>1, <1>2, <1>4, <1>5, Zenon DEF contacts_file, text_index_file
  <1>7. QED BY <1>3, <1>6, Zenon DEF DiskGenerated, OnDisk

\* What look-ups find in the tables once they are loaded.
LookUps(w) == [contacts |-> Range(w.contacts),
               convos |-> [k \in 1 .. Len(w.rows) |-> w.rows[w.places[k] + 1]]]

(* It is what the user wrote.                                              *)
LEMMA WantedIsFaithful ==
  ASSUME Users
  PROVE  Promise!Faithful(LookUps(Wanted))
  <1>1. PICK n \in Nat : n = Len(cont.texts) /\ Len(shuffled) = n /\ DOMAIN shuffled = 1 .. n
                         /\ DOMAIN cont.texts = 1 .. n /\ Len(Wanted.rows) = n
    BY UsersAre, LenProperties, WantedIsWritten
  <1> DEFINE d == LookUps(Wanted)
  <1>2. \A k \in 1 .. n : index_index[k] \in 1 .. n
    BY <1>1, IndexSorts
  <1>3. /\ d.contacts = Range(Encoded.contacts)
        /\ d.convos = [k \in 1 .. n |-> Wanted.rows[Wanted.places[k] + 1]]
    BY <1>1 DEF LookUps, Wanted
  <1>4. \A k \in 1 .. n : d.convos[k] = RowOf(shuffled[index_index[k]])
    <2>1. ASSUME NEW k \in 1 .. n PROVE d.convos[k] = RowOf(shuffled[index_index[k]])
      <3>1. d.convos[k] = Wanted.rows[Wanted.places[k] + 1]
        BY <1>3
      <3>2. Wanted.places[k] = index_index[k] - 1
        BY <1>1 DEF Wanted
      <3>3. (index_index[k] - 1) + 1 = index_index[k] /\ index_index[k] \in 1 .. n
        BY <1>2
      <3>4. \A l \in 1 .. n : Wanted.rows[l] = RowOf(shuffled[l])
        BY <1>1 DEF Wanted
      <3>5. QED BY <3>1, <3>2, <3>3, <3>4, Zenon
    <2>2. QED BY <2>1
  <1>5. DOMAIN d.convos = 1 .. n /\ Len(d.convos) = n
    BY <1>3
  <1>6. PICK p \in [1 .. n -> 1 .. n] :
          /\ \A k, l \in 1 .. n : p[k] = p[l] => k = l
          /\ \A k \in 1 .. n : /\ shuffled[k].number = cont.texts[p[k]].number
                               /\ shuffled[k].stamp = cont.texts[p[k]].stamp
                               /\ shuffled[k].message = cont.texts[p[k]].message
                               /\ shuffled[k].unreads \in 0 .. 2
    <2>1. Len(cont.texts) = n
      BY <1>1
    <2>2. \E p \in [1 .. Len(cont.texts) -> 1 .. Len(cont.texts)] :
            /\ \A k, l \in 1 .. Len(cont.texts) : p[k] = p[l] => k = l
            /\ \A k \in 1 .. Len(cont.texts) :
                 /\ shuffled[k].number = cont.texts[p[k]].number
                 /\ shuffled[k].stamp = cont.texts[p[k]].stamp
                 /\ shuffled[k].message = cont.texts[p[k]].message
                 /\ shuffled[k].unreads \in 0 .. 2
      BY UsersAre, Zenon
    <2>3. QED BY <2>1, <2>2, Zenon
  <1>7. ASSUME NEW k \in 1 .. n, NEW l \in 1 .. n, k < l
        PROVE  ~ Later(d.convos[l].stamp, d.convos[k].stamp)
    <2> DEFINE s == shuffled[index_index[k]].stamp
               t == shuffled[index_index[l]].stamp
    <2>1. d.convos[l].stamp = t /\ d.convos[k].stamp = s
      <3> HIDE DEF d
      <3>1. d.convos[l] = RowOf(shuffled[index_index[l]]) /\ d.convos[k] = RowOf(shuffled[index_index[k]])
        BY <1>4
      <3>2. RowOf(shuffled[index_index[l]]).stamp = t /\ RowOf(shuffled[index_index[k]]).stamp = s
        BY DEF RowOf
      <3>3. QED BY <3>1, <3>2, Zenon
    <2>2. Later(s, t) \/ s = t
      <3>1. Before(index_index[k], index_index[l])
        BY <1>1, <1>7, IndexSorts
      <3>2. QED BY <3>1, Zenon DEF Before
    <2>3. s \in [1 .. StampLen -> Nat] /\ t \in [1 .. StampLen -> Nat] /\ StampLen \in Nat
      <3>1. index_index[k] \in 1 .. Len(cont.texts) /\ index_index[l] \in 1 .. Len(cont.texts)
        BY <1>1, <1>2
      <3>2. s \in [1 .. StampLen -> Nat] /\ t \in [1 .. StampLen -> Nat]
        BY <3>1, ShuffledAre, Zenon
      <3>3. StampLen \in Nat
        BY LoadAssumption, FilesAssumption
      <3>4. QED BY <3>2, <3>3, Zenon
    <2>4. ~ Later(t, s)
      <3> HIDE DEF s, t
      <3>1. ~ Later(s, s) /\ (Later(s, t) /\ Later(t, s) => Later(s, s))
        BY <2>3, LaterOrders
      <3>2. QED BY <2>2, <3>1, Zenon
    <2>5. QED BY <2>1, <2>4, Zenon
  <1>8. ASSUME NEW m \in 1 .. n
        PROVE  \E k \in 1 .. n : d.convos[k] = Promise!Summary(Encoded.texts[m], d.convos[k].unreads)
    <2> HIDE DEF d
    <2>1. PICK q \in 1 .. n : p[q] = m
      <3>1. p \in Injection(1 .. n, 1 .. n) /\ IsFiniteSet(1 .. n)
        <4>1. DOMAIN p = 1 .. n
          OBVIOUS
        <4>2. IsInjective(p)
          BY <1>6, <4>1, Zenon DEF IsInjective
        <4>3. QED BY <4>2, FS_Interval DEF Injection
      <3>2. p \in Surjection(1 .. n, 1 .. n)
        BY <3>1, FS_Injection
      <3>3. QED BY <3>2 DEF Surjection
    <2>2. PICK k \in 1 .. n : index_index[k] = q
      BY <1>1, IndexSorts
    <2>3. d.convos[k] = RowOf(shuffled[q])
      BY <1>4, <2>2
    <2>4. Encoded.texts[m] = [number |-> encode(cont.texts[m].number), stamp |-> cont.texts[m].stamp,
                              preview |-> Preview(cont.texts[m].message)]
      BY <1>1 DEF Encoded
    <2>5. shuffled[q].number = cont.texts[m].number /\ shuffled[q].stamp = cont.texts[m].stamp
          /\ shuffled[q].message = cont.texts[m].message
      BY <1>6, <2>1
    <2>6. RowOf(shuffled[q]) = Promise!Summary(Encoded.texts[m], RowOf(shuffled[q]).unreads)
      BY <2>4, <2>5 DEF RowOf, Promise!Summary
    <2>7. QED BY <2>3, <2>6
  <1>9. \A k \in 1 .. n : d.convos[k].unreads \in 0 .. 2
    <2> HIDE DEF d
    <2>1. ASSUME NEW k \in 1 .. n PROVE d.convos[k].unreads \in 0 .. 2
      <3>1. index_index[k] \in 1 .. n /\ d.convos[k] = RowOf(shuffled[index_index[k]])
        BY <1>2, <1>4
      <3>2. shuffled[index_index[k]].unreads \in 0 .. 2
        BY <1>6, <3>1, Zenon
      <3>3. QED BY <3>1, <3>2 DEF RowOf
    <2>2. QED BY <2>1
  <1>10. Len(Encoded.texts) = n /\ DOMAIN Encoded.texts = 1 .. n
    BY <1>1 DEF Encoded
  <1>11. d.contacts = Promise!Range(Encoded.contacts)
    BY <1>3, Zenon DEF Range, Promise!Range
  <1>12. ASSUME NEW t \in Promise!Range(Encoded.texts)
         PROVE  \E k \in DOMAIN d.convos : d.convos[k] = Promise!Summary(t, d.convos[k].unreads)
    <2> HIDE DEF d
    <2>1. PICK m \in 1 .. n : t = Encoded.texts[m]
      BY <1>10, Zenon DEF Promise!Range
    <2>2. QED BY <1>5, <1>8, <2>1, Zenon
  <1> HIDE DEF d
  <1>13. Promise!Faithful(d)
    BY <1>5, <1>7, <1>9, <1>10, <1>11, <1>12 DEF Promise!Faithful
  <1>14. QED BY <1>13 DEF d

-----------------------------------------------------------------------------
(* The invariant of the load. *)

Opens == {"open_contacts", "open_text_index"}
Closes == {"close_contacts", "close_text_index"}
PathOf(at) ==
  IF at \in {"open_contacts", "contacts_len", "close_contacts"} \cup FieldReads
  THEN ContactsPath ELSE TextIndexPath

LocalsNow(w) ==
  /\ pc \in Opens \cup Reads \cup Closes \cup {"done"}
  /\ lock = IF pc = "done" THEN "free" ELSE "held"
  /\ fd \in 0 .. MaxFd /\ i \in 0 .. Len(w.contacts) + Len(w.rows)
  /\ j \in 1 .. 2 /\ u8len \in Octets
  /\ Places(w, pc, i, j)
  /\ pc \in {"field", "number", "preview"} => u8len = Len(Due(w, pc, i, j))

\* Only the loader uses the files, and asks for what stands at pc.
CallNow == data = [c \in Clients |-> IF c = Loader THEN data[Loader] ELSE Nothing]
           /\ data[Loader] \in {Nothing, Op} /\ (pc = "done" => data[Loader] = Nothing)

\* One file is open, and this is what is left of it.
OneOpen(x, path, rest) ==
  /\ DOMAIN files = {x} /\ files[x].path = path
  /\ files[x].pos \in 0 .. Len(disk[path]) /\ Beyond(disk[path], files[x].pos) = rest

FilesNow(w) ==
  LET answer == Results[Loader] IN
  /\ pc = "done" => DOMAIN files = {}
  /\ pc \in Opens => IF answer = Nothing THEN DOMAIN files = {}
                     ELSE /\ answer \in 0 .. MaxFd
                          /\ OneOpen(answer, PathOf(pc), OnDisk(w)[PathOf(pc)])
  /\ pc \in Reads => IF answer = Nothing THEN OneOpen(fd, PathOf(pc), Remaining(w, pc, i, j))
                     ELSE answer = Due(w, pc, i, j) /\ OneOpen(fd, PathOf(pc), Ahead(w, pc, i, j))
  /\ pc \in Closes => DOMAIN files = IF answer = Nothing THEN {fd} ELSE {}

ContactsNow(w) ==
  LET m == Len(w.contacts) IN
  /\ pc \in {"open_contacts", "contacts_len"} => contacts_len = 0 /\ contacts = << >>
  /\ pc \in FieldReads => /\ contacts_len = m /\ contacts \in [1 .. m -> Cards]
                          /\ \A k \in 1 .. i : contacts[k] = w.contacts[k]
                          /\ j = 2 => contacts[i + 1].name = w.contacts[i + 1].name
  /\ pc \notin {"open_contacts", "contacts_len"} \cup FieldReads => contacts_len = m /\ contacts = w.contacts

TextsNow(w) ==
  LET n == Len(w.rows) IN
  /\ pc \notin TextReads \cup {"close_text_index", "done"} =>
       text_index_len = 0 /\ text_index = << >> /\ text_index_index = << >>
  /\ pc \in TextReads =>
       /\ text_index_len = n /\ text_index \in [1 .. n -> Rows] /\ text_index_index \in [1 .. n -> Int]
       /\ \A k \in 1 .. i : text_index[k] = w.rows[k] /\ text_index_index[k] = w.places[k]
       /\ pc # "position" => text_index_index[i + 1] = w.places[i + 1]
       /\ pc \in {"unreads", "timestamp", "preview_len", "preview"} =>
            text_index[i + 1].number = w.rows[i + 1].number
       /\ pc \in {"timestamp", "preview_len", "preview"} =>
            text_index[i + 1].unreads = w.rows[i + 1].unreads
       /\ pc \in {"preview_len", "preview"} => text_index[i + 1].stamp = w.rows[i + 1].stamp
  /\ pc \in {"close_text_index", "done"} =>
       text_index_len = n /\ text_index = w.rows /\ text_index_index = w.places

\* w is what is to be loaded.
Goal(w) ==
  /\ Written(w) /\ Promise!Faithful(LookUps(w))
  /\ Len(w.contacts) = Len(cont.contacts) /\ Len(w.rows) = Len(cont.texts)

LoadingInv(w) ==
  /\ Goal(w) /\ disk = OnDisk(w) /\ host_up = TRUE
  /\ FilesInv /\ CallNow /\ LocalsNow(w) /\ FilesNow(w) /\ ContactsNow(w) /\ TextsNow(w)

LoadInv == \E w : LoadingInv(w)

(* What initial_load asks for at each place.                               *)
LEMMA OpIs ==
  ASSUME NEW w, Written(w), LocalsNow(w)
  PROVE  /\ pc # "done" => Op \in Ops
         /\ pc \in Opens => Op.op = "open" /\ Op.path = PathOf(pc) /\ Op.path \in DOMAIN OnDisk(w)
         /\ pc \in Reads => Op.op = "read" /\ Op.fd = fd /\ Op.n = Len(Due(w, pc, i, j))
         /\ pc \in Closes => Op.op = "close" /\ Op.fd = fd
  <1>1. /\ [op : {"open"}, path : {ContactsPath, TextIndexPath}] \subseteq Ops
        /\ [op : {"close"}, fd : 0 .. MaxFd] \subseteq Ops
        /\ [op : {"read"}, fd : 0 .. MaxFd, n : Octets] \subseteq Ops
    BY LoadAssumption DEF Octets
  <1>2. CASE pc \in Opens
    <2>1. Op = [op |-> "open", path |-> PathOf(pc)]
      BY <1>2 DEF Op, Opens, PathOf, FieldReads
    <2>2. PathOf(pc) \in {ContactsPath, TextIndexPath} /\ DOMAIN OnDisk(w) = {ContactsPath, TextIndexPath}
      BY DiskIsSound DEF PathOf
    <2>3. Op \in [op : {"open"}, path : {ContactsPath, TextIndexPath}]
      BY <2>1, <2>2
    <2>4. pc \notin Reads /\ pc \notin Closes
      BY <1>2 DEF Opens, Reads, Closes, FieldReads, TextReads
    <2>5. QED BY <1>1, <2>1, <2>2, <2>3, <2>4
  <1>3. CASE pc \in Reads
    <2>1. Op = [op |-> "read", fd |-> fd, n |-> Len(Due(w, pc, i, j))]
      <3> DEFINE due == Len(Due(w, pc, i, j))
      <3>1. /\ pc \in {"contacts_len", "text_index_len", "position"} => due = 2
            /\ pc \in {"field_len", "number_len", "unreads", "preview_len"} => due = 1
            /\ pc = "timestamp" => due = StampLen
            /\ pc \in {"field", "number", "preview"} => due = u8len
        BY <1>3, DueIs, Zenon DEF LocalsNow
      <3> HIDE DEF due
      <3>2. QED BY <1>3, <3>1 DEF Op, Reads, FieldReads, TextReads, due
    <2>2. Len(Due(w, pc, i, j)) \in Octets /\ fd \in 0 .. MaxFd
      BY <1>3, DueIs, Zenon DEF LocalsNow
    <2>3. Op \in [op : {"read"}, fd : 0 .. MaxFd, n : Octets]
      BY <2>1, <2>2
    <2>4. pc \notin Opens /\ pc \notin Closes
      BY <1>3 DEF Opens, Reads, Closes, FieldReads, TextReads
    <2>5. QED BY <1>1, <2>1, <2>3, <2>4
  <1>4. CASE pc \in Closes
    <2>1. Op = [op |-> "close", fd |-> fd]
      BY <1>4 DEF Op, Closes
    <2>2. Op \in [op : {"close"}, fd : 0 .. MaxFd]
      BY <2>1 DEF LocalsNow
    <2>3. pc \notin Opens /\ pc \notin Reads
      BY <1>4 DEF Opens, Reads, Closes, FieldReads, TextReads
    <2>4. QED BY <1>1, <2>1, <2>2, <2>3
  <1>5. CASE pc = "done"
    BY <1>5 DEF Opens, Reads, Closes, FieldReads, TextReads
  <1>6. QED BY <1>2, <1>3, <1>4, <1>5 DEF LocalsNow

(* The loader's call is the only one; while it waits it has no result.     *)
LEMMA OnlyLoader ==
  ASSUME FilesInv, CallNow
  PROVE  /\ Loader \in Clients /\ (data[Loader] = Nothing => Results[Loader] = Nothing)
         /\ Results[Loader] # Nothing <=> Answered(Loader)
         /\ requests # << >> => Head(requests) = Loader /\ data[Loader] # Nothing /\ Results[Loader] = Nothing
  <1>1. Loader \in Clients
    BY LoadAssumption
  <1>2. Results[Loader] = IF Answered(Loader) THEN fs_result(data[Loader], host_data[Loader].ret) ELSE Nothing
    BY <1>1 DEF Results
  <1>3. Answered(Loader) => Results[Loader] # Nothing
    BY <1>1, Zenon DEF FilesInv, CallsInv
  <1>4. ASSUME requests # << >>
        PROVE  Head(requests) = Loader /\ data[Loader] # Nothing /\ Results[Loader] = Nothing
    <2>1. requests \in Seq(Clients) /\ 1 \in 1 .. Len(requests)
      BY <1>4, LenProperties, EmptySeq DEF FilesInv, QueueInv
    <2>2. Head(requests) = requests[1] /\ requests[1] \in Clients /\ Pending(requests[1])
      BY <2>1, ElementOfSeq DEF FilesInv, QueueInv
    <2>3. requests[1] = Loader
      <3>1. data[requests[1]] # Nothing
        BY <2>2 DEF Pending
      <3>2. \A c \in Clients : data[c] = IF c = Loader THEN data[Loader] ELSE Nothing
        BY DEF CallNow
      <3>3. QED BY <2>2, <3>1, <3>2
    <2>4. data[Loader] # Nothing /\ ~ Answered(Loader)
      BY <2>2, <2>3 DEF Pending, Answered
    <2>5. QED BY <1>2, <2>2, <2>3, <2>4
  <1>5. data[Loader] = Nothing => ~ Answered(Loader)
    BY DEF Answered
  <1>6. QED BY <1>1, <1>2, <1>3, <1>4, <1>5

(* The host serves it: what can be done is done to the open files.         *)
LEMMA LoaderServed ==
  ASSUME FilesInv, CallNow, HostServes, NEW d, d = data[Loader], ~ Impossible(d),
         d.op \in {"open", "close", "read"}
  PROVE  /\ FilesInv' /\ disk' = disk /\ data' = data /\ host_up' = host_up
         /\ d # Nothing /\ Results[Loader] = Nothing
         /\ d.op = "open" =>
              \E x \in 0 .. MaxFd : /\ Results'[Loader] = x /\ x \notin DOMAIN files
                                    /\ files' = Service!With(files, x, [path |-> d.path, pos |-> 0])
         /\ d.op = "close" => Results'[Loader] = "closed" /\ files' = Service!Without(files, d.fd)
         /\ d.op = "read" =>
              LET file == disk[files[d.fd].path]  pos == files[d.fd].pos IN
              /\ Results'[Loader] = SubSeq(file, pos + 1, pos + d.n)
              /\ files' = [files EXCEPT ![d.fd].pos = @ + d.n]
  <1>1. requests # << >> /\ Head(requests) = Loader /\ d # Nothing /\ Loader \in Clients
    BY OnlyLoader DEF HostServes
  <1>2. Service!Perform(Loader) /\ \E ret, new : Answers(Loader, ret, new)
    BY <1>1, HostServesDone
  <1>3. PICK ret, new : Answers(Loader, ret, new)
    BY <1>2
  <1>4. Results[Loader] = Nothing /\ FilesInv' /\ Results' = [Results EXCEPT ![Loader] = fs_result(d, ret)]
    BY <1>1, <1>3, AnswerAdds
  <1>5. disk' = disk /\ data' = data /\ host_up' = host_up
    BY <1>3 DEF Answers, Reply
  <1>6. \/ Service!Open(Loader, d) \/ Service!Close(Loader, d) \/ Service!Size(Loader, d)
        \/ Service!Read(Loader, d) \/ Service!Seek(Loader, d)
    BY <1>2, Zenon DEF Service!Perform
  <1>7. \A r : Service!Answer(Loader, r) => Results'[Loader] = r
    <2>1. ASSUME NEW r, Service!Answer(Loader, r) PROVE Results' = [Results EXCEPT ![Loader] = r]
      BY <2>1, Zenon DEF Service!Answer, Results
    <2>2. \A r : [Results EXCEPT ![Loader] = r][Loader] = r
      BY <1>1 DEF Results
    <2>3. QED BY <2>1, <2>2, Zenon
  <1>8. ASSUME d.op = "open"
        PROVE  \E x \in 0 .. MaxFd : /\ Results'[Loader] = x /\ x \notin DOMAIN files
                                     /\ files' = Service!With(files, x, [path |-> d.path, pos |-> 0])
    <2>1. Service!Open(Loader, d)
      BY <1>6, <1>8 DEF Service!Close, Service!Size, Service!Read, Service!Seek
    <2>2. QED BY <1>7, <2>1, Zenon DEF Service!Open
  <1>9. ASSUME d.op = "close"
        PROVE  Results'[Loader] = "closed" /\ files' = Service!Without(files, d.fd)
    <2>1. Service!Close(Loader, d)
      BY <1>6, <1>9 DEF Service!Open, Service!Size, Service!Read, Service!Seek
    <2>2. QED BY <1>7, <2>1, Zenon DEF Service!Close
  <1>10. ASSUME d.op = "read"
         PROVE  LET file == disk[files[d.fd].path]  pos == files[d.fd].pos IN
                /\ Results'[Loader] = SubSeq(file, pos + 1, pos + d.n)
                /\ files' = [files EXCEPT ![d.fd].pos = @ + d.n]
    <2>1. Service!Read(Loader, d)
      BY <1>6, <1>10 DEF Service!Open, Service!Size, Service!Close, Service!Seek
    <2>2. QED BY <1>7, <2>1, Zenon DEF Service!Read, Service!At
  <1>11. QED BY <1>1, <1>4, <1>5, <1>8, <1>9, <1>10

(* What is to be loaded stays as the user's contents do.                   *)
LEMMA GoalStays ==
  ASSUME NEW w, Goal(w), cont' = cont
  PROVE  Goal(w)' /\ Encoded' = Encoded
  <1>1. Encoded' = Encoded
    BY DEF Encoded
  <1>2. Promise!Faithful(LookUps(w))'
    BY <1>1 DEF Promise!Faithful, Goal
  <1>3. Goal(w)'
    BY <1>2 DEF Goal
  <1>4. QED BY <1>1, <1>3

(* A step that changes neither places, locals nor tables leaves what is to *)
(* be loaded, and what has been.                                           *)
LEMMA Unmoved ==
  ASSUME NEW w, Goal(w), LocalsNow(w), ContactsNow(w), TextsNow(w),
         UNCHANGED <<cont, shuffled, pc, lock, locals, tables>>
  PROVE  /\ Goal(w)' /\ LocalsNow(w)' /\ ContactsNow(w)' /\ TextsNow(w)' /\ Op' = Op
  <1>1. /\ cont' = cont /\ pc' = pc /\ lock' = lock /\ fd' = fd /\ i' = i /\ j' = j /\ u8len' = u8len
        /\ contacts' = contacts /\ contacts_len' = contacts_len /\ text_index_len' = text_index_len
        /\ text_index' = text_index /\ text_index_index' = text_index_index
    BY DEF locals, tables
  <1>2. LocalsNow(w)'
    BY <1>1 DEF LocalsNow
  <1>3. ContactsNow(w)' /\ TextsNow(w)'
    BY <1>1 DEF ContactsNow, TextsNow
  <1>4. Op' = Op
    BY <1>1 DEF Op
  <1>5. Goal(w)'
    BY <1>1, GoalStays
  <1>6. QED BY <1>2, <1>3, <1>4, <1>5

(* A call asks for what the place needs; nothing else changes.             *)
LEMMA CallsLoads ==
  ASSUME NEW w, LoadingInv(w), LoadCalls
  PROVE  LoadingInv(w)'
  <1>1. pc # "done" /\ fs_call(Loader, Op) /\ UNCHANGED <<cont, shuffled, pc, lock, locals, tables>>
    BY DEF LoadCalls
  <1>2. Written(w) /\ LocalsNow(w) /\ FilesInv /\ CallNow /\ Loader \in Clients
    BY LoadAssumption DEF LoadingInv, Goal
  <1>3. Op \in Ops
    BY <1>1, <1>2, OpIs
  <1>4. FilesInv' /\ Service!Ask(Loader, Op)
    BY <1>1, <1>2, <1>3, CallAsks
  <1>5. Results' = Results
    BY <1>4, Zenon DEF Service!Ask, Results
  <1>6. /\ data[Loader] = Nothing /\ data' = [data EXCEPT ![Loader] = Op]
        /\ disk' = disk /\ files' = files /\ host_up' = host_up
    BY <1>1 DEF fs_call
  <1>7. /\ Goal(w)' /\ LocalsNow(w)' /\ ContactsNow(w)' /\ TextsNow(w)' /\ Op' = Op
    BY <1>1, Unmoved DEF LoadingInv
  <1>8. CallNow'
    <2>1. data' = [c \in Clients |-> IF c = Loader THEN Op ELSE Nothing]
      BY <1>2, <1>6 DEF CallNow
    <2>2. data'[Loader] = Op
      BY <1>2, <2>1
    <2>3. pc' = pc
      BY <1>1
    <2>4. QED BY <1>1, <1>7, <2>1, <2>2, <2>3 DEF CallNow
  <1>9. FilesNow(w)'
    <2>1. pc' = pc /\ fd' = fd /\ i' = i /\ j' = j
      BY <1>1 DEF locals
    <2>2. Results'[Loader] = Results[Loader]
      BY <1>5
    <2>3. FilesNow(w)
      BY DEF LoadingInv
    <2>4. QED BY <1>6, <2>1, <2>2, <2>3, Zenon DEF FilesNow, OneOpen
  <1>10. QED BY <1>4, <1>6, <1>7, <1>8, <1>9 DEF LoadingInv

(* Nothing the load asks for is impossible.                                *)
LEMMA LoadCanBeServed ==
  ASSUME NEW w, LoadingInv(w), requests # << >>
  PROVE  /\ data[Loader] = Op /\ pc # "done" /\ ~ Impossible(Op)
         /\ pc \in Reads => /\ fd \in DOMAIN files /\ files[fd].path = PathOf(pc)
                            /\ Op.n \in 0 .. Len(disk[PathOf(pc)]) - files[fd].pos
  <1>1. Written(w) /\ LocalsNow(w) /\ FilesInv /\ CallNow /\ FilesNow(w) /\ disk = OnDisk(w)
    BY DEF LoadingInv, Goal
  <1>2. data[Loader] # Nothing /\ Results[Loader] = Nothing
    BY <1>1, OnlyLoader
  <1>3. data[Loader] = Op /\ pc # "done"
    BY <1>1, <1>2 DEF CallNow
  <1>4. CASE pc \in Opens
    <2>1. Op.op = "open" /\ Op.path \in DOMAIN disk
      BY <1>1, <1>4, OpIs
    <2>2. pc \notin Reads
      BY <1>4 DEF Opens, Reads, FieldReads, TextReads
    <2>3. ~ AllInUse
      <3>1. DOMAIN files = {}
        BY <1>1, <1>2, <1>4 DEF FilesNow
      <3>2. 0 \in 0 .. MaxFd
        BY FilesAssumption
      <3>3. QED BY <3>1, <3>2 DEF AllInUse
    <2>4. QED BY <1>3, <2>1, <2>2, <2>3 DEF Impossible
  <1>5. CASE pc \in Closes
    <2>1. Op.op = "close" /\ Op.fd = fd
      BY <1>1, <1>5, OpIs
    <2>2. DOMAIN files = {fd}
      BY <1>1, <1>2, <1>5 DEF FilesNow
    <2>3. pc \notin Reads
      BY <1>5 DEF Closes, Reads, FieldReads, TextReads
    <2>4. QED BY <1>3, <2>1, <2>2, <2>3 DEF Impossible
  <1>6. CASE pc \in Reads
    <2>1. Op.op = "read" /\ Op.fd = fd /\ Op.n = Len(Due(w, pc, i, j))
      BY <1>1, <1>6, OpIs
    <2>2. OneOpen(fd, PathOf(pc), Remaining(w, pc, i, j))
      BY <1>1, <1>2, <1>6 DEF FilesNow
    <2>3. /\ Due(w, pc, i, j) \in Seq(Octets) /\ Len(Due(w, pc, i, j)) \in Octets
          /\ Ahead(w, pc, i, j) \in Seq(Octets)
      BY <1>1, <1>6, DueIs, AheadIs, Zenon DEF LocalsNow
    <2>4. disk[PathOf(pc)] \in Seq(Octets)
      <3>1. PathOf(pc) \in DOMAIN disk
        BY <1>1, DiskIsSound DEF PathOf
      <3>2. QED BY <1>1, <3>1, Zenon DEF FilesInv, HostInv, Sound, Octets
    <2> DEFINE pos == files[fd].pos
               len == Len(disk[PathOf(pc)])
               n == Len(Due(w, pc, i, j))
    <2>5. pos + n \in 0 .. len
      BY <2>2, <2>3, <2>4, ReadOn, Zenon DEF OneOpen, Remaining, Leaves
    <2>6. pos \in 0 .. len /\ len \in Nat /\ n \in Octets /\ n \in Nat
      BY <2>2, <2>3, <2>4, LenProperties DEF OneOpen
    <2>7. InFile(fd) = disk[PathOf(pc)] /\ fd \in DOMAIN files /\ files[fd].path = PathOf(pc)
      BY <2>2 DEF OneOpen, InFile
    <2>8. n \in 0 .. len - pos /\ n \in 0 .. Rest(fd) /\ ~ (n >= Base)
      <3>1. Rest(fd) = IF pos < len THEN len - pos ELSE 0
        BY <2>7 DEF Rest
      <3>2. Base \in Nat
        BY FilesAssumption
      <3> HIDE DEF pos, len, n
      <3>3. QED BY <2>5, <2>6, <3>1, <3>2 DEF Octets
    <2>9. ~ Impossible(Op)
      <3>1. Impossible(Op) <=> (Op.n \notin 0 .. Rest(Op.fd) \/ Op.n >= Base)
        BY <2>1, <2>7 DEF Impossible
      <3>2. QED BY <2>1, <2>8, <3>1
    <2>10. QED BY <1>3, <2>1, <2>7, <2>8, <2>9
  <1>7. QED BY <1>1, <1>3, <1>4, <1>5, <1>6 DEF LocalsNow

(* The host opens, reads or closes what stands at the place.               *)
LEMMA ServesLoads ==
  ASSUME NEW w, LoadingInv(w), Serves
  PROVE  LoadingInv(w)'
  <1>1. Written(w) /\ LocalsNow(w) /\ FilesInv /\ CallNow /\ FilesNow(w) /\ disk = OnDisk(w) /\ host_up = TRUE
    BY DEF LoadingInv, Goal
  <1>2. HostServes /\ UNCHANGED <<cont, shuffled, pc, lock, locals, tables>> /\ requests # << >>
    BY DEF Serves, HostServes
  <1>3. /\ data[Loader] = Op /\ pc # "done" /\ ~ Impossible(Op)
        /\ pc \in Reads => /\ fd \in DOMAIN files /\ files[fd].path = PathOf(pc)
                           /\ Op.n \in 0 .. Len(disk[PathOf(pc)]) - files[fd].pos
    BY <1>2, LoadCanBeServed
  <1>4. /\ pc \in Opens => Op.op = "open" /\ Op.path = PathOf(pc) /\ Op.path \in DOMAIN OnDisk(w)
        /\ pc \in Reads => Op.op = "read" /\ Op.fd = fd /\ Op.n = Len(Due(w, pc, i, j))
        /\ pc \in Closes => Op.op = "close" /\ Op.fd = fd
    BY <1>1, OpIs
  <1>5. pc \in Opens \cup Reads \cup Closes
    BY <1>1, <1>3 DEF LocalsNow
  <1>6. Op.op \in {"open", "close", "read"}
    BY <1>4, <1>5
  <1>7. /\ FilesInv' /\ disk' = disk /\ data' = data /\ host_up' = host_up
        /\ Op # Nothing /\ Results[Loader] = Nothing
        /\ Op.op = "open" =>
             \E x \in 0 .. MaxFd : /\ Results'[Loader] = x /\ x \notin DOMAIN files
                                   /\ files' = Service!With(files, x, [path |-> Op.path, pos |-> 0])
        /\ Op.op = "close" => Results'[Loader] = "closed" /\ files' = Service!Without(files, Op.fd)
        /\ Op.op = "read" =>
             LET file == disk[files[Op.fd].path]  pos == files[Op.fd].pos IN
             /\ Results'[Loader] = SubSeq(file, pos + 1, pos + Op.n)
             /\ files' = [files EXCEPT ![Op.fd].pos = @ + Op.n]
    BY <1>1, <1>2, <1>3, <1>6, LoaderServed
  <1>8. /\ Goal(w)' /\ LocalsNow(w)' /\ ContactsNow(w)' /\ TextsNow(w)' /\ Op' = Op
    BY <1>2, Unmoved DEF LoadingInv
  <1>9. pc' = pc /\ fd' = fd /\ i' = i /\ j' = j
    BY <1>2 DEF locals
  <1>10. CallNow'
    BY <1>1, <1>7, <1>8, <1>9 DEF CallNow
  <1>11. CASE pc \in Opens
    <2>1. PICK x \in 0 .. MaxFd : /\ Results'[Loader] = x /\ x \notin DOMAIN files
                                  /\ files' = Service!With(files, x, [path |-> Op.path, pos |-> 0])
      BY <1>4, <1>7, <1>11
    <2>2. DOMAIN files = {}
      BY <1>1, <1>7, <1>11 DEF FilesNow
    <2>3. DOMAIN files' = {x} /\ files'[x].path = PathOf(pc) /\ files'[x].pos = 0
      BY <1>4, <1>11, <2>1, <2>2 DEF Service!With
    <2>4. Beyond(disk[PathOf(pc)], 0) = disk[PathOf(pc)] /\ 0 \in 0 .. Len(disk[PathOf(pc)])
      <3>1. disk[PathOf(pc)] \in Seq(Octets)
        BY <1>1, <1>4, <1>11, Zenon DEF FilesInv, HostInv, Sound, Octets
      <3>2. Len(disk[PathOf(pc)]) \in Nat
        BY <3>1, LenProperties
      <3>3. 0 \in 0 .. Len(disk[PathOf(pc)])
        BY <3>2
      <3>4. /\ Beyond(disk[PathOf(pc)], 0) \in Seq(Octets)
            /\ Len(Beyond(disk[PathOf(pc)], 0)) = Len(disk[PathOf(pc)])
            /\ \A k \in 1 .. Len(disk[PathOf(pc)]) : Beyond(disk[PathOf(pc)], 0)[k] = disk[PathOf(pc)][k]
        BY <3>1, <3>2, <3>3, BeyondIs
      <3>5. QED BY <3>1, <3>3, <3>4, SeqEqual
    <2>5. Results'[Loader] # Nothing
      BY <2>1, FilesAssumption
    <2>6. pc \notin Reads \cup Closes \cup {"done"}
      BY <1>11 DEF Opens, Reads, Closes, FieldReads, TextReads
    <2>7. FilesNow(w)'
      <3>1. /\ DOMAIN files' = {Results'[Loader]} /\ files'[Results'[Loader]].path = PathOf(pc')
            /\ files'[Results'[Loader]].pos = 0
        BY <1>9, <2>1, <2>3
      <3>2. /\ disk'[PathOf(pc')] = OnDisk(w)[PathOf(pc')] /\ 0 \in 0 .. Len(disk'[PathOf(pc')])
            /\ Beyond(disk'[PathOf(pc')], 0) = OnDisk(w)[PathOf(pc')]
        BY <1>1, <1>7, <1>9, <2>4
      <3>3. OneOpen(Results[Loader], PathOf(pc), OnDisk(w)[PathOf(pc)])'
        BY <3>1, <3>2, Zenon DEF OneOpen
      <3>4. Results'[Loader] \in 0 .. MaxFd
        BY <2>1
      <3>5. pc' \notin Reads \cup Closes \cup {"done"}
        BY <1>9, <2>6
      <3>6. QED BY <2>5, <3>3, <3>4, <3>5 DEF FilesNow
    <2>8. QED BY <1>1, <1>7, <1>8, <1>10, <2>7 DEF LoadingInv
  <1>12. CASE pc \in Closes
    <2>1. files' = Service!Without(files, fd) /\ Results'[Loader] # Nothing
      BY <1>4, <1>7, <1>12, FilesAssumption
    <2>2. DOMAIN files' = {}
      BY <1>1, <1>7, <1>12, <2>1 DEF FilesNow, Service!Without
    <2>3. pc \notin Opens \cup Reads \cup {"done"}
      BY <1>12 DEF Opens, Reads, Closes, FieldReads, TextReads
    <2>4. FilesNow(w)'
      BY <1>9, <2>1, <2>2, <2>3 DEF FilesNow
    <2>5. QED BY <1>1, <1>7, <1>8, <1>10, <2>4 DEF LoadingInv
  <1>13. CASE pc \in Reads
    <2> DEFINE a == Due(w, pc, i, j)
               b == Ahead(w, pc, i, j)
               s == disk[PathOf(pc)]
               pos == files[fd].pos
    <2>1. /\ Results'[Loader] = SubSeq(s, pos + 1, pos + Len(a))
          /\ files' = [files EXCEPT ![fd].pos = @ + Len(a)]
      BY <1>3, <1>4, <1>7, <1>13
    <2>2. a \in Seq(Octets) /\ b \in Seq(Octets)
      BY <1>1, <1>13, DueIs, AheadIs, Zenon DEF LocalsNow
    <2>3. OneOpen(fd, PathOf(pc), Remaining(w, pc, i, j))
      BY <1>1, <1>7, <1>13 DEF FilesNow
    <2>4. s \in Seq(Octets)
      <3>1. PathOf(pc) \in DOMAIN disk
        BY <1>1, DiskIsSound DEF PathOf
      <3>2. QED BY <1>1, <3>1, Zenon DEF FilesInv, HostInv, Sound, Octets
    <2>5. /\ pos + Len(a) \in 0 .. Len(s)
          /\ SubSeq(s, pos + 1, pos + Len(a)) = a
          /\ Beyond(s, pos + Len(a)) = b
      <3>1. pos \in 0 .. Len(s) /\ Beyond(s, pos) = a \o b
        BY <2>3 DEF OneOpen, Remaining
      <3>2. Leaves(s, pos, a, b)
        BY <2>2, <2>4, <3>1, ReadOn, Zenon
      <3>3. QED BY <3>2, Zenon DEF Leaves
    <2>6. files \in [DOMAIN files -> [path : DOMAIN disk, pos : Nat]]
      BY <1>1, <1>3, <1>13, OpenFile
    <2>7. DOMAIN files' = {fd} /\ files'[fd].path = PathOf(pc) /\ files'[fd].pos = pos + Len(a)
      <3> HIDE DEF a
      <3>1. DOMAIN files = {fd} /\ files[fd].path = PathOf(pc)
        BY <2>3 DEF OneOpen
      <3>2. QED BY <2>1, <2>6, <3>1
    <2>8. OneOpen(fd, PathOf(pc), b)'
      <3>1. DOMAIN files' = {fd'} /\ files'[fd'].path = PathOf(pc') /\ files'[fd'].pos = pos + Len(a)
        BY <1>9, <2>7
      <3>2. disk'[PathOf(pc')] = s /\ Ahead(w, pc', i', j') = b
        BY <1>7, <1>9
      <3>3. QED BY <2>5, <3>1, <3>2, Zenon DEF OneOpen
    <2>9. Results'[Loader] = Due(w, pc', i', j') /\ Results'[Loader] # Nothing
      BY <1>9, <2>1, <2>2, <2>5, FilesAssumption DEF Octets
    <2>10. pc' \in Reads /\ pc' \notin Opens \cup Closes \cup {"done"}
      BY <1>9, <1>13 DEF Opens, Reads, Closes, FieldReads, TextReads
    <2>11. FilesNow(w)'
      BY <2>8, <2>9, <2>10 DEF FilesNow
    <2>12. QED BY <1>1, <1>7, <1>8, <1>10, <2>11 DEF LoadingInv
  <1>14. QED BY <1>5, <1>11, <1>12, <1>13

(* What the bytes that are due mean.                                       *)
LEMMA Meant ==
  ASSUME NEW w, Written(w), NEW at \in Reads, NEW n, NEW f, Places(w, at, n, f)
  PROVE  /\ at = "contacts_len" => Signed(Due(w, at, n, f)) = Len(w.contacts)
         /\ at = "text_index_len" => Signed(Due(w, at, n, f)) = Len(w.rows)
         /\ at = "position" => Signed(Due(w, at, n, f)) = w.places[n + 1]
         /\ at = "unreads" => Unsigned(Due(w, at, n, f)) = w.rows[n + 1].unreads
         /\ at = "field_len" => Unsigned(Due(w, at, n, f)) = Len(Due(w, "field", n, f))
         /\ at = "number_len" => Unsigned(Due(w, at, n, f)) = Len(Due(w, "number", n, f))
         /\ at = "preview_len" => Unsigned(Due(w, at, n, f)) = Len(Due(w, "preview", n, f))
  <1>1. \A x \in Octets : Unsigned(Bytes(1, x)) = x
    BY UnsignedByte DEF Octets
  <1>2. \A x \in Nat : x < Pow(2) \div 2 => Signed(Bytes(2, x)) = x
    BY TwoBytes
  <1>3. at \in FieldReads => Len(w.contacts[n + 1][Field[f]]) \in Octets
    BY Entries DEF Places
  <1>4. at \in TextReads => /\ Len(w.rows[n + 1].number) \in Octets /\ w.rows[n + 1].unreads \in Octets
                            /\ Len(w.rows[n + 1].preview) \in Octets
                            /\ w.places[n + 1] \in 0 .. Len(w.rows) - 1
    BY Entries DEF Places
  <1>5. /\ Len(w.contacts) \in Nat /\ Len(w.rows) \in Nat
        /\ Len(w.contacts) < Pow(2) \div 2 /\ Len(w.rows) < Pow(2) \div 2
    BY Entries
  <1>6. at = "contacts_len" => Signed(Due(w, at, n, f)) = Len(w.contacts)
    BY <1>2, <1>5 DEF Due
  <1>7. at = "text_index_len" => Signed(Due(w, at, n, f)) = Len(w.rows)
    BY <1>2, <1>5 DEF Due
  <1>8. at = "position" => Signed(Due(w, at, n, f)) = w.places[n + 1]
    <2> SUFFICES ASSUME at = "position" PROVE Signed(Due(w, at, n, f)) = w.places[n + 1]
      OBVIOUS
    <2>1. PICK h \in Int : h = Pow(2) \div 2
      BY Powers, Division
    <2>2. w.places[n + 1] \in 0 .. Len(w.rows) - 1
      BY <1>4 DEF TextReads
    <2>3. w.places[n + 1] \in Nat /\ w.places[n + 1] < Pow(2) \div 2
      BY <1>5, <2>1, <2>2
    <2>4. Due(w, at, n, f) = Bytes(2, w.places[n + 1])
      BY DEF Due
    <2>5. QED BY <1>2, <2>3, <2>4
  <1>9. at = "unreads" => Unsigned(Due(w, at, n, f)) = w.rows[n + 1].unreads
    BY <1>1, <1>4 DEF Due, TextReads
  <1>10. at = "field_len" => Unsigned(Due(w, at, n, f)) = Len(Due(w, "field", n, f))
    BY <1>1, <1>3 DEF Due, FieldReads
  <1>11. at = "number_len" => Unsigned(Due(w, at, n, f)) = Len(Due(w, "number", n, f))
    BY <1>1, <1>4 DEF Due, TextReads
  <1>12. at = "preview_len" => Unsigned(Due(w, at, n, f)) = Len(Due(w, "preview", n, f))
    BY <1>1, <1>4 DEF Due, TextReads
  <1>13. QED BY <1>6, <1>7, <1>8, <1>9, <1>10, <1>11, <1>12

(* The answer has come; it is what is due, or a descriptor.                *)
LEMMA LoaderReturns ==
  ASSUME NEW w, LoadingInv(w), fs_return(Loader), NEW ret,
         ret = fs_result(data[Loader], host_data[Loader].ret)
  PROVE  /\ FilesInv' /\ disk' = disk /\ files' = files /\ host_up' = host_up
         /\ data' = [c \in Clients |-> Nothing] /\ data'[Loader] = Nothing /\ Results'[Loader] = Nothing
         /\ pc # "done"
         /\ pc \in Opens => ret \in 0 .. MaxFd /\ OneOpen(ret, PathOf(pc), OnDisk(w)[PathOf(pc)])
         /\ pc \in Reads => ret = Due(w, pc, i, j) /\ OneOpen(fd, PathOf(pc), Ahead(w, pc, i, j))
         /\ pc \in Closes => DOMAIN files = {}
  <1>1. FilesInv /\ CallNow /\ FilesNow(w) /\ Loader \in Clients
    BY LoadAssumption DEF LoadingInv
  <1>2. Answered(Loader) /\ data' = [data EXCEPT ![Loader] = Nothing] /\ disk' = disk /\ files' = files
        /\ host_up' = host_up
    BY DEF fs_return
  <1>3. FilesInv'
    BY <1>1, ReturnGives
  <1>4. Results[Loader] = ret /\ ret # Nothing
    <2>1. Results[Loader] = ret
      BY <1>1, <1>2 DEF Results
    <2>2. QED BY <1>1, <1>2, <2>1, OnlyLoader
  <1>5. data' = [c \in Clients |-> Nothing] /\ data'[Loader] = Nothing
    BY <1>1, <1>2 DEF CallNow
  <1>6. Results'[Loader] = Nothing
    BY <1>1, <1>5 DEF Results, Answered
  <1>7. pc # "done"
    BY <1>1, <1>2 DEF CallNow, Answered
  <1>8. QED BY <1>1, <1>2, <1>3, <1>4, <1>5, <1>6, <1>7 DEF FilesNow

(* At the next place the invariant is what the tables, the locals and the  *)
(* open file there have to be.                                             *)
LEMMA Arrives ==
  ASSUME NEW w, LoadingInv(w), fs_return(Loader), cont' = cont,
         LocalsNow(w)', ContactsNow(w)', TextsNow(w)',
         pc' \in Opens \cup {"done"} => DOMAIN files = {},
         pc' \in Reads => OneOpen(fd', PathOf(pc'), Remaining(w, pc', i', j')),
         pc' \in Closes => DOMAIN files = {fd'}
  PROVE  LoadingInv(w)'
  <1>1. /\ FilesInv' /\ disk' = disk /\ files' = files /\ host_up' = host_up
        /\ data' = [c \in Clients |-> Nothing] /\ data'[Loader] = Nothing /\ Results'[Loader] = Nothing
    BY LoaderReturns
  <1>2. Goal(w)'
    BY GoalStays DEF LoadingInv
  <1>3. CallNow'
    BY <1>1 DEF CallNow
  <1>4. pc' \in Reads => OneOpen(fd, PathOf(pc), Remaining(w, pc, i, j))'
    BY <1>1 DEF OneOpen
  <1>5. FilesNow(w)'
    BY <1>1, <1>4 DEF FilesNow
  <1>6. QED BY <1>1, <1>2, <1>3, <1>5 DEF LoadingInv

\* The return of a call of the loader; ret is what it brings.
Returned(ret) ==
  /\ fs_return(Loader) /\ ret = fs_result(data[Loader], host_data[Loader].ret)
  /\ lock' = (IF pc' = "done" THEN "free" ELSE lock) /\ cont' = cont

(* When n contacts have been read the next is read, or the file closed.    *)
LEMMA ToNextContact ==
  ASSUME NEW w, LoadingInv(w), NEW ret, Returned(ret), NEW n \in 0 .. Len(w.contacts),
         contacts_len' = Len(w.contacts), contacts' \in [1 .. Len(w.contacts) -> Cards],
         \A k \in 1 .. n : contacts'[k] = w.contacts[k],
         i' = n, j' = 1, pc' = NextContact(n, Len(w.contacts)), fd' = fd, u8len' = u8len,
         pc \in {"contacts_len", "field"},
         UNCHANGED <<text_index_len, text_index, text_index_index>>,
         OneOpen(fd, ContactsPath, From(CardsOf(w), n))
  PROVE  LoadingInv(w)'
  <1> DEFINE m == Len(w.contacts)
  <1>1. /\ Written(w) /\ LocalsNow(w) /\ TextsNow(w) /\ fs_return(Loader)
        /\ lock' = IF pc' = "done" THEN "free" ELSE lock
    BY DEF LoadingInv, Goal, Returned
  <1>2. m \in Nat /\ Len(w.rows) \in Nat /\ w.contacts \in Seq(Cards)
    BY <1>1, Entries DEF Written
  <1>3. lock = "held" /\ fd \in 0 .. MaxFd /\ u8len \in Octets
    BY <1>1 DEF LocalsNow
  <1>4. pc' = (IF n = m THEN "close_contacts" ELSE "field_len")
    BY DEF NextContact
  <1>5. i' \in 0 .. Len(w.contacts) + Len(w.rows) /\ j' \in 1 .. 2
    <2>1. \A a, b \in Nat : \A x \in 0 .. a : x \in 0 .. a + b
      OBVIOUS
    <2>2. n \in 0 .. m + Len(w.rows)
      BY <1>2, <2>1
    <2>3. 1 \in 1 .. 2
      OBVIOUS
    <2>4. QED BY <2>2, <2>3
  <1>6. TextsNow(w)'
    <2>1. text_index_len = 0 /\ text_index = << >> /\ text_index_index = << >>
      BY <1>1 DEF TextsNow, TextReads
    <2>2. text_index_len' = 0 /\ text_index' = << >> /\ text_index_index' = << >>
      BY <2>1
    <2>3. QED BY <1>4, <2>2 DEF TextsNow, TextReads
  <1>7. CASE n = m
    <2>1. pc' = "close_contacts" /\ lock' = "held"
      BY <1>1, <1>3, <1>4, <1>7
    <2>2. LocalsNow(w)'
      BY <1>3, <1>5, <2>1 DEF LocalsNow, Places, Closes, FieldReads, TextReads
    <2>3. contacts' = w.contacts
      BY <1>2, <1>7, SeqEqual
    <2>4. ContactsNow(w)'
      BY <2>1, <2>3 DEF ContactsNow, FieldReads
    <2>5. DOMAIN files = {fd}
      BY DEF OneOpen
    <2>6. pc' \notin Opens \cup {"done"} /\ pc' \notin Reads
      BY <2>1 DEF Opens, Reads, FieldReads, TextReads
    <2>7. QED BY <1>1, <1>6, <2>2, <2>4, <2>5, <2>6, Arrives DEF Returned
  <1>8. CASE n # m
    <2>1. pc' = "field_len" /\ lock' = "held" /\ i' \in 0 .. m - 1
      <3>1. n \in 0 .. m - 1
        BY <1>2, <1>8
      <3>2. QED BY <1>1, <1>3, <1>4, <1>8, <3>1
    <2>2. LocalsNow(w)'
      BY <1>3, <1>5, <2>1 DEF LocalsNow, Places, Reads, FieldReads, TextReads
    <2>3. ContactsNow(w)'
      <3>1. pc' \in FieldReads /\ pc' \notin {"open_contacts", "contacts_len"}
        BY <2>1 DEF FieldReads
      <3>2. j' # 2
        OBVIOUS
      <3>3. pc' \in {"open_contacts", "contacts_len"} \cup FieldReads
        BY <3>1
      <3>4. \A k \in 1 .. i' : contacts'[k] = w.contacts[k]
        OBVIOUS
      <3>5. QED BY <3>1, <3>2, <3>3, <3>4, Zenon DEF ContactsNow
    <2>4. From(CardsOf(w), n) = Remaining(w, "field_len", n, 1)
      BY <1>1, <2>1, ReadingGoesOn
    <2>5. OneOpen(fd', PathOf(pc'), Remaining(w, pc', i', j'))
      BY <2>1, <2>4 DEF PathOf, FieldReads
    <2>6. pc' \notin Opens \cup {"done"} /\ pc' \notin Closes
      BY <2>1 DEF Opens, Closes
    <2>7. QED BY <1>1, <1>6, <2>2, <2>3, <2>5, <2>6, Arrives DEF Returned
  <1>9. QED BY <1>7, <1>8

(* So go the contacts.                                                     *)
LEMMA ContactsLoad ==
  ASSUME NEW w, LoadingInv(w), NEW ret, Returned(ret), LoadsContacts(ret),
         UNCHANGED <<text_index_len, text_index, text_index_index>>
  PROVE  LoadingInv(w)' /\ lock' = "held"
  <1> DEFINE m == Len(w.contacts)
  <1>1. /\ Written(w) /\ LocalsNow(w) /\ ContactsNow(w) /\ TextsNow(w) /\ fs_return(Loader) /\ cont' = cont
        /\ lock' = IF pc' = "done" THEN "free" ELSE lock
    BY DEF LoadingInv, Goal, Returned
  <1>2. m \in Nat /\ Len(w.rows) \in Nat /\ w.contacts \in Seq(Cards)
    BY <1>1, Entries DEF Written
  <1>3. /\ pc \in Opens => ret \in 0 .. MaxFd /\ OneOpen(ret, PathOf(pc), OnDisk(w)[PathOf(pc)])
        /\ pc \in Reads => ret = Due(w, pc, i, j) /\ OneOpen(fd, PathOf(pc), Ahead(w, pc, i, j))
        /\ pc \in Closes => DOMAIN files = {}
        /\ pc # "done"
    BY LoaderReturns DEF Returned
  <1>4. /\ lock = "held" /\ fd \in 0 .. MaxFd /\ u8len \in Octets /\ i \in 0 .. m + Len(w.rows)
        /\ j \in 1 .. 2 /\ Places(w, pc, i, j)
    BY <1>1, <1>3 DEF LocalsNow
  <1>5. /\ pc \notin TextReads \cup {"close_text_index", "done"}
        /\ pc' \notin TextReads \cup {"close_text_index", "done"}
        => TextsNow(w)'
    BY <1>1 DEF TextsNow, TextReads
  <1>6. CASE pc = "open_contacts"
    <2>1. pc \in Opens /\ PathOf(pc) = ContactsPath
      BY <1>6 DEF Opens, PathOf, FieldReads
    <2>2. ret >= 0
      BY <1>3, <2>1
    <2>3. fd' = ret /\ pc' = "contacts_len" /\ i' = i /\ j' = j /\ u8len' = u8len
          /\ contacts_len' = contacts_len /\ contacts' = contacts
      BY <1>6, <2>2 DEF LoadsContacts
    <2>4. lock' = "held" /\ LocalsNow(w)'
      BY <1>1, <1>3, <1>4, <2>1, <2>3 DEF LocalsNow, Reads, Places, FieldReads, TextReads
    <2>5. ContactsNow(w)' /\ TextsNow(w)'
      BY <1>1, <1>5, <1>6, <2>3 DEF ContactsNow, FieldReads, TextReads
    <2>6. OneOpen(fd', PathOf(pc'), Remaining(w, pc', i', j'))
      <3>1. OnDisk(w)[ContactsPath] = Remaining(w, "contacts_len", i', j')
        BY <1>1, ReadingGoesOn
      <3>2. PathOf("contacts_len") = ContactsPath
        BY DEF PathOf
      <3>3. QED BY <1>3, <2>1, <2>3, <3>1, <3>2
    <2>7. pc' \notin Opens \cup {"done"} /\ pc' \notin Closes
      BY <2>3 DEF Opens, Closes
    <2>8. QED BY <1>1, <2>4, <2>5, <2>6, <2>7, Arrives
  <1>7. CASE pc = "contacts_len"
    <2>1. pc \in Reads /\ PathOf(pc) = ContactsPath
      BY <1>7 DEF Reads, PathOf
    <2>2. Signed(ret) = m
      <3>1. pc = "contacts_len" => Signed(Due(w, pc, i, j)) = m
        BY <1>1, <1>4, <2>1, Meant
      <3>2. QED BY <1>3, <1>7, <2>1, <3>1
    <2>3. /\ contacts_len' = m /\ contacts' = [k \in 1 .. m |-> [name |-> << >>, number |-> << >>]]
          /\ i' = 0 /\ j' = 1 /\ pc' = NextContact(0, m) /\ fd' = fd /\ u8len' = u8len
      BY <1>7, <2>2 DEF LoadsContacts
    <2>4. contacts' \in [1 .. m -> Cards]
      BY <2>3, EmptySeq DEF Cards
    <2>5. OneOpen(fd, ContactsPath, From(CardsOf(w), 0))
      BY <1>3, <1>7, <2>1 DEF Ahead
    <2>6. LoadingInv(w)'
      BY <1>2, <1>7, <2>3, <2>4, <2>5, ToNextContact
    <2>7. lock' = "held"
      BY <1>1, <1>4, <2>3 DEF NextContact
    <2>8. QED BY <2>6, <2>7
  <1>8. CASE pc = "field_len"
    <2>1. pc \in Reads /\ PathOf(pc) = ContactsPath
      BY <1>8 DEF Reads, PathOf, FieldReads
    <2>2. Unsigned(ret) = Len(Due(w, "field", i, j))
      <3>1. pc = "field_len" => Unsigned(Due(w, pc, i, j)) = Len(Due(w, "field", i, j))
        BY <1>1, <1>4, <2>1, Meant
      <3>2. QED BY <1>3, <1>8, <2>1, <3>1
    <2>3. /\ u8len' = Len(Due(w, "field", i, j)) /\ pc' = "field" /\ fd' = fd /\ i' = i /\ j' = j
          /\ contacts_len' = contacts_len /\ contacts' = contacts
      BY <1>8, <2>2 DEF LoadsContacts
    <2>4. Places(w, "field", i, j) /\ i \in 0 .. m - 1
      BY <1>4, <1>8 DEF Places, FieldReads, TextReads
    <2>5. "field" \in Reads /\ PathOf("field") = ContactsPath
      BY DEF Reads, FieldReads, PathOf
    <2>6. Len(Due(w, "field", i, j)) \in Octets
      BY <1>1, <2>4, <2>5, DueIs
    <2>7. lock' = "held" /\ LocalsNow(w)'
      BY <1>1, <1>4, <2>3, <2>4, <2>5, <2>6 DEF LocalsNow
    <2>8. ContactsNow(w)' /\ TextsNow(w)'
      BY <1>1, <1>5, <1>8, <2>3 DEF ContactsNow, FieldReads, TextReads
    <2>9. Ahead(w, "field_len", i, j) = Remaining(w, "field", i, j)
      BY <1>1, <1>4, <2>4, ReadingGoesOn
    <2>10. OneOpen(fd', PathOf(pc'), Remaining(w, pc', i', j'))
      BY <1>3, <1>8, <2>1, <2>3, <2>5, <2>9
    <2>11. pc' \notin Opens \cup {"done"} /\ pc' \notin Closes
      BY <2>3 DEF Opens, Closes
    <2>12. QED BY <1>1, <2>7, <2>8, <2>10, <2>11, Arrives
  <1>9. CASE pc = "field"
    <2>1. pc \in Reads /\ PathOf(pc) = ContactsPath
      BY <1>9 DEF Reads, PathOf, FieldReads
    <2>2. i \in 0 .. m - 1 /\ i \in Int
      BY <1>4, <1>9 DEF Places, FieldReads
    <2>3. /\ contacts_len = m /\ contacts \in [1 .. m -> Cards]
          /\ \A k \in 1 .. i : contacts[k] = w.contacts[k]
          /\ j = 2 => contacts[i + 1].name = w.contacts[i + 1].name
      BY <1>1, <1>9 DEF ContactsNow, FieldReads
    <2>4. ret = w.contacts[i + 1][Field[j]] /\ ret \in Seq(Octets) /\ w.contacts[i + 1] \in Cards
      <3>1. ret = Due(w, "field", i, j)
        BY <1>3, <1>9, <2>1
      <3>2. Due(w, "field", i, j) = w.contacts[i + 1][Field[j]]
        BY DEF Due
      <3>3. QED BY <1>1, <1>4, <2>2, <3>1, <3>2, Entries
    <2>5. contacts' = [contacts EXCEPT ![i + 1][Field[j]] = ret] /\ fd' = fd /\ u8len' = u8len
          /\ contacts_len' = contacts_len
          /\ IF j = 2 THEN i' = i + 1 /\ j' = 1 /\ pc' = NextContact(i + 1, contacts_len)
             ELSE j' = j + 1 /\ pc' = "field_len" /\ i' = i
      BY <1>9 DEF LoadsContacts
    <2>6. CASE j = 1
      <3>1. Field[j] = "name"
        BY <2>6 DEF Field
      <3>2. contacts' = [contacts EXCEPT ![i + 1] = [contacts[i + 1] EXCEPT !.name = ret]]
        BY <2>2, <2>3, <2>5, <3>1
      <3>3. i + 1 \in 1 .. m /\ contacts[i + 1] \in Cards
        BY <1>2, <2>2, <2>3
      <3>4. [contacts[i + 1] EXCEPT !.name = ret] \in Cards /\ [contacts[i + 1] EXCEPT !.name = ret].name = ret
        BY <2>4, <3>3 DEF Cards
      <3>5. /\ contacts' \in [1 .. m -> Cards] /\ contacts'[i + 1].name = ret
            /\ \A k \in 1 .. i : contacts'[k] = w.contacts[k]
        BY <2>2, <2>3, <3>2, <3>3, <3>4
      <3>6. i' = i /\ j' = 2 /\ pc' = "field_len"
        <4>1. ~ (j = 2) /\ j + 1 = 2
          BY <2>6
        <4>2. QED BY <2>5, <4>1, Zenon
      <3>7. lock' = "held" /\ LocalsNow(w)'
        <4>1. /\ pc' \in Reads /\ pc' # "done" /\ pc' \notin {"field", "number", "preview"}
              /\ pc' \notin TextReads /\ 2 \in 1 .. 2
          BY <3>6 DEF Reads, FieldReads, TextReads
        <4>2. lock' = "held" /\ fd' \in 0 .. MaxFd /\ u8len' \in Octets
          BY <1>1, <1>4, <2>5, <4>1
        <4>3. Places(w, pc', i', j')
          BY <2>2, <3>6, <4>1 DEF Places
        <4>4. i' \in 0 .. Len(w.contacts) + Len(w.rows) /\ j' \in 1 .. 2
          BY <1>4, <3>6, <4>1
        <4>5. QED BY <4>1, <4>2, <4>3, <4>4 DEF LocalsNow
      <3>8. ContactsNow(w)' /\ TextsNow(w)'
        BY <1>5, <1>9, <2>3, <2>4, <2>5, <3>1, <3>5, <3>6 DEF ContactsNow, FieldReads, TextReads
      <3>9. Ahead(w, "field", i, 1) = Remaining(w, "field_len", i, 2)
        BY <1>1, <2>2, ReadingGoesOn
      <3>10. OneOpen(fd', PathOf(pc'), Remaining(w, pc', i', j'))
        <4>1. PathOf("field_len") = ContactsPath
          BY DEF PathOf, FieldReads
        <4>2. QED BY <1>3, <1>9, <2>1, <2>5, <2>6, <3>6, <3>9, <4>1
      <3>11. pc' \notin Opens \cup {"done"} /\ pc' \notin Closes
        BY <3>6 DEF Opens, Closes
      <3>12. QED BY <1>1, <3>7, <3>8, <3>10, <3>11, Arrives
    <2>7. CASE j = 2
      <3>1. Field[j] = "number"
        BY <2>7 DEF Field
      <3>2. contacts' = [contacts EXCEPT ![i + 1] = [contacts[i + 1] EXCEPT !.number = ret]]
        BY <2>2, <2>3, <2>5, <3>1
      <3>3. i + 1 \in 1 .. m /\ contacts[i + 1] \in Cards /\ i + 1 \in 0 .. m
        BY <1>2, <2>2, <2>3
      <3>4. [contacts[i + 1] EXCEPT !.number = ret] = w.contacts[i + 1]
        BY <2>3, <2>4, <2>7, <3>1, <3>3 DEF Cards
      <3>5. /\ contacts' \in [1 .. m -> Cards]
            /\ \A k \in 1 .. i + 1 : contacts'[k] = w.contacts[k]
        <4>1. contacts' = [contacts EXCEPT ![i + 1] = w.contacts[i + 1]]
          BY <3>2, <3>4
        <4>2. contacts' \in [1 .. m -> Cards] /\ contacts'[i + 1] = w.contacts[i + 1]
          BY <2>3, <2>4, <3>3, <4>1
        <4>3. \A k \in 1 .. i : k \in 1 .. m /\ k # i + 1
          BY <1>2, <2>2
        <4>4. \A k \in 1 .. i : contacts'[k] = w.contacts[k]
          BY <2>3, <4>1, <4>3
        <4>5. \A k \in 1 .. i + 1 : k \in 1 .. i \/ k = i + 1
          BY <2>2
        <4>6. QED BY <4>2, <4>4, <4>5
      <3>6. i' = i + 1 /\ j' = 1 /\ pc' = NextContact(i + 1, m) /\ contacts_len' = m
        BY <2>3, <2>5, <2>7
      <3>7. OneOpen(fd, ContactsPath, From(CardsOf(w), i + 1))
        BY <1>1, <1>3, <1>9, <2>1, <2>2, <2>7, ReadingGoesOn
      <3>8. LoadingInv(w)'
        BY <1>9, <2>5, <3>3, <3>5, <3>6, <3>7, ToNextContact
      <3>9. lock' = "held"
        BY <1>1, <1>4, <3>6 DEF NextContact
      <3>10. QED BY <3>8, <3>9
    <2>8. QED BY <1>4, <2>6, <2>7
  <1>10. CASE pc = "close_contacts"
    <2>1. pc' = "open_text_index" /\ fd' = fd /\ i' = i /\ j' = j /\ u8len' = u8len
          /\ contacts_len' = contacts_len /\ contacts' = contacts
      BY <1>10 DEF LoadsContacts, locals
    <2>2. DOMAIN files = {}
      BY <1>3, <1>10 DEF Closes
    <2>3. lock' = "held" /\ LocalsNow(w)'
      BY <1>1, <1>4, <2>1 DEF LocalsNow, Places, FieldReads, TextReads, Opens
    <2>4. ContactsNow(w)' /\ TextsNow(w)'
      BY <1>1, <1>5, <1>10, <2>1 DEF ContactsNow, FieldReads, TextReads
    <2>5. pc' \notin Reads /\ pc' \notin Closes
      BY <2>1 DEF Closes, Reads, FieldReads, TextReads
    <2>6. QED BY <1>1, <2>2, <2>3, <2>4, <2>5, Arrives
  <1>11. QED BY <1>6, <1>7, <1>8, <1>9, <1>10 DEF LoadsContacts

RowFields == {"number", "unreads", "stamp", "preview"}

(* A part of a conversation that is read goes where it belongs.            *)
LEMMA StoresOne ==
  ASSUME NEW n \in Nat, text_index \in [1 .. n -> Rows], i \in 0 .. n - 1,
         NEW field \in RowFields, NEW r \in Rows, Stores(field, r[field])
  PROVE  /\ text_index' \in [1 .. n -> Rows]
         /\ \A k \in 1 .. i : text_index'[k] = text_index[k]
         /\ \A g \in RowFields : text_index'[i + 1][g] = IF g = field THEN r[g] ELSE text_index[i + 1][g]
  <1> DEFINE old == text_index[i + 1]
             new == [old EXCEPT ![field] = r[field]]
  <1>1. i + 1 \in 1 .. n /\ old \in Rows /\ \A k \in 1 .. i : k \in 1 .. n /\ k # i + 1
    BY DEF Stores
  <1>2. new \in Rows /\ \A g \in RowFields : new[g] = IF g = field THEN r[g] ELSE old[g]
    BY <1>1 DEF Rows, RowFields
  <1>3. text_index' = [text_index EXCEPT ![i + 1] = new]
    BY DEF Stores
  <1> HIDE DEF new
  <1>4. text_index' \in [1 .. n -> Rows] /\ text_index'[i + 1] = new
    BY <1>1, <1>2, <1>3
  <1>5. \A k \in 1 .. i : text_index'[k] = text_index[k]
    BY <1>1, <1>3
  <1>6. QED BY <1>2, <1>4, <1>5

(* When n conversations have been read the next is read, or the file closed. *)
LEMMA ToNextText ==
  ASSUME NEW w, LoadingInv(w), NEW ret, Returned(ret), NEW n \in 0 .. Len(w.rows),
         text_index_len' = Len(w.rows),
         text_index' \in [1 .. Len(w.rows) -> Rows], text_index_index' \in [1 .. Len(w.rows) -> Int],
         \A k \in 1 .. n : text_index'[k] = w.rows[k] /\ text_index_index'[k] = w.places[k],
         i' = n, pc' = NextText(n, Len(w.rows)), fd' = fd, u8len' = u8len,
         pc \in {"text_index_len", "preview"}, UNCHANGED <<j, contacts_len, contacts>>,
         OneOpen(fd, TextIndexPath, From(RowsOf(w), n))
  PROVE  LoadingInv(w)' /\ lock' = "held"
  <1> DEFINE m == Len(w.rows)
  <1>1. /\ Written(w) /\ LocalsNow(w) /\ ContactsNow(w) /\ fs_return(Loader)
        /\ lock' = IF pc' = "done" THEN "free" ELSE lock
    BY DEF LoadingInv, Goal, Returned
  <1>2. /\ m \in Nat /\ Len(w.contacts) \in Nat /\ w.rows \in Seq(Rows)
        /\ w.places \in [1 .. m -> 0 .. m - 1]
    BY <1>1, Entries DEF Written
  <1>3. lock = "held" /\ fd \in 0 .. MaxFd /\ u8len \in Octets /\ j \in 1 .. 2
    BY <1>1 DEF LocalsNow
  <1>4. pc' = (IF n = m THEN "close_text_index" ELSE "position")
    BY DEF NextText
  <1>5. i' \in 0 .. Len(w.contacts) + Len(w.rows) /\ j' \in 1 .. 2
    <2>1. \A a, b \in Nat : \A x \in 0 .. b : x \in 0 .. a + b
      OBVIOUS
    <2>2. n \in 0 .. Len(w.contacts) + m
      BY <1>2, <2>1
    <2>3. QED BY <1>3, <2>2
  <1>6. ContactsNow(w)'
    <2>1. contacts_len = Len(w.contacts) /\ contacts = w.contacts
      BY <1>1 DEF ContactsNow, FieldReads
    <2>2. contacts_len' = Len(w.contacts) /\ contacts' = w.contacts
      BY <2>1
    <2>3. pc' \notin {"open_contacts", "contacts_len"} /\ pc' \notin FieldReads
      BY <1>4 DEF FieldReads
    <2>4. QED BY <2>2, <2>3 DEF ContactsNow
  <1>7. CASE n = m
    <2>1. pc' = "close_text_index" /\ lock' = "held"
      BY <1>1, <1>3, <1>4, <1>7
    <2>2. LocalsNow(w)'
      BY <1>3, <1>5, <2>1 DEF LocalsNow, Places, Closes, FieldReads, TextReads
    <2>3. text_index' = w.rows
      BY <1>2, <1>7, SeqEqual
    <2>4. text_index_index' = w.places
      BY <1>2, <1>7
    <2>5. TextsNow(w)'
      BY <2>1, <2>3, <2>4 DEF TextsNow, TextReads
    <2>6. DOMAIN files = {fd'}
      BY DEF OneOpen
    <2>7. pc' \notin Opens \cup {"done"} /\ pc' \notin Reads
      BY <2>1 DEF Opens, Reads, FieldReads, TextReads
    <2>8. QED BY <1>1, <1>6, <2>1, <2>2, <2>5, <2>6, <2>7, Arrives DEF Returned
  <1>8. CASE n # m
    <2>1. pc' = "position" /\ lock' = "held" /\ i' \in 0 .. m - 1 /\ n \in 0 .. m - 1
      <3>1. n \in 0 .. m - 1
        BY <1>2, <1>8
      <3>2. QED BY <1>1, <1>3, <1>4, <1>8, <3>1
    <2>2. LocalsNow(w)'
      BY <1>3, <1>5, <2>1 DEF LocalsNow, Places, Reads, FieldReads, TextReads
    <2>3. TextsNow(w)'
      BY <2>1 DEF TextsNow, TextReads
    <2>4. From(RowsOf(w), n) = Remaining(w, "position", n, j')
      BY <1>1, <1>5, <2>1, ReadingGoesOn
    <2>5. OneOpen(fd', PathOf(pc'), Remaining(w, pc', i', j'))
      <3>1. PathOf("position") = TextIndexPath
        BY DEF PathOf, FieldReads
      <3>2. QED BY <2>1, <2>4, <3>1
    <2>6. pc' \notin Opens \cup {"done"} /\ pc' \notin Closes
      BY <2>1 DEF Opens, Closes
    <2>7. QED BY <1>1, <1>6, <2>1, <2>2, <2>3, <2>5, <2>6, Arrives DEF Returned
  <1>9. QED BY <1>7, <1>8

(* A read of a conversation that is not its last leaves the table as it    *)
(* stands but for one part, and the next of its reads is to come.          *)
LEMMA ToNextRead ==
  ASSUME NEW w, LoadingInv(w), NEW ret, Returned(ret), NEW at, pc' = at,
         <<pc, at>> \in {<<"position", "number_len">>, <<"number_len", "number">>, <<"number", "unreads">>,
                         <<"unreads", "timestamp">>, <<"timestamp", "preview_len">>,
                         <<"preview_len", "preview">>},
         fd' = fd, i' = i, j' = j, u8len' \in Octets,
         at \in {"number", "preview"} => u8len' = Len(Due(w, at, i, j)),
         UNCHANGED <<contacts_len, contacts>>, TextsNow(w)'
  PROVE  LoadingInv(w)' /\ lock' = "held"
  <1>1. /\ Written(w) /\ LocalsNow(w) /\ ContactsNow(w) /\ fs_return(Loader) /\ cont' = cont
        /\ lock' = IF pc' = "done" THEN "free" ELSE lock
    BY DEF LoadingInv, Goal, Returned
  <1>2. /\ pc \in TextReads /\ pc \in Reads /\ pc \notin FieldReads /\ pc \notin {"open_contacts", "contacts_len"}
        /\ pc # "done"
    BY DEF Reads, TextReads, FieldReads
  <1>3. /\ pc' \in TextReads /\ pc' \in Reads /\ pc' \notin FieldReads /\ pc' \notin {"open_contacts", "contacts_len"}
        /\ pc' # "done" /\ pc' # "field" /\ pc' \notin Opens /\ pc' \notin Closes
    BY DEF Reads, TextReads, FieldReads, Opens, Closes
  <1>4. /\ lock = "held" /\ fd \in 0 .. MaxFd /\ i \in 0 .. Len(w.contacts) + Len(w.rows)
        /\ j \in 1 .. 2 /\ i \in 0 .. Len(w.rows) - 1
    BY <1>1, <1>2 DEF LocalsNow, Places
  <1>5. lock' = "held"
    BY <1>1, <1>3, <1>4
  <1>6. LocalsNow(w)'
    <2>1. Places(w, pc', i', j')
      BY <1>3, <1>4 DEF Places
    <2>2. pc' \in {"field", "number", "preview"} => u8len' = Len(Due(w, pc', i', j'))
      BY <1>3
    <2>3. fd' \in 0 .. MaxFd /\ i' \in 0 .. Len(w.contacts) + Len(w.rows) /\ j' \in 1 .. 2 /\ u8len' \in Octets
      BY <1>4
    <2>4. QED BY <1>3, <1>5, <2>1, <2>2, <2>3 DEF LocalsNow
  <1>7. ContactsNow(w)'
    <2>1. contacts_len = Len(w.contacts) /\ contacts = w.contacts
      BY <1>1, <1>2 DEF ContactsNow
    <2>2. contacts_len' = Len(w.contacts) /\ contacts' = w.contacts
      BY <2>1
    <2>3. QED BY <1>3, <2>2 DEF ContactsNow
  <1>8. OneOpen(fd', PathOf(pc'), Remaining(w, pc', i', j'))
    <2>1. OneOpen(fd, PathOf(pc), Ahead(w, pc, i, j))
      BY <1>2, LoaderReturns DEF Returned
    <2>2. PathOf(pc) = TextIndexPath /\ PathOf(pc') = TextIndexPath
      BY <1>2, <1>3, Zenon DEF PathOf, TextReads, FieldReads
    <2>3. Ahead(w, pc, i, j) = Remaining(w, pc', i, j)
      BY <1>1, <1>4, ReadingGoesOn
    <2>4. QED BY <2>1, <2>2, <2>3
  <1>9. QED BY <1>1, <1>3, <1>5, <1>6, <1>7, <1>8, Arrives

(* So go the conversations.  With the file closed the tables are full.     *)
LEMMA TextsLoad ==
  ASSUME NEW w, LoadingInv(w), NEW ret, Returned(ret), LoadsTexts(ret),
         UNCHANGED <<j, contacts_len, contacts>>
  PROVE  LoadingInv(w)' /\ (pc = "close_text_index" \/ lock' = "held")
  <1> DEFINE m == Len(w.rows)
             r == w.rows[i + 1]
  <1>1. /\ Written(w) /\ LocalsNow(w) /\ ContactsNow(w) /\ TextsNow(w) /\ fs_return(Loader) /\ cont' = cont
        /\ lock' = IF pc' = "done" THEN "free" ELSE lock
    BY DEF LoadingInv, Goal, Returned
  <1>2. m \in Nat /\ Len(w.contacts) \in Nat /\ w.rows \in Seq(Rows)
    BY <1>1, Entries DEF Written
  <1>3. /\ pc \in Opens => ret \in 0 .. MaxFd /\ OneOpen(ret, PathOf(pc), OnDisk(w)[PathOf(pc)])
        /\ pc \in Reads => ret = Due(w, pc, i, j) /\ OneOpen(fd, PathOf(pc), Ahead(w, pc, i, j))
        /\ pc \in Closes => DOMAIN files = {}
        /\ pc # "done"
    BY LoaderReturns DEF Returned
  <1>4. /\ lock = "held" /\ fd \in 0 .. MaxFd /\ u8len \in Octets
        /\ i \in 0 .. Len(w.contacts) + Len(w.rows) /\ j \in 1 .. 2 /\ Places(w, pc, i, j)
    BY <1>1, <1>3 DEF LocalsNow
  <1>5. ASSUME pc \in Opens \cup Closes \cup {"text_index_len"} \cup TextReads, pc # "open_contacts",
               pc' \notin {"open_contacts", "contacts_len"} \cup FieldReads
        PROVE  ContactsNow(w)'
    <2>1. contacts_len = Len(w.contacts) /\ contacts = w.contacts
      BY <1>1, <1>5 DEF ContactsNow, Opens, Closes, TextReads, FieldReads
    <2>2. contacts_len' = Len(w.contacts) /\ contacts' = w.contacts
      BY <2>1
    <2>3. QED BY <1>5, <2>2 DEF ContactsNow
  <1>6. CASE pc = "open_text_index"
    <2>1. pc \in Opens /\ PathOf(pc) = TextIndexPath /\ pc \notin TextReads
      BY <1>6 DEF Opens, PathOf, FieldReads, TextReads
    <2>2. ret >= 0
      BY <1>3, <2>1
    <2>3. fd' = ret /\ pc' = "text_index_len" /\ i' = i /\ j' = j /\ u8len' = u8len
          /\ text_index_len' = text_index_len /\ text_index' = text_index
          /\ text_index_index' = text_index_index
      BY <1>6, <2>2 DEF LoadsTexts
    <2>4. pc' \notin FieldReads /\ pc' \notin TextReads /\ pc' \notin Opens \cup Closes \cup {"done"} /\ pc' \in Reads
      BY <2>3 DEF FieldReads, TextReads, Opens, Closes, Reads
    <2>5. lock' = "held" /\ LocalsNow(w)'
      BY <1>1, <1>3, <1>4, <2>1, <2>3, <2>4 DEF LocalsNow, Places
    <2>6. ContactsNow(w)'
      BY <1>5, <1>6, <2>1, <2>3, <2>4
    <2>7. TextsNow(w)'
      BY <1>1, <1>6, <2>1, <2>3, <2>4 DEF TextsNow
    <2>8. OneOpen(fd', PathOf(pc'), Remaining(w, pc', i', j'))
      <3>1. OnDisk(w)[TextIndexPath] = Remaining(w, "text_index_len", i', j')
        BY <1>1, ReadingGoesOn
      <3>2. PathOf("text_index_len") = TextIndexPath
        BY DEF PathOf, FieldReads
      <3>3. QED BY <1>3, <2>1, <2>3, <3>1, <3>2
    <2>9. QED BY <1>1, <2>4, <2>5, <2>6, <2>7, <2>8, Arrives
  <1>7. CASE pc = "text_index_len"
    <2>1. pc \in Reads /\ PathOf(pc) = TextIndexPath
      BY <1>7 DEF Reads, PathOf, FieldReads
    <2>2. Signed(ret) = m
      <3>1. pc = "text_index_len" => Signed(Due(w, pc, i, j)) = m
        BY <1>1, <1>4, <2>1, Meant
      <3>2. QED BY <1>3, <1>7, <2>1, <3>1
    <2>3. /\ text_index_len' = m /\ text_index' = [k \in 1 .. m |-> Blank]
          /\ text_index_index' = [k \in 1 .. m |-> 0]
          /\ i' = 0 /\ pc' = NextText(0, m) /\ fd' = fd /\ u8len' = u8len
      BY <1>7, <2>2 DEF LoadsTexts
    <2>4. Blank \in Rows
      <3>1. 0 \in Octets /\ << >> \in Seq(Octets)
        BY FilesAssumption, EmptySeq DEF Octets
      <3>2. QED BY <3>1 DEF Blank, Rows
    <2>5. text_index' \in [1 .. m -> Rows] /\ text_index_index' \in [1 .. m -> Int]
      BY <2>3, <2>4
    <2>6. OneOpen(fd, TextIndexPath, From(RowsOf(w), 0))
      BY <1>3, <1>7, <2>1 DEF Ahead
    <2>7. 0 \in 0 .. m /\ \A k \in 1 .. 0 : text_index'[k] = w.rows[k] /\ text_index_index'[k] = w.places[k]
      BY <1>2
    <2>8. QED BY <1>7, <2>3, <2>5, <2>6, <2>7, ToNextText
  <1>8. ASSUME pc \in TextReads
        PROVE  /\ i \in 0 .. m - 1 /\ r \in Rows /\ ret = Due(w, pc, i, j)
               /\ text_index_len = m /\ text_index \in [1 .. m -> Rows] /\ text_index_index \in [1 .. m -> Int]
               /\ \A k \in 1 .. i : text_index[k] = w.rows[k] /\ text_index_index[k] = w.places[k]
    <2>1. i \in 0 .. m - 1 /\ pc \in Reads
      BY <1>4, <1>8 DEF Places, Reads
    <2>2. r \in Rows
      BY <1>1, <2>1, Entries
    <2>3. QED BY <1>1, <1>3, <1>8, <2>1, <2>2 DEF TextsNow
  <1>9. CASE pc = "position"
    <2>1. pc \in TextReads /\ pc \in Reads
      BY <1>9 DEF TextReads, Reads
    <2>2. Signed(ret) = w.places[i + 1] /\ w.places[i + 1] \in Int
      <3>1. pc = "position" => Signed(Due(w, pc, i, j)) = w.places[i + 1]
        BY <1>1, <1>4, <2>1, Meant
      <3>2. w.places[i + 1] \in 0 .. Len(w.rows) - 1
        BY <1>1, <1>8, <2>1, Entries
      <3>3. QED BY <1>8, <1>9, <2>1, <3>1, <3>2
    <2>3. /\ text_index_index' = [text_index_index EXCEPT ![i + 1] = w.places[i + 1]]
          /\ pc' = "number_len" /\ fd' = fd /\ i' = i /\ u8len' = u8len
          /\ text_index_len' = text_index_len /\ text_index' = text_index
      BY <1>9, <2>2 DEF LoadsTexts
    <2>4. /\ text_index_index' \in [1 .. m -> Int] /\ text_index_index'[i + 1] = w.places[i + 1]
          /\ \A k \in 1 .. i : text_index_index'[k] = text_index_index[k]
      BY <1>2, <1>8, <2>1, <2>2, <2>3
    <2>5. TextsNow(w)'
      BY <1>8, <2>1, <2>3, <2>4 DEF TextsNow, TextReads
    <2>6. QED BY <1>4, <1>9, <2>3, <2>5, ToNextRead
  <1>10. CASE pc \in {"number_len", "preview_len"}
    <2>1. pc \in TextReads /\ pc \in Reads
      BY <1>10 DEF TextReads, Reads
    <2>2. /\ u8len' = Unsigned(ret) /\ pc' = (IF pc = "number_len" THEN "number" ELSE "preview")
          /\ fd' = fd /\ i' = i /\ text_index_len' = text_index_len /\ text_index' = text_index
          /\ text_index_index' = text_index_index
      BY <1>10 DEF LoadsTexts
    <2>3. u8len' = Len(Due(w, pc', i, j))
      <3>1. /\ pc = "number_len" => Unsigned(Due(w, pc, i, j)) = Len(Due(w, "number", i, j))
            /\ pc = "preview_len" => Unsigned(Due(w, pc, i, j)) = Len(Due(w, "preview", i, j))
        BY <1>1, <1>4, <2>1, Meant
      <3>2. QED BY <1>8, <1>10, <2>1, <2>2, <3>1
    <2>4. u8len' \in Octets
      <3>1. pc' \in Reads /\ Places(w, pc', i, j)
        BY <1>8, <2>1, <2>2 DEF Places, Reads, TextReads, FieldReads
      <3>2. QED BY <1>1, <2>3, <3>1, DueIs
    <2>5. TextsNow(w)'
      BY <1>1, <1>8, <1>10, <2>1, <2>2 DEF TextsNow, TextReads
    <2>6. QED BY <1>10, <2>2, <2>3, <2>4, <2>5, ToNextRead
  <1>11. CASE pc \in {"number", "unreads", "timestamp"}
    <2>1. pc \in TextReads /\ pc \in Reads
      BY <1>11 DEF TextReads, Reads
    <2>2. PICK field \in RowFields : field = IF pc = "number" THEN "number" ELSE IF pc = "unreads" THEN "unreads" ELSE "stamp"
      BY DEF RowFields
    <2>3. /\ Stores(field, r[field]) /\ fd' = fd /\ i' = i /\ u8len' = u8len
          /\ pc' = (IF pc = "number" THEN "unreads" ELSE IF pc = "unreads" THEN "timestamp" ELSE "preview_len")
          /\ text_index_len' = text_index_len /\ text_index_index' = text_index_index
      <3>1. pc = "unreads" => Unsigned(Due(w, pc, i, j)) = r.unreads
        BY <1>1, <1>4, <2>1, Meant
      <3>2. pc \in {"number", "timestamp"} => Due(w, pc, i, j) = r[field]
        BY <2>2 DEF Due
      <3>3. r["unreads"] = r.unreads
        OBVIOUS
      <3>4. QED BY <1>8, <1>11, <2>1, <2>2, <3>1, <3>2, <3>3 DEF LoadsTexts
    <2>4. /\ text_index' \in [1 .. m -> Rows]
          /\ \A k \in 1 .. i : text_index'[k] = text_index[k]
          /\ \A g \in RowFields : text_index'[i + 1][g] = IF g = field THEN r[g] ELSE text_index[i + 1][g]
      <3>1. m \in Nat /\ text_index \in [1 .. m -> Rows] /\ i \in 0 .. m - 1 /\ r \in Rows
        BY <1>2, <1>8, <2>1
      <3>2. Stores(field, r[field])
        BY <2>3
      <3> HIDE DEF m, r
      <3>3. QED BY <3>1, <3>2, StoresOne, Zenon
    <2>5. TextsNow(w)'
      <3>1. /\ pc # "number" => text_index[i + 1].number = r.number
            /\ pc = "timestamp" => text_index[i + 1].unreads = r.unreads
            /\ text_index_index[i + 1] = w.places[i + 1]
        BY <1>1, <1>11, <2>1 DEF TextsNow
      <3>2. /\ text_index'[i + 1].number = r.number
            /\ pc' \in {"timestamp", "preview_len"} => text_index'[i + 1].unreads = r.unreads
            /\ pc' = "preview_len" => text_index'[i + 1].stamp = r.stamp
        BY <1>11, <2>2, <2>3, <2>4, <3>1 DEF RowFields
      <3>3. pc' \in TextReads /\ pc' \notin {"close_text_index", "done", "position", "preview"}
        BY <1>11, <2>3 DEF TextReads
      <3>4. text_index_len' = m /\ text_index_index' \in [1 .. m -> Int]
            /\ \A k \in 1 .. i' : text_index'[k] = w.rows[k] /\ text_index_index'[k] = w.places[k]
        BY <1>8, <2>1, <2>3, <2>4
      <3>5. QED BY <2>3, <2>4, <3>1, <3>2, <3>3, <3>4 DEF TextsNow
    <2>6. <<pc, pc'>> \in {<<"number", "unreads">>, <<"unreads", "timestamp">>, <<"timestamp", "preview_len">>}
          /\ pc' \notin {"number", "preview"}
      BY <1>11, <2>3
    <2>7. QED BY <1>4, <2>3, <2>5, <2>6, ToNextRead
  <1>12. CASE pc = "preview"
    <2>1. pc \in TextReads /\ pc \in Reads /\ "preview" \in RowFields
      BY <1>12 DEF TextReads, Reads, RowFields
    <2>2. /\ Stores("preview", r["preview"]) /\ fd' = fd /\ i' = i + 1 /\ u8len' = u8len
          /\ pc' = NextText(i + 1, m) /\ text_index_len' = m /\ text_index_index' = text_index_index
      <3>1. Due(w, "preview", i, j) = r["preview"]
        BY DEF Due
      <3>2. QED BY <1>8, <1>12, <2>1, <3>1 DEF LoadsTexts
    <2>3. /\ text_index' \in [1 .. m -> Rows]
          /\ \A k \in 1 .. i : text_index'[k] = text_index[k]
          /\ \A g \in RowFields : text_index'[i + 1][g] = IF g = "preview" THEN r[g] ELSE text_index[i + 1][g]
      <3>1. m \in Nat /\ text_index \in [1 .. m -> Rows] /\ i \in 0 .. m - 1 /\ r \in Rows
        BY <1>2, <1>8, <2>1
      <3>2. Stores("preview", r["preview"])
        BY <2>2
      <3> HIDE DEF m, r
      <3>3. QED BY <2>1, <3>1, <3>2, StoresOne, Zenon
    <2>4. text_index'[i + 1] = r
      <3>1. /\ text_index[i + 1].number = r.number /\ text_index[i + 1].unreads = r.unreads
            /\ text_index[i + 1].stamp = r.stamp
        BY <1>1, <1>12, <2>1 DEF TextsNow
      <3>2. i + 1 \in 1 .. m
        BY <1>2, <1>8, <2>1
      <3>3. text_index'[i + 1] \in Rows
        BY <2>3, <3>2
      <3>4. /\ text_index'[i + 1].number = r.number /\ text_index'[i + 1].unreads = r.unreads
            /\ text_index'[i + 1].stamp = r.stamp /\ text_index'[i + 1].preview = r.preview
        BY <2>3, <3>1 DEF RowFields
      <3>5. \A a, b \in Rows : /\ a.number = b.number /\ a.unreads = b.unreads
                              /\ a.stamp = b.stamp /\ a.preview = b.preview => a = b
        BY DEF Rows
      <3>6. r \in Rows
        BY <1>8, <2>1
      <3>7. QED BY <3>3, <3>4, <3>5, <3>6, Zenon
    <2>5. text_index_index[i + 1] = w.places[i + 1]
      BY <1>1, <1>12, <2>1 DEF TextsNow
    <2>6. /\ i + 1 \in 0 .. m /\ text_index_index' \in [1 .. m -> Int]
          /\ \A k \in 1 .. i + 1 : text_index'[k] = w.rows[k] /\ text_index_index'[k] = w.places[k]
      <3>1. i + 1 \in 0 .. m /\ \A k \in 1 .. i + 1 : k \in 1 .. i \/ k = i + 1
        BY <1>2, <1>8, <2>1
      <3>2. QED BY <1>8, <2>1, <2>2, <2>3, <2>4, <2>5, <3>1
    <2>7. OneOpen(fd, TextIndexPath, From(RowsOf(w), i + 1))
      <3>1. Ahead(w, "preview", i, j) = From(RowsOf(w), i + 1)
        BY <1>1, <1>4, <1>8, <2>1, ReadingGoesOn
      <3>2. PathOf("preview") = TextIndexPath
        BY DEF PathOf, FieldReads
      <3>3. QED BY <1>3, <1>12, <2>1, <3>1, <3>2
    <2>8. QED BY <1>12, <2>2, <2>3, <2>6, <2>7, ToNextText
  <1>13. CASE pc = "close_text_index"
    <2>1. pc' = "done" /\ fd' = fd /\ i' = i /\ j' = j /\ u8len' = u8len
          /\ text_index_len' = text_index_len /\ text_index' = text_index
          /\ text_index_index' = text_index_index
      BY <1>13 DEF LoadsTexts
    <2>2. DOMAIN files = {}
      BY <1>3, <1>13 DEF Closes
    <2>3. pc' \notin FieldReads /\ pc' \notin TextReads /\ pc' \notin Reads /\ pc' \notin Closes
      BY <2>1 DEF FieldReads, TextReads, Closes, Reads
    <2>4. LocalsNow(w)'
      BY <1>1, <1>4, <2>1, <2>3 DEF LocalsNow, Places
    <2>5. pc \in Closes
      BY <1>13 DEF Closes
    <2>6. ContactsNow(w)'
      BY <1>5, <1>13, <2>1, <2>3, <2>5
    <2>7. TextsNow(w)'
      BY <1>1, <1>13, <2>1, <2>3 DEF TextsNow
    <2>8. QED BY <1>1, <1>13, <2>2, <2>3, <2>4, <2>6, <2>7, Arrives
  <1>14. QED BY <1>6, <1>7, <1>9, <1>10, <1>11, <1>12, <1>13 DEF LoadsTexts

-----------------------------------------------------------------------------
(* The load. *)

(* At first there is something to be loaded, and nothing has been.         *)
LEMMA LoadStarts == LoadInit /\ Measured => LoadInv /\ Promise!Init /\ Service!Init
  <1> SUFFICES ASSUME LoadInit, Measured PROVE LoadInv /\ Promise!Init /\ Service!Init
    OBVIOUS
  <1>1. Users
    BY DEF Users, LoadInit
  <1>2. Written(Wanted) /\ Goal(Wanted) /\ disk = OnDisk(Wanted)
    BY <1>1, WantedIsWritten, WantedIsFaithful, GeneratedIsWanted DEF Goal, LoadInit
  <1>3. /\ files = << >> /\ requests = << >> /\ host_up = TRUE
        /\ data = [c \in Clients |-> Nothing] /\ host_data = [c \in Clients |-> Nothing]
        /\ pc = "open_contacts" /\ lock = "held" /\ fd = 0 /\ i = 0 /\ j = 1 /\ u8len = 0
        /\ contacts_len = 0 /\ contacts = << >>
        /\ text_index_len = 0 /\ text_index = << >> /\ text_index_index = << >>
    BY DEF LoadInit
  <1>4. HostInv
    <2>1. files \in [{} -> [path : DOMAIN disk, pos : Nat]] /\ {} \in SUBSET (0 .. MaxFd)
      BY <1>3
    <2>2. Sound(disk)
      BY <1>2, DiskIsSound, Zenon
    <2>3. host_up \in BOOLEAN
      BY <1>3
    <2>4. QED BY <2>1, <2>2, <2>3, Zenon DEF HostInv, OpenFiles
  <1>5. \A c \in Clients : data[c] = Nothing
    BY <1>3
  <1>6. CallsInv
    BY <1>3, <1>5 DEF CallsInv, Answered
  <1>7. QueueInv
    BY <1>3 DEF QueueInv
  <1>8. Loader \in Clients /\ Results = [c \in Clients |-> Nothing]
    BY <1>5, LoadAssumption DEF Results, Answered
  <1>9. CallNow
    BY <1>3, <1>5, <1>8 DEF CallNow
  <1>10. LocalsNow(Wanted)
    <2>1. Len(Wanted.contacts) \in Nat /\ Len(Wanted.rows) \in Nat
      BY <1>2, Entries
    <2>2. 0 \in 0 .. MaxFd /\ 0 \in Octets /\ 0 \in 0 .. Len(Wanted.contacts) + Len(Wanted.rows)
      <3>1. \A a, b \in Nat : 0 \in 0 .. a + b
        OBVIOUS
      <3>2. 0 \in 0 .. Len(Wanted.contacts) + Len(Wanted.rows)
        BY <2>1, <3>1
      <3>3. 0 \in 0 .. MaxFd /\ 0 \in Octets
        BY FilesAssumption DEF Octets
      <3>4. QED BY <3>2, <3>3
    <2>3. pc \in Opens /\ pc \notin FieldReads /\ pc \notin TextReads
      BY <1>3 DEF Opens, FieldReads, TextReads
    <2>4. 1 \in 1 .. 2
      OBVIOUS
    <2>5. QED BY <1>3, <2>2, <2>3, <2>4 DEF LocalsNow, Places
  <1>11. FilesNow(Wanted)
    <2>1. pc \notin Reads /\ pc \notin Closes
      BY <1>3 DEF Reads, Closes, FieldReads, TextReads
    <2>2. Results[Loader] = Nothing /\ DOMAIN files = {} /\ pc # "done"
      BY <1>3, <1>8
    <2>3. QED BY <2>1, <2>2 DEF FilesNow
  <1>12. ContactsNow(Wanted) /\ TextsNow(Wanted)
    BY <1>3 DEF ContactsNow, TextsNow, FieldReads, TextReads
  <1>13. LoadInv
    BY <1>2, <1>3, <1>4, <1>6, <1>7, <1>9, <1>10, <1>11, <1>12 DEF LoadInv, LoadingInv, FilesInv
  <1>14. Promise!Init
    BY <1>3 DEF Promise!Init
  <1>15. Service!Init
    BY <1>3, <1>8, Zenon DEF Service!Init, Results
  <1>16. QED BY <1>13, <1>14, <1>15

(* Every step keeps the invariant, and is the load as promised, or none.   *)
LEMMA LoadStep ==
  ASSUME LoadInv, [LoadNext]_loadVars
  PROVE  LoadInv' /\ [Promise!Load]_(Promise!vars)
  <1>1. PICK w : LoadingInv(w)
    BY DEF LoadInv
  <1>2. Goal(w) /\ LocalsNow(w) /\ ContactsNow(w) /\ TextsNow(w)
    BY <1>1 DEF LoadingInv
  <1>3. ASSUME UNCHANGED <<cont, shuffled, pc, lock, locals, tables>>
        PROVE  UNCHANGED Promise!vars
    <2>1. Encoded' = Encoded
      BY <1>2, <1>3, GoalStays
    <2>2. Tables' = Tables /\ lock' = lock
      BY <1>3 DEF Tables, tables, db_get_convo_from_index
    <2>3. QED BY <2>1, <2>2 DEF Promise!vars
  <1>4. CASE LoadCalls
    <2>1. LoadingInv(w)'
      BY <1>1, <1>4, CallsLoads
    <2>2. UNCHANGED <<cont, shuffled, pc, lock, locals, tables>>
      BY <1>4 DEF LoadCalls
    <2>3. QED BY <1>3, <2>1, <2>2 DEF LoadInv
  <1>5. CASE Serves
    <2>1. LoadingInv(w)'
      BY <1>1, <1>5, ServesLoads
    <2>2. UNCHANGED <<cont, shuffled, pc, lock, locals, tables>>
      BY <1>5 DEF Serves
    <2>3. QED BY <1>3, <2>1, <2>2 DEF LoadInv
  <1>6. CASE UNCHANGED loadVars
    <2>1. UNCHANGED <<cont, shuffled, pc, lock, locals, tables>>
      BY <1>6 DEF loadVars
    <2>2. /\ disk' = disk /\ files' = files /\ data' = data /\ requests' = requests
          /\ host_data' = host_data /\ host_up' = host_up
      BY <1>6 DEF loadVars, vars
    <2>3. Goal(w)' /\ LocalsNow(w)' /\ ContactsNow(w)' /\ TextsNow(w)' /\ Op' = Op
      BY <1>2, <2>1, Unmoved
    <2>4. FilesInv' /\ UNCHANGED Service!vars
      BY <1>1, <2>2, NothingAsked DEF LoadingInv, FilesInv, HostInv
    <2>5. Results' = Results
      BY <2>4, Zenon DEF Service!vars, Results
    <2>6. pc' = pc /\ fd' = fd /\ i' = i /\ j' = j
      BY <2>1 DEF locals
    <2>7. CallNow'
      BY <1>1, <2>2, <2>3, <2>6 DEF LoadingInv, CallNow
    <2>8. FilesNow(w)'
      BY <1>1, <2>2, <2>5, <2>6 DEF LoadingInv, FilesNow, OneOpen
    <2>9. LoadingInv(w)'
      BY <1>1, <2>2, <2>3, <2>4, <2>7, <2>8 DEF LoadingInv
    <2>10. QED BY <1>3, <2>1, <2>9 DEF LoadInv
  <1>7. CASE LoadResumes
    <2>1. PICK ret : /\ ret = fs_result(data[Loader], host_data[Loader].ret)
                     /\ \/ LoadsContacts(ret) /\ UNCHANGED <<text_index_len, text_index, text_index_index>>
                        \/ LoadsTexts(ret) /\ UNCHANGED <<j, contacts_len, contacts>>
      BY <1>7, Zenon DEF LoadResumes
    <2>2. Returned(ret)
      BY <1>7, <2>1 DEF LoadResumes, Returned
    <2>3. LoadingInv(w)' /\ (pc = "close_text_index" \/ lock' = "held")
      BY <1>1, <2>1, <2>2, ContactsLoad, TextsLoad
    <2>4. lock = "held" /\ cont' = cont
      <3>1. pc # "done"
        BY <1>1, <2>2, LoaderReturns DEF Returned
      <3>2. QED BY <1>2, <2>2, <3>1 DEF LocalsNow, Returned
    <2>5. Encoded' = Encoded
      BY <1>2, <2>4, GoalStays
    <2>6. CASE lock' = "held"
      BY <2>3, <2>4, <2>5, <2>6 DEF LoadInv, Promise!vars
    <2>7. CASE lock' # "held"
      <3>1. pc' = "done" /\ ContactsNow(w)' /\ TextsNow(w)'
        BY <2>3, <2>7 DEF LoadingInv, LocalsNow
      <3>2. contacts' = w.contacts /\ text_index_len' = Len(w.rows) /\ text_index' = w.rows
            /\ text_index_index' = w.places
        BY <3>1 DEF ContactsNow, TextsNow, FieldReads
      <3>3. Tables' = LookUps(w)
        BY <3>2 DEF Tables, LookUps, db_get_convo_from_index
      <3>4. Promise!Load
        <4>1. Promise!Faithful(LookUps(w))
          BY <1>2 DEF Goal
        <4>2. \A d : Len(<<d>>) = 1 /\ <<d>>[1] = d
          OBVIOUS
        <4>3. QED BY <2>4, <2>5, <2>7, <3>3, <4>1, <4>2 DEF Promise!Load
      <3>5. QED BY <2>3, <3>4 DEF LoadInv
    <2>8. QED BY <2>6, <2>7
  <1>8. QED BY <1>4, <1>5, <1>6, <1>7 DEF LoadNext

(* What the invariant says of the load, its files and its reads.           *)
LEMMA LoadIsRight ==
  ASSUME LoadInv
  PROVE  FilesAndLoadInv /\ ReadsAreWhole
  <1>1. PICK w : LoadingInv(w)
    BY DEF LoadInv
  <1>2. /\ Goal(w) /\ Written(w) /\ LocalsNow(w) /\ ContactsNow(w) /\ TextsNow(w) /\ FilesNow(w)
        /\ FilesInv /\ CallNow /\ host_up = TRUE
    BY <1>1 DEF LoadingInv, Goal
  <1>3. TypeOK
    BY <1>2, InvIsTyped
  <1>4. LoadTypeOK
    <2>1. lock \in {"held", "free"} /\ (lock = "free" <=> pc = "done")
      BY <1>2 DEF LocalsNow
    <2>2. lock = "free" => files = << >>
      <3>1. SUFFICES ASSUME pc = "done" PROVE files = << >>
        BY <2>1
      <3>2. DOMAIN files = {}
        BY <1>2, <3>1 DEF FilesNow
      <3>3. PICK D \in SUBSET (0 .. MaxFd) : files \in [D -> [path : DOMAIN disk, pos : Nat]]
        BY <1>2, Zenon DEF FilesInv, HostInv, OpenFiles
      <3>4. QED BY <3>2, <3>3
    <2>3. fd \in 0 .. MaxFd /\ i \in 0 .. Len(cont.contacts) + Len(cont.texts)
      BY <1>2 DEF LocalsNow, Goal
    <2>4. j \in DOMAIN Field
      BY <1>2 DEF LocalsNow, Field
    <2>5. u8len \in 0 .. Base - 1
      BY <1>2 DEF LocalsNow, Octets
    <2>6. Len(w.contacts) \in Nat /\ Len(w.rows) \in Nat /\ w.contacts \in Seq(Cards) /\ w.rows \in Seq(Rows)
          /\ w.places \in [1 .. Len(w.rows) -> 0 .. Len(w.rows) - 1]
      BY <1>2, Entries DEF Written
    <2>7. DOMAIN contacts = 1 .. contacts_len
      <3>1. CASE pc \in {"open_contacts", "contacts_len"}
        BY <1>2, <3>1 DEF ContactsNow
      <3>2. CASE pc \in FieldReads
        BY <1>2, <3>2 DEF ContactsNow
      <3>3. CASE pc \notin {"open_contacts", "contacts_len"} \cup FieldReads
        <4>1. contacts_len = Len(w.contacts) /\ contacts = w.contacts
          BY <1>2, <3>3 DEF ContactsNow
        <4>2. QED BY <2>6, <4>1
      <3>4. QED BY <3>1, <3>2, <3>3
    <2>8. DOMAIN text_index = 1 .. text_index_len /\ DOMAIN text_index_index = 1 .. text_index_len
      <3>1. CASE pc \notin TextReads \cup {"close_text_index", "done"}
        BY <1>2, <3>1 DEF TextsNow
      <3>2. CASE pc \in TextReads
        BY <1>2, <3>2 DEF TextsNow
      <3>3. CASE pc \in {"close_text_index", "done"}
        <4>1. text_index_len = Len(w.rows) /\ text_index = w.rows /\ text_index_index = w.places
          BY <1>2, <3>3 DEF TextsNow
        <4>2. QED BY <2>6, <4>1
      <3>4. QED BY <3>1, <3>2, <3>3
    <2>9. QED BY <2>1, <2>2, <2>3, <2>4, <2>5, <2>7, <2>8 DEF LoadTypeOK
  <1>5. ReadsAnswerable
    BY <1>1, LoadCanBeServed DEF ReadsAnswerable
  <1>6. QED BY <1>2, <1>3, <1>4, <1>5 DEF FilesAndLoadInv, HostDiesForCause, ReadsAreWhole

(* Whatever the user's contacts and conversations, if their names and      *)
(* numbers are of one-byte characters: the locals and tables of            *)
(* initial_load are always what db.c's code says, every file is closed     *)
(* when db_lock is free, and the host can always do what it is asked for   *)
(* (db.c:41-178, disk_gen.py:17-66, main.py:110-156).                      *)
THEOREM LoadIsSafe == LoadSpec /\ Measured => []FilesAndLoadInv
  BY LoadStarts, LoadStep, LoadIsRight, PTL DEF LoadSpec

(* Then main.py's assertion that a read brings all it asks for holds of    *)
(* every read of the load (main.py:145).                                   *)
THEOREM LoadReadsWhole == LoadSpec /\ Measured => []ReadsAreWhole
  BY LoadStarts, LoadStep, LoadIsRight, PTL DEF LoadSpec

(* And the load is the one step the database promises: what the screens    *)
(* find once db_lock is free is what the user wrote, the latest            *)
(* conversation first, and they find nothing before (db.c:41-178, 228;     *)
(* disk_gen.py:17-66).                                                     *)
THEOREM LoadImplementsDatabase == LoadSpec /\ Measured => ImplementsDatabase
  BY LoadStarts, LoadStep, PTL DEF LoadSpec, ImplementsDatabase, Promise!Spec
=============================================================================
