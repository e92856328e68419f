-------------------------- MODULE FramedFileProofs --------------------------
(***************************************************************************)
(* What is proved of a file between its writer and its reader, for every set *)
(* of layouts and framings the generator takes, every set of records, any    *)
(* number of records and of writes that fail, and any byte that is damaged.  *)
(***************************************************************************)
EXTENDS FramedFile, SequenceTheorems, FiniteSetTheorems, WellFoundedInduction, TLAPS

-----------------------------------------------------------------------------
(* Arithmetic: what is divided, rounded and put in two bytes.                *)

(* Division, as the provers need it said.                                    *)
LEMMA Division ==
    ASSUME NEW a \in Nat, NEW m \in Nat \ {0}
    PROVE  /\ a \div m \in Int
           /\ a % m \in 0 .. m - 1
           /\ a = m * (a \div m) + (a % m)
  <1>1. a \div m \in Int
    OBVIOUS
  <1>2. a % m \in 0 .. m - 1
    OBVIOUS
  <1>3. \A x \in Nat, y \in Nat \ {0} : x = y * (x \div y) + (x % y)
    BY SMTT(30)
  <1>4. a = m * (a \div m) + (a % m)
    BY <1>3
  <1> DEFINE q == a \div m
             r == a % m
  <1> HIDE DEF q, r
  <1>5. q \in Int /\ r \in 0 .. m - 1 /\ a = m * q + r
    BY <1>1, <1>2, <1>4 DEF q, r
  <1> QED
    BY <1>5 DEF q, r

(* A byte as the provers take it.                                            *)
LEMMA Bytes == \A b : b \in Byte <=> b \in Nat /\ b < 256
  BY DEF Byte

(* A length that two bytes hold is the one that is read back.                *)
LEMMA WordStates ==
    ASSUME NEW n \in Nat, n <= MaxStated, NEW code \in Byte
    PROVE  /\ Word(n, code) \in Seq(Byte)
           /\ Len(Word(n, code)) = DescriptorWidth
           /\ Word(n, code)[3] = code
           /\ Stated(Word(n, code)) = n
  <1>1. MaxStated \in Nat /\ MaxStated < 65536
    BY TwoBytes
  <1>2. Kept(n) = n
    <2> DEFINE m == MaxStated + 1
    <2>1. m \in Nat \ {0} /\ n < m
      BY <1>1
    <2>2. n % m = n
      <3> HIDE DEF m
      <3> QED
        BY <2>1
    <2> QED
      BY <2>2 DEF Kept
  <1>3. n \div 256 \in Byte /\ n % 256 \in Byte /\ (n \div 256) * 256 + (n % 256) = n
    <2> DEFINE q == n \div 256
               r == n % 256
    <2>1. q \in Int /\ q >= 0 /\ r \in 0 .. 255
      OBVIOUS
    <2>2. n = 256 * q + r
      BY Division
    <2>3. n < 65536
      BY <1>1
    <2> HIDE DEF q, r
    <2>4. q <= 255
      BY <2>1, <2>2, <2>3
    <2>5. q * 256 + r = n
      BY <2>1, <2>2
    <2>6. q \in Byte /\ r \in Byte
      BY <2>1, <2>4 DEF Byte
    <2> QED
      BY <2>5, <2>6 DEF q, r
  <1>4. 0 \in Byte
    BY DEF Byte
  <1> QED
    BY <1>2, <1>3, <1>4 DEF Word, Stated, DescriptorWidth

(* The number of pieces of so many bytes, of at most so many each.           *)
LEMMA Ceiling ==
    ASSUME NEW len \in Nat \ {0}, NEW most \in Nat \ {0}
    PROVE  LET n == (len + most - 1) \div most
           IN  /\ n \in Nat \ {0}
               /\ (n - 1) * most < len
               /\ len <= n * most
  <1> DEFINE a == len + most - 1
             n == a \div most
  <1>1. a \in Nat /\ a >= most
    OBVIOUS
  <1>2. n \in Int /\ a = most * n + (a % most) /\ a % most \in 0 .. most - 1
    <2> HIDE DEF a
    <2> QED
      BY <1>1, Division
  <1>3. most * n <= a /\ a < most * n + most
    <2> HIDE DEF n, a
    <2> QED
      BY <1>1, <1>2
  <1>4. (n - 1) * most = most * n - most /\ n * most = most * n
    <2> HIDE DEF n, a
    <2> QED
      BY <1>2
  <1>5. n >= 1
    <2>1. SUFFICES ASSUME n <= 0 PROVE FALSE
      <3> HIDE DEF n
      <3> QED
        BY <1>2
    <2>2. most * n <= 0
      <3> HIDE DEF n
      <3> QED
        BY <1>2, <2>1
    <2>3. a < most
      <3> HIDE DEF n, a
      <3>1. most * n \in Int
        BY <1>2
      <3> QED
        BY <1>1, <1>3, <2>2, <3>1
    <2> QED
      BY <1>1, <2>3
  <1> QED
    <2> HIDE DEF n
    <2>1. n \in Nat \ {0} /\ (n - 1) * most < len /\ len <= n * most
      BY <1>2, <1>3, <1>4, <1>5
    <2> QED
      BY <2>1 DEF n

-----------------------------------------------------------------------------
(* What Emission and Pieces make of a record.                                *)

Chunk == [bytes : Seq(Byte), framing : BOOLEAN]

EmissionOf(i, raw) ==
    CASE framing.how = "unframed" -> <<Data(raw)>>
      [] framing.how = "word" -> <<Frame(Word(Len(raw) + DescriptorWidth, 0)), Data(raw)>>
      [] framing.how = "segmented" -> Segmented(raw)
      [] framing.how = "separator" ->
            IF i = 1 THEN <<Data(raw)>> ELSE <<Frame(framing.delimiter), Data(raw)>>
      [] OTHER -> <<Data(raw), Frame(framing.delimiter)>>

(* Whatever a word is made to state, it is four bytes.                       *)
LEMMA WordTyped ==
    ASSUME NEW n \in Nat, NEW code \in Byte
    PROVE  Word(n, code) \in Seq(Byte)
  <1>1. ASSUME NEW v \in Nat, v < 65536
        PROVE  v \div 256 \in Byte /\ v % 256 \in Byte
    <2> DEFINE q == v \div 256
               r == v % 256
    <2>1. q \in Int /\ r \in 0 .. 256 - 1 /\ v = 256 * q + r
      BY Division
    <2> HIDE DEF q, r
    <2>2. q \in Nat /\ q < 256 /\ r \in Nat /\ r < 256
      BY <1>1, <2>1
    <2>3. q \in Byte /\ r \in Byte
      BY <2>2, Bytes
    <2> QED
      BY <2>3 DEF q, r
  <1>2. Kept(n) \in Nat /\ Kept(n) < 65536
    <2> DEFINE m == MaxStated + 1
    <2>1. m \in Nat \ {0} /\ m <= 65536
      BY TwoBytes
    <2> HIDE DEF m
    <2>2. n % m \in 0 .. m - 1
      BY <2>1, Division
    <2>3. n % m \in Nat /\ n % m < 65536
      <3> DEFINE w == n % m
      <3>1. w \in 0 .. m - 1
        BY <2>2
      <3> HIDE DEF w
      <3>2. w \in Nat /\ w < 65536
        BY <2>1, <3>1
      <3> QED
        BY <3>2 DEF w
    <2> QED
      BY <2>3 DEF m, Kept
  <1>3. 0 \in Byte
    BY DEF Byte
  <1> DEFINE q == Kept(n) \div 256
             r == Kept(n) % 256
  <1>4. q \in Byte /\ r \in Byte
    BY <1>1, <1>2
  <1> HIDE DEF q, r
  <1>5. <<q, r, code, 0>> \in Seq(Byte)
    BY <1>3, <1>4
  <1> QED
    BY <1>5 DEF Word, q, r

(* A segment has room for data.                                              *)
LEMMA MostTyped ==
    ASSUME framing \in Framings, framing.how = "segmented"
    PROVE  Most \in Nat \ {0} /\ framing.segment = Most + DescriptorWidth
  BY FramingsAdmitted, FileTypes DEF Admissible, Most, DescriptorWidth

(* The pieces of a record follow one another through it, all as long as a    *)
(* segment takes but the last, which is no longer and not empty.             *)
LEMMA PiecesCover ==
    ASSUME framing \in Framings, framing.how = "segmented",
           NEW raw \in Seq(Byte), Len(raw) >= 1
    PROVE  LET n == Len(Pieces(raw))
           IN  /\ n \in Nat \ {0}
               /\ \A i \in 1 .. n : i * Most \in Nat /\ (i - 1) * Most \in Nat /\ i * Most = (i - 1) * Most + Most
               /\ \A i \in 1 .. n :
                     /\ Pieces(raw)[i] \in Seq(Byte)
                     /\ Len(Pieces(raw)[i]) \in 1 .. Most
                     /\ i < n => Len(Pieces(raw)[i]) = Most /\ i * Most < Len(raw)
                     /\ i = n => (i - 1) * Most + Len(Pieces(raw)[i]) = Len(raw)
                     /\ \A p \in 1 .. Len(Pieces(raw)[i]) :
                           Pieces(raw)[i][p] = raw[(i - 1) * Most + p]
  <1> DEFINE n == (Len(raw) + Most - 1) \div Most
             L == Len(raw)
             piece(i) == SubSeq(raw, (i - 1) * Most + 1, IF i * Most < L THEN i * Most ELSE L)
  <1>1. Most \in Nat \ {0} /\ L \in Nat \ {0}
    BY MostTyped
  <1>2. n \in Nat \ {0} /\ (n - 1) * Most < L /\ L <= n * Most
    <2> DEFINE m == Most
               l == L
    <2>1. m \in Nat \ {0} /\ l \in Nat \ {0}
      BY <1>1
    <2> HIDE DEF m, l
    <2>2. /\ (l + m - 1) \div m \in Nat \ {0}
          /\ ((l + m - 1) \div m - 1) * m < l
          /\ l <= ((l + m - 1) \div m) * m
      BY <2>1, Ceiling
    <2> QED
      BY <2>2 DEF l, m
  <1> HIDE DEF n
  <1>3. Pieces(raw) = [i \in 1 .. n |-> piece(i)]
    BY DEF Pieces, n
  <1>4. Len(Pieces(raw)) = n /\ \A i \in 1 .. n : Pieces(raw)[i] = piece(i)
    <2> HIDE DEF piece
    <2> QED
      BY <1>2, <1>3
  <1>5. \A i \in 1 .. n : i * Most \in Nat /\ (i - 1) * Most \in Nat /\ i * Most = (i - 1) * Most + Most
    <2> DEFINE m == Most
    <2>1. m \in Nat
      BY <1>1
    <2> HIDE DEF m
    <2> SUFFICES ASSUME NEW i \in 1 .. n
                 PROVE  i * m \in Nat /\ (i - 1) * m \in Nat /\ i * m = (i - 1) * m + m
      BY DEF m
    <2>2. i \in Nat /\ i - 1 \in Nat
      BY <1>2
    <2>3. i * m \in Nat /\ (i - 1) * m \in Nat
      BY <2>1, <2>2
    <2> QED
      BY <2>1, <2>2, <2>3
  <1>6. ASSUME NEW i \in 1 .. n, i < n
        PROVE  i * Most < L
    <2> DEFINE m == Most
    <2>1. m \in Nat /\ n \in Nat /\ i \in Nat /\ L \in Nat /\ (n - 1) * m < L
      BY <1>1, <1>2
    <2> HIDE DEF m
    <2>2. i * m <= (n - 1) * m
      <3>1. n - 1 = i + (n - 1 - i) /\ n - 1 - i \in Nat
        BY <1>6, <2>1
      <3> DEFINE e == n - 1 - i
      <3> HIDE DEF e
      <3>2. (i + e) * m = i * m + e * m /\ e * m >= 0
        BY <2>1, <3>1 DEF e
      <3>3. (n - 1) * m = (i + e) * m
        BY <3>1 DEF e
      <3>4. i * m \in Int /\ e * m \in Int /\ (n - 1) * m \in Int
        BY <2>1, <3>1 DEF e
      <3> QED
        BY <3>2, <3>3, <3>4
    <2>3. i * m \in Int /\ (n - 1) * m \in Int
      BY <2>1
    <2>4. i * m < L
      BY <2>1, <2>2, <2>3
    <2> QED
      BY <2>4 DEF m
  <1>7. ASSUME NEW i \in 1 .. n
        PROVE  /\ piece(i) \in Seq(Byte)
               /\ Len(piece(i)) \in 1 .. Most
               /\ i < n => Len(piece(i)) = Most /\ i * Most < L
               /\ i = n => (i - 1) * Most + Len(piece(i)) = L
               /\ \A p \in 1 .. Len(piece(i)) : piece(i)[p] = raw[(i - 1) * Most + p]
    <2> DEFINE a == (i - 1) * Most
               b == i * Most
               z == IF b < L THEN b ELSE L
    <2>1. a \in Nat /\ b \in Nat /\ b = a + Most
      BY <1>5
    <2>2. i < n => b < L
      BY <1>6
    <2>3. i = n => a < L /\ L <= b
      BY <1>2
    <2>4. i = n \/ i < n
      BY <1>2
    <2>5. piece(i) = SubSeq(raw, a + 1, z)
      OBVIOUS
    <2> HIDE DEF a, b
    <2>6. z \in Nat /\ z <= L /\ a + 1 <= z /\ z - a \in 1 .. Most /\ (i < n => z = a + Most) /\ (i = n => z = L)
      BY <1>1, <2>1, <2>2, <2>3, <2>4
    <2> HIDE DEF z, piece
    <2>7. /\ piece(i) \in Seq(Byte)
          /\ Len(piece(i)) = z - a
          /\ \A p \in 1 .. z - a : piece(i)[p] = raw[a + p]
      BY <1>1, <2>1, <2>5, <2>6
    <2>8. /\ piece(i) \in Seq(Byte)
          /\ Len(piece(i)) \in 1 .. Most
          /\ i < n => Len(piece(i)) = Most /\ b < L
          /\ i = n => a + Len(piece(i)) = L
          /\ \A p \in 1 .. Len(piece(i)) : piece(i)[p] = raw[a + p]
      BY <1>1, <2>1, <2>2, <2>6, <2>7
    <2> QED
      BY <2>8 DEF a, b
  <1> HIDE DEF piece
  <1> QED
    BY <1>2, <1>4, <1>5, <1>7

(* The greatest of some numbers.                                             *)
LEMMA GreatestOf ==
    ASSUME NEW S, IsFiniteSet(S), S # {}, S \subseteq Nat
    PROVE  \E n \in S : \A m \in S : m <= n
  <1> DEFINE Above(n) == {q \in S : n < q}
             Inside == StrictSubsetOrdering(S)
             Aboves == {Above(n) : n \in S}
  <1>1. IsWellFoundedOn(Inside, SUBSET S)
    BY FS_StrictSubsetOrderingWellFounded, FS_FiniteSubsetsOfFinite
  <1>2. Aboves \subseteq SUBSET S /\ Aboves # {}
    OBVIOUS
  <1>3. \E x \in Aboves : \A y \in Aboves : ~ (<<y, x>> \in Inside)
    <2> HIDE DEF Inside, Aboves
    <2> QED
      BY <1>1, <1>2, WFMin
  <1>4. PICK n \in S : \A m \in S : ~ (<<Above(m), Above(n)>> \in Inside)
    BY <1>3
  <1>5. ASSUME NEW m \in S, n < m PROVE FALSE
    <2>1. Above(m) \subseteq Above(n)
      <3> SUFFICES ASSUME NEW q \in S, m < q PROVE n < q
        OBVIOUS
      <3>1. m \in Nat /\ n \in Nat /\ q \in Nat
        OBVIOUS
      <3> QED
        BY <1>5, <3>1
    <2>2. m \in Above(n) /\ m \notin Above(m)
      BY <1>5
    <2>3. <<Above(m), Above(n)>> \in Inside
      BY <2>1, <2>2 DEF StrictSubsetOrdering
    <2> QED
      BY <1>4, <2>3
  <1> QED
    BY <1>4, <1>5

(* What a transition is made of.                                             *)
LEMMA TransitionTyped ==
    ASSUME layout \in Layouts, NEW i \in DOMAIN layout.transitions
    PROVE  layout.transitions[i].record \in RecordType /\ layout.transitions[i].to \in Nat
  <1> DEFINE T == [from : Nat, record : RecordType, to : Nat]
             s == layout.transitions
  <1>1. s \in Seq(T)
    BY FileTypes
  <1> HIDE DEF T, s
  <1>2. \A j \in DOMAIN s : s[j] \in T
    BY <1>1
  <1>3. s[i] \in T
    BY <1>2 DEF s
  <1> QED
    BY <1>3 DEF T, s

(* The window of a predicate reaches as far as any of them looks.            *)
LEMMA LookaheadReaches ==
    ASSUME layout \in Layouts, NEW i \in DOMAIN layout.transitions
    PROVE  /\ Lookahead(layout) \in Nat
           /\ Form[layout.transitions[i].record].at <= Lookahead(layout)
  <1> DEFINE D == DOMAIN layout.transitions
             reach(j) == Form[layout.transitions[j].record].at
             S == {reach(j) : j \in D}
             f == [j \in D |-> reach(j)]
  <1>1. layout.transitions \in Seq([from : Nat, record : RecordType, to : Nat])
    BY FileTypes
  <1>2. D = 1 .. Len(layout.transitions) /\ Len(layout.transitions) \in Nat
    BY <1>1
  <1>3. IsFiniteSet(D)
    BY <1>2, FS_Interval
  <1>4. S \subseteq Nat
    <2> SUFFICES ASSUME NEW j \in D PROVE reach(j) \in Nat
      OBVIOUS
    <2>1. layout.transitions[j].record \in RecordType
      BY TransitionTyped
    <2> QED
      BY <2>1, FileTypes
  <1>5. f \in Surjection(D, S)
    <2> HIDE DEF D, reach
    <2> QED
      BY DEF Surjection
  <1>6. IsFiniteSet(S)
    <2> HIDE DEF D, S, f
    <2> QED
      BY <1>3, <1>5, FS_Surjection
  <1>7. reach(i) \in S
    OBVIOUS
  <1>8. \E n \in S : \A m \in S : m <= n
    <2> HIDE DEF S
    <2> QED
      BY <1>4, <1>6, <1>7, GreatestOf
  <1>9. Lookahead(layout) \in S /\ \A m \in S : m <= Lookahead(layout)
    BY <1>8 DEF Lookahead
  <1> QED
    BY <1>4, <1>7, <1>9

(* A piece has two writes, at an odd place and at the even one behind it.    *)
LEMMA Halves ==
    ASSUME NEW n \in Nat, NEW k \in 1 .. 2 * n
    PROVE  (k + 1) \div 2 \in 1 .. n
  <1> DEFINE a == k + 1
             q == a \div 2
             r == a % 2
  <1>1. a \in Nat /\ a >= 2 /\ a <= 2 * n + 1
    OBVIOUS
  <1>2. q \in Int /\ r \in 0 .. 2 - 1 /\ a = 2 * q + r
    <2> HIDE DEF a
    <2> QED
      BY <1>1, Division
  <1> HIDE DEF a, q, r
  <1>3. q \in 1 .. n
    BY <1>1, <1>2
  <1> QED
    BY <1>3 DEF q, a

(* Which writes are those of piece j.                                        *)
LEMMA Doubles ==
    ASSUME NEW j \in Nat \ {0}
    PROVE  /\ ((2 * j - 1) + 1) \div 2 = j /\ (2 * j - 1) % 2 = 1
           /\ (2 * j + 1) \div 2 = j /\ (2 * j) % 2 = 0
  OBVIOUS

(* Every record is put in the file by one write or more.                     *)
LEMMA EmissionTyped ==
    ASSUME framing \in Framings, NEW raw \in Seq(Byte), Len(raw) >= 1, NEW i
    PROVE  EmissionOf(i, raw) \in Seq(Chunk) /\ EmissionOf(i, raw) # <<>>
  <1>1. \A b \in Seq(Byte) : Frame(b) \in Chunk /\ Data(b) \in Chunk
    BY DEF Frame, Data, Chunk
  <1>2. framing.delimiter \in Seq(Byte) /\ framing.how \in How
    BY FileTypes, FramingsAdmitted DEF Admissible
  <1>3. Data(raw) \in Chunk /\ Frame(framing.delimiter) \in Chunk
    BY <1>1, <1>2
  <1>4. 0 \in Byte /\ 1 \in Byte /\ 2 \in Byte /\ 3 \in Byte
    BY Bytes
  <1>5. CASE framing.how = "word"
    <2>1. Len(raw) + DescriptorWidth \in Nat
      BY DEF DescriptorWidth
    <2>2. Frame(Word(Len(raw) + DescriptorWidth, 0)) \in Chunk
      BY <1>1, <1>4, <2>1, WordTyped
    <2>3. EmissionOf(i, raw) = <<Frame(Word(Len(raw) + DescriptorWidth, 0)), Data(raw)>>
      BY <1>5 DEF EmissionOf
    <2> QED
      BY <1>3, <2>2, <2>3
  <1>6. CASE framing.how = "segmented"
    <2> DEFINE n == Len(Pieces(raw))
               c(k) == LET i_1 == (k + 1) \div 2
                       IN  IF k % 2 = 1 THEN Frame(Word(Len(Pieces(raw)[i_1]) + DescriptorWidth, Code(i_1, n)))
                                        ELSE Data(Pieces(raw)[i_1])
    <2>1. n \in Nat \ {0} /\ \A j \in 1 .. n : Pieces(raw)[j] \in Seq(Byte)
      BY <1>6, PiecesCover
    <2>2. EmissionOf(i, raw) = [k \in 1 .. 2 * n |-> c(k)]
      BY <1>6 DEF EmissionOf, Segmented
    <2>3. ASSUME NEW k \in 1 .. 2 * n PROVE c(k) \in Chunk
      <3> DEFINE j == (k + 1) \div 2
      <3>1. j \in 1 .. n
        <4> HIDE DEF n
        <4> QED
          BY <2>1, Halves
      <3> HIDE DEF j
      <3>2. Pieces(raw)[j] \in Seq(Byte) /\ Len(Pieces(raw)[j]) + DescriptorWidth \in Nat
        BY <2>1, <3>1 DEF DescriptorWidth
      <3>3. Code(j, n) \in Byte
        BY <1>4 DEF Code
      <3>4. Frame(Word(Len(Pieces(raw)[j]) + DescriptorWidth, Code(j, n))) \in Chunk /\ Data(Pieces(raw)[j]) \in Chunk
        BY <1>1, <3>2, <3>3, WordTyped
      <3> QED
        BY <3>4 DEF j
    <2> HIDE DEF c, n
    <2>4. 2 * n \in Nat /\ 2 * n >= 1
      BY <2>1
    <2> QED
      BY <2>2, <2>3, <2>4
  <1>7. CASE framing.how = "separator"
    BY <1>3, <1>7 DEF EmissionOf
  <1>8. CASE framing.how = "unframed"
    BY <1>3, <1>8 DEF EmissionOf
  <1>9. CASE framing.how \in {"terminator", "optional"}
    BY <1>3, <1>9 DEF EmissionOf
  <1> QED
    BY <1>2, <1>5, <1>6, <1>7, <1>8, <1>9 DEF How

-----------------------------------------------------------------------------
(* Where the writes of a record are in the file, and what a record is that   *)
(* Write let through.                                                        *)

(* The bytes of the file behind a position, but for the damaged one.         *)
Holds(at, bytes) ==
    \A p \in 1 .. Len(bytes) : at + p = damaged \/ disk[at + p] = bytes[p]

(* The first n writes of an emission are in the file, the k-th of them       *)
(* between at[k - 1] and at[k].                                              *)
Laid(em, at, n) ==
    /\ \A k \in 0 .. n : at[k] \in Nat /\ at[0] <= at[k] /\ at[k] <= at[n]
    /\ at[n] <= Len(disk)
    /\ \A k \in 1 .. n :
          /\ at[k] = at[k - 1] + Len(em[k].bytes)
          /\ Holds(at[k - 1], em[k].bytes)
          /\ em[k].framing => at[k - 1] + 1 .. at[k] \subseteq framed

Whole(em, at) == Laid(em, at, Len(em))

(* The table of a record agrees with the register.                           *)
Fits(R, raw, count) ==
    Form[R].table => /\ count # Unbound
                     /\ Len(raw) = Extent(R, count)
                     /\ count \in Form[R].least .. Form[R].most

(* What Write finds of a record, between the state it leaves and the one it  *)
(* leads to.                                                                 *)
Takes(from, count, R, raw, to) ==
    /\ \E i \in Leaving(layout, from) : layout.transitions[i].record = R /\ layout.transitions[i].to = to
    /\ raw \in Values[R]
    /\ Fits(R, raw, count)
    /\ Matches(R, raw)
    /\ Statable(raw)

(* A record that was written is as long as its extent, its count is one the  *)
(* copybook allows, and of the transitions that leave the state only those   *)
(* that are its own match it (Reachable).                                    *)
LEMMA TakenRecord ==
    ASSUME layout \in Layouts, NEW from, NEW count, NEW R, NEW raw, NEW to,
           Takes(from, count, R, raw, to)
    PROVE  /\ R \in RecordType /\ raw \in Seq(Byte) /\ to \in Nat
           /\ Decodes(R, raw)
           /\ Len(raw) = Extent(R, count)
           /\ Len(raw) >= 1
           /\ Form[R].table => count \in Form[R].least .. Form[R].most
           /\ \A j \in Leaving(layout, from) :
                 LET S == layout.transitions[j].record
                 IN  /\ Form[S].at \in Nat
                     /\ Form[S].at <= Len(raw)
                     /\ Matches(S, raw) => S = R /\ layout.transitions[j].to = to
  <1>1. PICK i \in Leaving(layout, from) : layout.transitions[i].record = R /\ layout.transitions[i].to = to
    BY DEF Takes
  <1>2. i \in DOMAIN layout.transitions /\ layout.transitions[i].from = from
    BY <1>1 DEF Leaving
  <1>3. R \in RecordType /\ to \in Nat
    BY <1>1, <1>2, TransitionTyped
  <1>4. raw \in Seq(Byte) /\ Decodes(R, raw) /\ (Form[R].table \/ Len(raw) = Form[R].fixed)
    BY <1>3, ValuesEncoded DEF Takes
  <1>5. Form[R] \in [at : Nat, tag : Byte, fixed : Nat, table : BOOLEAN,
                     least : Nat, most : Nat, counts : Nat]
    BY <1>3, FileTypes
  <1>6. Form[R].fixed \in Nat /\ Form[R].least \in Nat /\ Form[R].most \in Nat /\ Form[R].at \in Nat
    BY <1>5
  <1>7. /\ Len(raw) = Extent(R, count)
        /\ Form[R].table => count \in Form[R].least .. Form[R].most
    BY <1>4, <1>6 DEF Takes, Fits, Extent
  <1>8. Least(R) <= Len(raw) /\ Least(R) \in Nat
    BY <1>6, <1>7 DEF Extent, Least
  <1>9. Reachable(layout, from)
    BY <1>2, LayoutsResolve
  <1>10. Least(R) >= 1
    BY <1>1, <1>9 DEF Reachable
  <1>11. ASSUME NEW j \in Leaving(layout, from)
         PROVE  LET S == layout.transitions[j].record
                IN  /\ Form[S].at \in Nat
                    /\ Form[S].at <= Len(raw)
                    /\ Matches(S, raw) => S = R /\ layout.transitions[j].to = to
    <2> DEFINE S == layout.transitions[j].record
    <2>1. /\ Form[S].at <= Least(R)
          /\ j # i => /\ Form[S].at = Form[R].at /\ Form[S].at # 0
                      /\ Form[S].tag # Form[R].tag
      BY <1>1, <1>9 DEF Reachable
    <2>2. S \in RecordType
      BY TransitionTyped DEF Leaving
    <2>3. Form[S] \in [at : Nat, tag : Byte, fixed : Nat, table : BOOLEAN,
                       least : Nat, most : Nat, counts : Nat]
      BY <2>2, FileTypes
    <2>4. Form[S].at \in Nat
      BY <2>3
    <2>5. Len(raw) \in Nat
      BY <1>4
    <2>6. Form[S].at <= Len(raw)
      BY <1>8, <2>1, <2>4, <2>5
    <2>7. ASSUME Matches(S, raw), j # i PROVE FALSE
      <3>1. Matches(R, raw)
        BY DEF Takes
      <3>2. raw[Form[R].at] = Form[R].tag /\ raw[Form[S].at] = Form[S].tag
        BY <2>1, <2>7, <3>1 DEF Matches
      <3> QED
        BY <2>1, <2>7, <3>2
    <2> QED
      BY <1>1, <2>4, <2>6, <2>7
  <1>12. Len(raw) >= 1
    BY <1>4, <1>8, <1>10
  <1> QED
    BY <1>3, <1>4, <1>7, <1>11, <1>12

(* The register is bound to a number.                                        *)
LEMMA TakenBinds ==
    ASSUME layout \in Layouts, NEW from, NEW count \in Int, NEW R, NEW raw, NEW to,
           Takes(from, count, R, raw, to)
    PROVE  Bound(R, raw, count) \in Int
  <1>1. Decodes(R, raw)
    BY TakenRecord
  <1>2. \A x \in Digit : x - 240 \in Int
    BY Counts
  <1> QED
    BY <1>1, <1>2 DEF Decodes, Bound, Decoded

-----------------------------------------------------------------------------
(* What a record looks like in the file, framing by framing.                 *)

(* ... behind a descriptor word,                                             *)
LEMMA WordShape ==
    ASSUME framing.how = "word", NEW raw \in Seq(Byte), NEW i, NEW at,
           Whole(EmissionOf(i, raw), at)
    PROVE  LET word == Word(Len(raw) + DescriptorWidth, 0)
           IN  /\ at[0] \in Nat /\ at[0] + DescriptorWidth + Len(raw) <= Len(disk)
               /\ at[2] = at[0] + DescriptorWidth + Len(raw)
               /\ Len(EmissionOf(i, raw)) = 2
               /\ Holds(at[0], word)
               /\ at[0] + 1 .. at[0] + DescriptorWidth \subseteq framed
               /\ Holds(at[0] + DescriptorWidth, raw)
  <1> DEFINE word == Word(Len(raw) + DescriptorWidth, 0)
             em == EmissionOf(i, raw)
  <1>1. em = <<Frame(word), Data(raw)>>
    BY DEF EmissionOf
  <1>2. /\ Len(em) = 2 /\ em[1].bytes = word /\ em[1].framing = TRUE
        /\ em[2].bytes = raw /\ Len(word) = DescriptorWidth
    BY <1>1 DEF Frame, Data, Word, DescriptorWidth
  <1> HIDE DEF em, word
  <1>3. Laid(em, at, 2)
    BY <1>2 DEF Whole, em
  <1>4. /\ at[0] \in Nat /\ at[2] <= Len(disk)
        /\ at[1] = at[0] + Len(em[1].bytes) /\ Holds(at[0], em[1].bytes)
        /\ em[1].framing => at[0] + 1 .. at[1] \subseteq framed
        /\ at[2] = at[1] + Len(em[2].bytes) /\ Holds(at[1], em[2].bytes)
    <2>1. 1 \in 1 .. 2 /\ 2 \in 1 .. 2 /\ 0 \in 0 .. 2 /\ 1 - 1 = 0 /\ 2 - 1 = 1
      OBVIOUS
    <2> QED
      BY <1>3, <2>1 DEF Laid
  <1>5. at[1] = at[0] + DescriptorWidth /\ at[2] = at[0] + DescriptorWidth + Len(raw)
    BY <1>2, <1>4
  <1> QED
    BY <1>2, <1>4, <1>5 DEF em, word

Streamed == framing.how \in {"unframed", "terminator", "optional", "separator"}

(* Where the bytes of record i begin, if its framing begins at base.         *)
StartOf(i, base) ==
    IF framing.how = "separator" /\ i # 1 THEN base + Len(framing.delimiter) ELSE base

Trails == framing.how \in {"terminator", "optional"}

(* ... with a delimiter behind it or in front of it, or with none,           *)
LEMMA StreamShape ==
    ASSUME framing \in Framings, Streamed, NEW raw \in Seq(Byte), NEW i, NEW at,
           Whole(EmissionOf(i, raw), at)
    PROVE  LET start == StartOf(i, at[0])
               stop  == start + Len(raw)
           IN  /\ at[0] \in Nat /\ start \in Nat /\ stop <= Len(disk)
               /\ framing.how = "separator" /\ i # 1 => Holds(at[0], framing.delimiter)
               /\ Holds(start, raw)
               /\ Trails => Holds(stop, framing.delimiter)
               /\ at[Len(EmissionOf(i, raw))] = IF Trails THEN stop + Len(framing.delimiter) ELSE stop
               /\ at[Len(EmissionOf(i, raw))] <= Len(disk)
  <1> DEFINE em == EmissionOf(i, raw)
             del == framing.delimiter
  <1>1. del \in Seq(Byte) /\ Len(del) \in Nat
    BY FileTypes
  <1>2. CASE framing.how = "unframed" \/ (framing.how = "separator" /\ i = 1)
    <2>1. em = <<Data(raw)>>
      BY <1>2 DEF EmissionOf
    <2>2. Len(em) = 1 /\ em[1].bytes = raw
      BY <2>1 DEF Data
    <2> HIDE DEF em
    <2>3. Laid(em, at, 1)
      BY <2>2 DEF Whole, em
    <2>4. at[0] \in Nat /\ at[1] <= Len(disk) /\ at[1] = at[0] + Len(em[1].bytes) /\ Holds(at[0], em[1].bytes)
      <3>1. 1 \in 1 .. 1 /\ 0 \in 0 .. 1 /\ 1 - 1 = 0
        OBVIOUS
      <3> QED
        BY <2>3, <3>1 DEF Laid
    <2>5. StartOf(i, at[0]) = at[0] /\ ~Trails
      BY <1>2 DEF StartOf, Trails
    <2> QED
      BY <1>2, <2>2, <2>4, <2>5 DEF em
  <1>3. CASE framing.how = "separator" /\ i # 1
    <2>1. em = <<Frame(del), Data(raw)>>
      BY <1>3 DEF EmissionOf
    <2>2. Len(em) = 2 /\ em[1].bytes = del /\ em[2].bytes = raw
      BY <2>1 DEF Data, Frame
    <2> HIDE DEF em, del
    <2>3. Laid(em, at, 2)
      BY <2>2 DEF Whole, em
    <2>4. /\ at[0] \in Nat /\ at[2] <= Len(disk)
          /\ at[1] = at[0] + Len(em[1].bytes) /\ Holds(at[0], em[1].bytes)
          /\ at[2] = at[1] + Len(em[2].bytes) /\ Holds(at[1], em[2].bytes)
      <3>1. 1 \in 1 .. 2 /\ 2 \in 1 .. 2 /\ 0 \in 0 .. 2 /\ 1 - 1 = 0 /\ 2 - 1 = 1
        OBVIOUS
      <3> QED
        BY <2>3, <3>1 DEF Laid
    <2>5. StartOf(i, at[0]) = at[0] + Len(del) /\ ~Trails
      BY <1>3 DEF StartOf, Trails, del
    <2>6. StartOf(i, at[0]) \in Nat
      BY <1>1, <2>4, <2>5
    <2>7. /\ at[2] = StartOf(i, at[0]) + Len(raw)
          /\ Holds(at[0], del) /\ Holds(StartOf(i, at[0]), raw)
      BY <2>2, <2>4, <2>5
    <2> QED
      BY <2>2, <2>4, <2>5, <2>6, <2>7 DEF em, del
  <1>4. CASE Trails
    <2>1. em = <<Data(raw), Frame(del)>>
      BY <1>4 DEF EmissionOf, Trails
    <2>2. Len(em) = 2 /\ em[1].bytes = raw /\ em[2].bytes = del
      BY <2>1 DEF Data, Frame
    <2> HIDE DEF em, del
    <2>3. Laid(em, at, 2)
      BY <2>2 DEF Whole, em
    <2>4. /\ at[0] \in Nat /\ at[1] \in Nat /\ at[1] <= at[2] /\ at[2] <= Len(disk)
          /\ at[1] = at[0] + Len(em[1].bytes) /\ Holds(at[0], em[1].bytes)
          /\ at[2] = at[1] + Len(em[2].bytes) /\ Holds(at[1], em[2].bytes)
      <3>1. 1 \in 1 .. 2 /\ 2 \in 1 .. 2 /\ 0 \in 0 .. 2 /\ 1 \in 0 .. 2 /\ 1 - 1 = 0 /\ 2 - 1 = 1
        OBVIOUS
      <3> QED
        BY <2>3, <3>1 DEF Laid
    <2>5. StartOf(i, at[0]) = at[0]
      BY <1>4 DEF StartOf, Trails
    <2>6. at[1] = StartOf(i, at[0]) + Len(raw)
      BY <2>2, <2>4, <2>5
    <2>7. at[1] <= Len(disk)
      <3>1. at[2] \in Nat /\ Len(raw) \in Nat
        BY <1>1, <2>2, <2>4
      <3> QED
        BY <2>4, <3>1
    <2> QED
      BY <1>4, <2>2, <2>4, <2>5, <2>6, <2>7 DEF em, del, Trails
  <1> QED
    BY <1>2, <1>3, <1>4 DEF Streamed, Trails

(* ... and in segments.                                                      *)
LEMMA SegmentShape ==
    ASSUME framing \in Framings, framing.how = "segmented",
           NEW raw \in Seq(Byte), Len(raw) >= 1, NEW i, NEW at,
           Whole(EmissionOf(i, raw), at)
    PROVE  LET n == Len(Pieces(raw))
           IN  /\ n \in Nat \ {0}
               /\ Len(EmissionOf(i, raw)) = 2 * n
               /\ \A j \in 1 .. n :
                     LET word == Word(Len(Pieces(raw)[j]) + DescriptorWidth, Code(j, n))
                         here == at[2 * (j - 1)]
                     IN  /\ here \in Nat
                         /\ at[2 * j] = here + DescriptorWidth + Len(Pieces(raw)[j])
                         /\ at[2 * j] <= Len(disk)
                         /\ Holds(here, word)
                         /\ here + 1 .. here + DescriptorWidth \subseteq framed
                         /\ Holds(here + DescriptorWidth, Pieces(raw)[j])
  <1> DEFINE n == Len(Pieces(raw))
             em == EmissionOf(i, raw)
             word(j) == Word(Len(Pieces(raw)[j]) + DescriptorWidth, Code(j, n))
             c(k) == LET j == (k + 1) \div 2
                     IN  IF k % 2 = 1 THEN Frame(word(j)) ELSE Data(Pieces(raw)[j])
  <1>1. n \in Nat \ {0} /\ \A j \in 1 .. n : Pieces(raw)[j] \in Seq(Byte)
    BY PiecesCover
  <1>2. em = [k \in 1 .. 2 * n |-> c(k)]
    BY DEF EmissionOf, Segmented
  <1>3. \A j \in 1 .. n : Len(word(j)) = DescriptorWidth
    BY DEF Word, DescriptorWidth
  <1> HIDE DEF n, em, word
  <1>4. Len(em) = 2 * n
    <2>1. 2 * n \in Nat
      BY <1>1
    <2> HIDE DEF c
    <2> QED
      BY <1>2, <2>1
  <1>5. Laid(em, at, 2 * n)
    BY <1>4 DEF Whole, em
  <1>6. ASSUME NEW j \in 1 .. n
        PROVE  /\ at[2 * (j - 1)] \in Nat
               /\ at[2 * j] = at[2 * (j - 1)] + DescriptorWidth + Len(Pieces(raw)[j])
               /\ at[2 * j] <= Len(disk)
               /\ Holds(at[2 * (j - 1)], word(j))
               /\ at[2 * (j - 1)] + 1 .. at[2 * (j - 1)] + DescriptorWidth \subseteq framed
               /\ Holds(at[2 * (j - 1)] + DescriptorWidth, Pieces(raw)[j])
    <2> DEFINE a == 2 * j - 1
               b == 2 * j
               z == 2 * (j - 1)
    <2>1. j \in Nat \ {0}
      BY <1>1
    <2>2. em[a] = Frame(word(j)) /\ em[b] = Data(Pieces(raw)[j])
      <3>1. a \in 1 .. 2 * n /\ b \in 1 .. 2 * n
        BY <1>1
      <3>2. (a + 1) \div 2 = j /\ a % 2 = 1 /\ (b + 1) \div 2 = j /\ b % 2 = 0
        BY <2>1, Doubles
      <3>3. em[a] = c(a) /\ em[b] = c(b)
        <4> HIDE DEF c, a, b
        <4> QED
          BY <1>2, <3>1
      <3> HIDE DEF a, b
      <3> QED
        BY <3>2, <3>3
    <2>3. em[a].bytes = word(j) /\ em[a].framing = TRUE /\ em[b].bytes = Pieces(raw)[j]
      BY <2>2 DEF Frame, Data
    <2>4. /\ a \in 1 .. 2 * n /\ b \in 1 .. 2 * n /\ a - 1 = z /\ b - 1 = a
          /\ z \in 0 .. 2 * n /\ b \in 0 .. 2 * n
      BY <1>1
    <2> HIDE DEF a, b, z
    <2>5. /\ at[z] \in Nat /\ at[b] \in Nat /\ at[b] <= at[2 * n] /\ at[2 * n] <= Len(disk) /\ at[2 * n] \in Nat
          /\ at[a] = at[z] + Len(em[a].bytes) /\ Holds(at[z], em[a].bytes)
          /\ em[a].framing => at[z] + 1 .. at[a] \subseteq framed
          /\ at[b] = at[a] + Len(em[b].bytes) /\ Holds(at[a], em[b].bytes)
      <3>1. 2 * n \in 0 .. 2 * n
        BY <1>1
      <3> QED
        BY <1>5, <2>4, <3>1 DEF Laid
    <2>6. at[a] = at[z] + DescriptorWidth
      BY <1>3, <2>3, <2>5
    <2>7. at[b] <= Len(disk)
      BY <2>5
    <2>8. at[b] = at[z] + DescriptorWidth + Len(Pieces(raw)[j])
      BY <2>3, <2>5, <2>6
    <2>9. /\ at[z] \in Nat
          /\ at[b] = at[z] + DescriptorWidth + Len(Pieces(raw)[j])
          /\ at[b] <= Len(disk)
          /\ Holds(at[z], word(j))
          /\ at[z] + 1 .. at[z] + DescriptorWidth \subseteq framed
          /\ Holds(at[z] + DescriptorWidth, Pieces(raw)[j])
      BY <2>3, <2>5, <2>6, <2>7, <2>8
    <2> QED
      BY <2>9 DEF b, z
  <1>7. /\ n \in Nat \ {0}
        /\ Len(em) = 2 * n
        /\ \A j \in 1 .. n :
               /\ at[2 * (j - 1)] \in Nat
               /\ at[2 * j] = at[2 * (j - 1)] + DescriptorWidth + Len(Pieces(raw)[j])
               /\ at[2 * j] <= Len(disk)
               /\ Holds(at[2 * (j - 1)], word(j))
               /\ at[2 * (j - 1)] + 1 .. at[2 * (j - 1)] + DescriptorWidth \subseteq framed
               /\ Holds(at[2 * (j - 1)] + DescriptorWidth, Pieces(raw)[j])
    BY <1>1, <1>4, <1>6
  <1> QED
    BY <1>7 DEF n, em, word

-----------------------------------------------------------------------------
(* What the reader makes of bytes that are where they were put.              *)

(* What is ahead is what the file holds, as far as it goes.                  *)
LEMMA AheadIs ==
    ASSUME disk \in Seq(Byte), pos \in 0 .. Len(disk), NEW n \in Nat
    PROVE  LET m == IF n < Left THEN n ELSE Left
           IN  /\ Left \in Nat /\ m \in Nat
               /\ Ahead(n) \in Seq(Byte)
               /\ Len(Ahead(n)) = m
               /\ \A p \in 1 .. m : Ahead(n)[p] = disk[pos + p]
  <1> DEFINE m == IF n < Left THEN n ELSE Left
  <1>1. Left \in Nat /\ m \in Nat /\ pos \in Nat /\ pos + m <= Len(disk) /\ Len(disk) \in Nat
    BY DEF Left
  <1>2. Ahead(n) = SubSeq(disk, pos + 1, pos + m)
    BY DEF Ahead
  <1> HIDE DEF m
  <1>3. \A p \in pos + 1 .. pos + m : disk[p] \in Byte
    BY <1>1
  <1>4. /\ Ahead(n) \in Seq(Byte)
        /\ Len(Ahead(n)) = m
        /\ \A p \in 1 .. m : Ahead(n)[p] = disk[pos + p]
    <2> DEFINE lo == pos + 1
               hi == pos + m
    <2>1. /\ lo \in Int /\ hi \in Int /\ \A p \in lo .. hi : disk[p] \in Byte
          /\ hi - lo + 1 = m /\ (~ (lo <= hi) => m = 0)
          /\ \A p \in 1 .. m : lo + p - 1 = pos + p
      BY <1>1, <1>3
    <2>2. Ahead(n) = SubSeq(disk, lo, hi)
      BY <1>2
    <2> HIDE DEF lo, hi
    <2>3. /\ SubSeq(disk, lo, hi) \in Seq(Byte)
          /\ Len(SubSeq(disk, lo, hi)) = IF lo <= hi THEN hi - lo + 1 ELSE 0
          /\ \A p \in 1 .. hi - lo + 1 : SubSeq(disk, lo, hi)[p] = disk[lo + p - 1]
      BY <2>1, SubSeqProperties
    <2> QED
      BY <2>1, <2>2, <2>3
  <1> QED
    BY <1>1, <1>4 DEF m

(* A sequence of as many bytes that are all there is what is ahead.          *)
LEMMA AheadHolds ==
    ASSUME disk \in Seq(Byte), pos \in 0 .. Len(disk), NEW s \in Seq(Byte),
           pos + Len(s) <= Len(disk), Holds(pos, s), damaged \notin pos + 1 .. pos + Len(s)
    PROVE  Ahead(Len(s)) = s
  <1>1. pos \in Nat /\ Len(s) \in Nat /\ Len(disk) \in Nat
    OBVIOUS
  <1>2. /\ Ahead(Len(s)) \in Seq(Byte) /\ Len(Ahead(Len(s))) = Len(s)
        /\ \A p \in 1 .. Len(s) : Ahead(Len(s))[p] = disk[pos + p]
    <2>1. Left = Len(disk) - pos /\ Len(s) <= Left /\ Left \in Nat
      BY <1>1 DEF Left
    <2>2. (IF Len(s) < Left THEN Len(s) ELSE Left) = Len(s)
      BY <1>1, <2>1
    <2> QED
      BY <1>1, <2>2, AheadIs
  <1>3. \A p \in 1 .. Len(s) : disk[pos + p] = s[p]
    <2> SUFFICES ASSUME NEW p \in 1 .. Len(s) PROVE disk[pos + p] = s[p]
      OBVIOUS
    <2>1. pos + p \in pos + 1 .. pos + Len(s)
      BY <1>1
    <2> QED
      BY <2>1 DEF Holds
  <1>4. \A p \in 1 .. Len(Ahead(Len(s))) : Ahead(Len(s))[p] = s[p]
    BY <1>2, <1>3
  <1> DEFINE t == Ahead(Len(s))
  <1>5. t \in Seq(Byte) /\ Len(t) = Len(s) /\ \A p \in 1 .. Len(t) : t[p] = s[p]
    BY <1>2, <1>4
  <1> HIDE DEF t
  <1>6. t = s
    BY <1>5, SeqEqual
  <1> QED
    BY <1>6 DEF t

(* A word that was put and left as it is.                                    *)
LEMMA WordRead ==
    ASSUME disk \in Seq(Byte), pos \in 0 .. Len(disk),
           NEW n \in Nat, NEW code \in Byte,
           DescriptorWidth <= n, n <= MaxStated, pos + n <= Len(disk),
           Holds(pos, Word(n, code)), damaged \notin pos + 1 .. pos + DescriptorWidth
    PROVE  /\ Stated(Ahead(DescriptorWidth)) = n
           /\ Ahead(DescriptorWidth)[3] = code
           /\ Left >= n /\ GoodWord
           /\ ~ (Left < DescriptorWidth)
  <1>1. /\ Word(n, code) \in Seq(Byte) /\ Len(Word(n, code)) = DescriptorWidth
        /\ Word(n, code)[3] = code /\ Stated(Word(n, code)) = n
    BY WordStates
  <1> DEFINE w == Word(n, code)
  <1> HIDE DEF w
  <1>2. Len(w) = DescriptorWidth /\ w \in Seq(Byte) /\ Holds(pos, w) /\ w[3] = code /\ Stated(w) = n
    BY <1>1 DEF w
  <1>3. pos + Len(w) <= Len(disk)
    BY <1>2 DEF DescriptorWidth
  <1>4. Ahead(DescriptorWidth) = w
    <2>1. Ahead(Len(w)) = w
      BY <1>2, <1>3, AheadHolds
    <2> QED
      BY <1>2, <2>1
  <1>5. Left \in Nat /\ Left >= n
    BY DEF Left
  <1>6. GoodWord /\ ~ (Left < DescriptorWidth)
    BY <1>2, <1>4, <1>5 DEF GoodWord, DescriptorWidth
  <1> QED
    BY <1>2, <1>4, <1>5, <1>6

(* A word is good or bad.                                                    *)
LEMMA NotBad ==
    ASSUME GoodWord, Left \in Nat
    PROVE  ~ BadWord
  BY DEF GoodWord, BadWord, DescriptorWidth

-----------------------------------------------------------------------------
(* The type invariant.                                                       *)

(* What every file and its writer and reader look like.                      *)
FileTyped ==
    /\ layout \in Layouts /\ framing \in Framings
    /\ disk \in Seq(Byte) /\ damaged \in Nat
    /\ ended \in {"open", "closed", "abandoned"}
    /\ ended = "open" => damaged = 0 /\ ReaderInit
    /\ ended = "closed" => chunks = <<>> /\ wstate \in layout.accepting

Held == [record : RecordType, raw : Seq(Byte), to : Nat]
Sent == [record : RecordType, raw : Seq(Byte)]

WriterTyped ==
    /\ first \in BOOLEAN
    /\ chunks \in Seq(Chunk)
    /\ chunks # <<>> => hand \in Held
    /\ sent \in Seq(Sent) /\ ends \in Seq(Nat) /\ Len(ends) = Len(sent)
    /\ failures \in Nat /\ intact \in 0 .. Len(sent)
    /\ failures = 0 => intact = Len(sent)
    /\ chunks # <<>> \/ disk # <<>> => DOMAIN layout.transitions # {}

Got == [record : RecordType, raw : Seq(Byte), at : Nat]
Taken == [record : RecordType \cup {"none"}, to : Nat, raw : Seq(Byte), at : Nat]
Phase == {"boundary", "leading", "selecting", "admitting", "trailing", "over"}

ReaderTyped ==
    /\ pos \in 0 .. Len(disk)
    /\ phase \in Phase
    /\ rcount \in Int /\ rfirst \in BOOLEAN
    /\ look \in Seq(Byte) /\ data \in Seq(Byte)
    /\ got \in Seq(Got) /\ taken \in Taken
    /\ phase \notin {"boundary", "over"} => disk # <<>>
    /\ phase \in {"admitting", "trailing"} => taken.record \in RecordType
    /\ phase = "admitting" => Sized(taken.record)
    /\ phase = "trailing" => Decodes(taken.record, taken.raw)

Typed == FileTyped /\ WriterTyped /\ ReaderTyped

(* The three parts of the type invariant hold at the start, ...              *)
LEMMA TypedInit == FramedInit => Typed
  <1> SUFFICES ASSUME FramedInit PROVE Typed
    OBVIOUS
  <1> USE DEF FramedInit, FileInit, WriterInit, ReaderInit
  <1>1. FileTyped
    BY DEF FileTyped
  <1>2. WriterTyped
    BY DEF WriterTyped
  <1>3. ReaderTyped
    <2>1. NothingTaken \in Taken
      BY DEF NothingTaken, Taken
    <2>2. -1 \in Int
      OBVIOUS
    <2> QED
      BY <2>1, <2>2 DEF ReaderTyped, Phase, Unbound
  <1> QED
    BY <1>1, <1>2, <1>3 DEF Typed

(* What a write leaves of the file.                                          *)
LEMMA PutTyped ==
    ASSUME disk \in Seq(Byte), NEW chunk \in Chunk, NEW n \in 0 .. Len(chunk.bytes), Put(chunk, n)
    PROVE  /\ disk' \in Seq(Byte) /\ Len(disk') = Len(disk) + n
           /\ \A p \in 1 .. Len(disk) : disk'[p] = disk[p]
           /\ \A p \in 1 .. n : disk'[Len(disk) + p] = chunk.bytes[p]
           /\ framed \subseteq framed'
           /\ chunk.framing => Len(disk) + 1 .. Len(disk) + n \subseteq framed'
  <1> DEFINE b == chunk.bytes
             s == SubSeq(b, 1, n)
  <1>1. b \in Seq(Byte) /\ Len(b) \in Nat /\ n \in Nat /\ n <= Len(b) /\ Len(disk) \in Nat
    BY DEF Chunk
  <1>2. s \in Seq(Byte) /\ Len(s) = n /\ \A p \in 1 .. n : s[p] = b[p]
    <2> HIDE DEF b
    <2>1. 1 \in Int /\ n \in Int /\ \A p \in 1 .. n : b[p] \in Byte
      BY <1>1
    <2>2. /\ SubSeq(b, 1, n) \in Seq(Byte)
          /\ Len(SubSeq(b, 1, n)) = IF 1 <= n THEN n - 1 + 1 ELSE 0
          /\ \A p \in 1 .. n - 1 + 1 : SubSeq(b, 1, n)[p] = b[1 + p - 1]
      BY <2>1, SubSeqProperties
    <2> QED
      BY <1>1, <2>2
  <1>3. disk' = disk \o s /\ framed' = framed \cup IF chunk.framing THEN Len(disk) + 1 .. Len(disk) + n ELSE {}
    BY DEF Put
  <1> HIDE DEF s
  <1>4. /\ disk' \in Seq(Byte) /\ Len(disk') = Len(disk) + n
        /\ \A p \in 1 .. Len(disk) : disk'[p] = disk[p]
        /\ \A p \in 1 .. n : disk'[Len(disk) + p] = s[p]
    <2>1. /\ disk \o s \in Seq(Byte) /\ Len(disk \o s) = Len(disk) + Len(s)
          /\ \A i \in 1 .. Len(disk) + Len(s) :
                (disk \o s)[i] = IF i <= Len(disk) THEN disk[i] ELSE s[i - Len(disk)]
      BY <1>2, ConcatProperties
    <2> DEFINE t == disk \o s
               l == Len(disk)
    <2>2. t = disk' /\ t \in Seq(Byte) /\ Len(t) = l + n /\ l \in Nat
      BY <1>1, <1>2, <1>3, <2>1
    <2>3. \A i \in 1 .. l + n : t[i] = IF i <= l THEN disk[i] ELSE s[i - l]
      BY <1>2, <2>1
    <2> HIDE DEF t, l
    <2>4. \A p \in 1 .. l : t[p] = disk[p]
      BY <1>1, <2>2, <2>3
    <2>5. ASSUME NEW p \in 1 .. n PROVE t[l + p] = s[p]
      <3> DEFINE q == l + p
      <3>1. q \in 1 .. l + n /\ ~ (q <= l) /\ q - l = p
        BY <1>1, <2>2
      <3> HIDE DEF q
      <3>2. t[q] = s[p]
        BY <2>3, <3>1
      <3> QED
        BY <3>2 DEF q
    <2> QED
      BY <2>2, <2>4, <2>5 DEF l
  <1>5. \A p \in 1 .. n : disk'[Len(disk) + p] = b[p]
    BY <1>2, <1>4
  <1> QED
    BY <1>3, <1>4, <1>5

(* The first of the writes that are left, and the others.                    *)
LEMMA HeadAndTail ==
    ASSUME chunks \in Seq(Chunk), chunks # <<>>
    PROVE  /\ Head(chunks) \in Chunk /\ Tail(chunks) \in Seq(Chunk)
           /\ Len(chunks) \in Nat \ {0} /\ (Len(chunks) = 1 <=> Tail(chunks) = <<>>)
           /\ Len(Head(chunks).bytes) \in Nat
  <1>1. Head(chunks) \in Chunk /\ Tail(chunks) \in Seq(Chunk) /\ Len(Tail(chunks)) = Len(chunks) - 1 /\ Len(chunks) \in Nat
    BY HeadTailProperties
  <1>2. Len(Head(chunks).bytes) \in Nat
    BY <1>1 DEF Chunk
  <1>3. Len(chunks) # 0
    OBVIOUS
  <1>4. Len(chunks) = 1 <=> Tail(chunks) = <<>>
    <2> DEFINE t == Tail(chunks)
    <2>1. t \in Seq(Chunk) /\ Len(t) = Len(chunks) - 1 /\ Len(chunks) \in Nat
      BY <1>1
    <2> HIDE DEF t
    <2>2. Len(t) = 0 <=> t = <<>>
      BY <2>1, EmptySeq
    <2>3. Len(chunks) = 1 <=> t = <<>>
      BY <2>1, <2>2
    <2> QED
      BY <2>3 DEF t
  <1> QED
    BY <1>1, <1>2, <1>3, <1>4

(* A write that Write lets through.                                          *)
LEMMA WriteTakes ==
    ASSUME Write, Typed
    PROVE  /\ Takes(wstate, wcount, hand'.record, hand'.raw, hand'.to)
           /\ chunks' = Emission(hand'.raw)
           /\ hand' \in Held /\ Len(hand'.raw) >= 1
           /\ chunks' \in Seq(Chunk) /\ chunks' # <<>>
  <1>1. PICK i \in Leaving(layout, wstate) : \E raw \in Values[layout.transitions[i].record] :
          LET t == layout.transitions[i]
          IN  /\ CountAgrees(t.record, raw) /\ Matches(t.record, raw) /\ Statable(raw)
              /\ hand' = [record |-> t.record, raw |-> raw, to |-> t.to]
              /\ chunks' = Emission(raw)
    BY DEF Write
  <1> DEFINE t == layout.transitions[i]
  <1>2. PICK raw \in Values[t.record] :
          /\ CountAgrees(t.record, raw) /\ Matches(t.record, raw) /\ Statable(raw)
          /\ hand' = [record |-> t.record, raw |-> raw, to |-> t.to]
          /\ chunks' = Emission(raw)
    BY <1>1
  <1>3. hand'.record = t.record /\ hand'.raw = raw /\ hand'.to = t.to
    BY <1>2
  <1>4. Takes(wstate, wcount, t.record, raw, t.to)
    BY <1>2 DEF Takes, CountAgrees, Fits
  <1>5. layout \in Layouts /\ framing \in Framings
    BY DEF Typed, FileTyped
  <1>6. t.record \in RecordType /\ raw \in Seq(Byte) /\ t.to \in Nat /\ Len(raw) >= 1
    BY <1>4, <1>5, TakenRecord
  <1>7. hand' \in Held
    BY <1>2, <1>6 DEF Held
  <1>8. EmissionOf(IF first THEN 1 ELSE 2, raw) = Emission(raw)
    BY DEF Emission, EmissionOf
  <1>9. Emission(raw) \in Seq(Chunk) /\ Emission(raw) # <<>>
    BY <1>5, <1>6, <1>8, EmissionTyped
  <1> QED
    BY <1>2, <1>3, <1>4, <1>6, <1>7, <1>9

(* ... every step of the writer keeps them, ...                              *)
LEMMA TypedWriting ==
    ASSUME Typed, Writing
    PROVE  Typed'
  <1> USE DEF Typed
  <1>1. UNCHANGED <<reader, damaged>>
    BY DEF Writing
  <1>2. ended = "open" /\ damaged = 0 /\ ReaderInit
    BY DEF Writing, Write, PutChunk, PutFails, Close, Abandon, FileTyped
  <1>3. UNCHANGED config
    BY DEF Writing, Write, PutChunk, PutFails, Close, Abandon
  <1>4. ReaderInit'
    BY <1>1, <1>2, <1>3 DEF ReaderInit, reader, config
  <1>5. disk' \in Seq(Byte) /\ pos' \in 0 .. Len(disk')
    <2>1. CASE UNCHANGED disk
      BY <1>1, <2>1 DEF FileTyped, ReaderTyped, reader
    <2>2. CASE chunks # <<>> /\ \E n \in 0 .. Len(Head(chunks).bytes) : Put(Head(chunks), n)
      <3>1. PICK n \in 0 .. Len(Head(chunks).bytes) : Put(Head(chunks), n)
        BY <2>2
      <3>2. Head(chunks) \in Chunk /\ Len(Head(chunks).bytes) \in Nat
        BY <2>2, HeadAndTail DEF WriterTyped
      <3>3. disk' \in Seq(Byte) /\ Len(disk') = Len(disk) + n
        BY <3>1, <3>2, PutTyped DEF FileTyped
      <3>4. Len(disk) \in Nat /\ n \in Nat /\ pos' = pos /\ pos \in 0 .. Len(disk)
        BY <1>1, <3>2 DEF FileTyped, ReaderTyped, reader
      <3> QED
        BY <3>3, <3>4
    <2>3. CASE PutChunk
      <3>1. chunks # <<>> /\ Put(Head(chunks), Len(Head(chunks).bytes))
        BY <2>3 DEF PutChunk
      <3>2. Len(Head(chunks).bytes) \in Nat
        BY <3>1, HeadAndTail DEF WriterTyped
      <3>3. Len(Head(chunks).bytes) \in 0 .. Len(Head(chunks).bytes)
        BY <3>2
      <3> QED
        BY <2>2, <3>1, <3>3
    <2>4. CASE PutFails
      BY <2>2, <2>4 DEF PutFails
    <2> QED
      BY <2>1, <2>3, <2>4 DEF Writing, Write, Close, Abandon
  <1>6. WriterTyped'
    <2>1. CASE Write
      <3>1. hand' \in Held /\ chunks' \in Seq(Chunk)
        BY <2>1, WriteTakes
      <3>2. first' = FALSE /\ UNCHANGED <<layout, sent, ends, failures, intact>>
        BY <2>1 DEF Write, config
      <3>3. DOMAIN layout.transitions # {}
        BY <2>1 DEF Write, Leaving
      <3> QED
        BY <3>1, <3>2, <3>3 DEF WriterTyped
    <2>2. CASE PutChunk
      <3>1. chunks # <<>> /\ chunks' = Tail(chunks) /\ UNCHANGED <<layout, first, hand, failures>>
        BY <2>2 DEF PutChunk, config
      <3>2. Tail(chunks) \in Seq(Chunk) /\ hand \in Held
        BY <3>1, HeadAndTail DEF WriterTyped
      <3>3. CASE Len(chunks) = 1
        <4>1. /\ sent' = Append(sent, [record |-> hand.record, raw |-> hand.raw])
              /\ ends' = Append(ends, Len(disk'))
              /\ intact' = IF failures = 0 THEN intact + 1 ELSE intact
          BY <2>2, <3>3 DEF PutChunk
        <4>2. [record |-> hand.record, raw |-> hand.raw] \in Sent /\ Len(disk') \in Nat
          BY <1>5, <3>2 DEF Held, Sent
        <4>3. /\ sent' \in Seq(Sent) /\ Len(sent') = Len(sent) + 1
              /\ ends' \in Seq(Nat) /\ Len(ends') = Len(ends) + 1
              /\ Len(sent) \in Nat
          BY <4>1, <4>2, AppendProperties DEF WriterTyped
        <4> QED
          BY <3>1, <3>2, <4>1, <4>3 DEF WriterTyped
      <3>4. CASE Len(chunks) # 1
        <4>1. UNCHANGED <<sent, ends, intact>>
          BY <2>2, <3>4 DEF PutChunk
        <4> QED
          BY <3>1, <3>2, <4>1 DEF WriterTyped
      <3> QED
        BY <3>3, <3>4
    <2>3. CASE PutFails
      BY <2>3 DEF PutFails, WriterTyped, config
    <2>4. CASE Close \/ Abandon
      BY <2>4 DEF Close, Abandon, WriterTyped, writer, config
    <2> QED
      BY <2>1, <2>2, <2>3, <2>4 DEF Writing
  <1>7. FileTyped'
    <2>1. ended' \in {"open", "closed", "abandoned"}
      BY DEF Writing, Write, PutChunk, PutFails, Close, Abandon, FileTyped
    <2>2. ended' = "closed" => chunks' = <<>> /\ wstate' \in layout'.accepting
      BY <1>2, <1>3 DEF Writing, Write, PutChunk, PutFails, Close, Abandon, config, writer
    <2> QED
      BY <1>1, <1>2, <1>3, <1>4, <1>5, <2>1, <2>2 DEF FileTyped, config
  <1>8. ReaderTyped'
    <2>1. NothingTaken \in Taken
      BY DEF NothingTaken, Taken
    <2>2. -1 \in Int
      OBVIOUS
    <2> QED
      BY <1>4, <1>5, <2>1, <2>2 DEF ReaderTyped, ReaderInit, Phase, Unbound
  <1> QED
    BY <1>6, <1>7, <1>8

(* ... so does damage, ...                                                   *)
LEMMA TypedDamage ==
    ASSUME Typed, Damage
    PROVE  Typed' /\ Len(disk') = Len(disk)
  <1> USE DEF Typed
  <1>1. PICK i \in DOMAIN disk : \E b \in Damages \ {disk[i]} :
          disk' = [disk EXCEPT ![i] = b] /\ damaged' = i
    BY DEF Damage
  <1>2. PICK b \in Damages : disk' = [disk EXCEPT ![i] = b]
    BY <1>1
  <1>3. disk \in Seq(Byte) /\ b \in Byte
    BY DamagesAreBytes DEF FileTyped
  <1>4. disk' \in Seq(Byte) /\ Len(disk') = Len(disk)
    BY <1>2, <1>3
  <1>5. damaged' \in Nat
    BY <1>1, <1>3
  <1>6. ended = "closed" /\ UNCHANGED <<config, ended, writer, reader>>
    BY DEF Damage
  <1>7. FileTyped'
    BY <1>4, <1>5, <1>6 DEF FileTyped, config, writer
  <1>8. WriterTyped'
    <2>1. disk' # <<>> => disk # <<>>
      BY <1>3, <1>4
    <2> QED
      BY <1>6, <2>1 DEF WriterTyped, writer, config
  <1>9. ReaderTyped'
    <2>1. disk' # <<>> <=> disk # <<>>
      BY <1>3, <1>4
    <2> QED
      BY <1>4, <1>6, <2>1 DEF ReaderTyped, reader, Sized
  <1> QED
    BY <1>4, <1>7, <1>8, <1>9

(* A read that ends.                                                         *)
LEMMA EndsTyped ==
    ASSUME ReaderTyped, UNCHANGED disk, NEW what, Ends(what)
    PROVE  ReaderTyped'
  BY DEF ReaderTyped, Ends, Phase, Sized

(* What a word that is good adds to the record.                              *)
LEMMA FilledIs ==
    ASSUME Typed, GoodWord
    PROVE  LET stated == Stated(Ahead(DescriptorWidth))
           IN  /\ stated \in Nat /\ stated >= DescriptorWidth /\ pos + stated \in 0 .. Len(disk)
               /\ Filled \in Seq(Byte)
               /\ Len(Filled) = Len(data) + (stated - DescriptorWidth)
               /\ \A p \in 1 .. Len(data) : Filled[p] = data[p]
               /\ \A p \in 1 .. stated - DescriptorWidth :
                     Filled[Len(data) + p] = disk[pos + DescriptorWidth + p]
  <1> DEFINE stated == Stated(Ahead(DescriptorWidth))
             lo == pos + DescriptorWidth + 1
             hi == pos + stated
             s == SubSeq(disk, lo, hi)
             z == stated - DescriptorWidth
  <1>1. disk \in Seq(Byte) /\ pos \in 0 .. Len(disk) /\ data \in Seq(Byte) /\ Len(disk) \in Nat /\ pos \in Nat
    BY DEF Typed, FileTyped, ReaderTyped
  <1>2. stated \in DescriptorWidth .. Left /\ Filled = data \o s
    BY DEF GoodWord, Filled
  <1> HIDE DEF stated, s
  <1>3. /\ stated \in Nat /\ stated >= DescriptorWidth /\ hi \in 0 .. Len(disk)
        /\ lo \in Int /\ hi \in Int /\ z \in Nat
        /\ \A p \in lo .. hi : disk[p] \in Byte
        /\ hi - lo + 1 = z /\ (~ (lo <= hi) => z = 0)
        /\ \A p \in 1 .. z : lo + p - 1 = pos + DescriptorWidth + p
    BY <1>1, <1>2 DEF Left, DescriptorWidth
  <1> HIDE DEF lo, hi, z
  <1>4. /\ SubSeq(disk, lo, hi) \in Seq(Byte)
        /\ Len(SubSeq(disk, lo, hi)) = IF lo <= hi THEN hi - lo + 1 ELSE 0
        /\ \A p \in 1 .. hi - lo + 1 : SubSeq(disk, lo, hi)[p] = disk[lo + p - 1]
    BY <1>3, SubSeqProperties
  <1>5. s \in Seq(Byte) /\ Len(s) = z /\ \A p \in 1 .. z : s[p] = disk[pos + DescriptorWidth + p]
    BY <1>3, <1>4 DEF s
  <1>6. /\ data \o s \in Seq(Byte) /\ Len(data \o s) = Len(data) + Len(s)
        /\ \A i \in 1 .. Len(data) + Len(s) :
              (data \o s)[i] = IF i <= Len(data) THEN data[i] ELSE s[i - Len(data)]
    BY <1>1, <1>5, ConcatProperties
  <1> DEFINE t == Filled
             l == Len(data)
  <1>7. t \in Seq(Byte) /\ Len(t) = l + z /\ l \in Nat
    BY <1>1, <1>2, <1>5, <1>6
  <1>8. \A i \in 1 .. l + z : t[i] = IF i <= l THEN data[i] ELSE s[i - l]
    BY <1>2, <1>5, <1>6
  <1> HIDE DEF t, l
  <1>9. \A p \in 1 .. l : t[p] = data[p]
    BY <1>3, <1>7, <1>8
  <1>10. ASSUME NEW p \in 1 .. z PROVE t[l + p] = disk[pos + DescriptorWidth + p]
    <2> DEFINE q == l + p
    <2>1. q \in 1 .. l + z /\ ~ (q <= l) /\ q - l = p
      BY <1>3, <1>7
    <2> HIDE DEF q
    <2>2. t[q] = s[p]
      BY <1>8, <2>1
    <2> QED
      BY <1>5, <2>2 DEF q
  <1> QED
    BY <1>3, <1>7, <1>9, <1>10 DEF stated, hi, z, t, l

(* What is looked at where nothing states a length.                          *)
LEMMA WindowIs ==
    ASSUME Typed, disk # <<>>, NEW at \in 0 .. Len(disk), Window(at)
    PROVE  /\ look' \in Seq(Byte)
           /\ Lookahead(layout) \in Nat
           /\ \A q \in 1 .. Lookahead(layout) :
                 at + q <= Len(disk) => q <= Len(look') /\ look'[q] = disk[at + q]
  <1> DEFINE L == Lookahead(layout)
             lo == at + 1
             hi == IF at + L < Len(disk) THEN at + L ELSE Len(disk)
  <1>1. disk \in Seq(Byte) /\ layout \in Layouts /\ Len(disk) \in Nat /\ at \in Nat /\ at <= Len(disk) /\ Len(disk) > 0
    BY DEF Typed, FileTyped, ReaderTyped
  <1>2. DOMAIN layout.transitions # {}
    BY DEF Typed, WriterTyped
  <1>3. L \in Nat
    BY <1>1, <1>2, LookaheadReaches
  <1>4. look' = SubSeq(disk, lo, hi)
    BY DEF Window
  <1> HIDE DEF L
  <1>5. /\ lo \in Int /\ hi \in Int /\ \A p \in lo .. hi : disk[p] \in Byte
        /\ \A q \in 1 .. L : at + q <= Len(disk) => q \in 1 .. hi - lo + 1 /\ lo + q - 1 = at + q /\ lo <= hi /\ q <= hi - lo + 1
    BY <1>1, <1>3
  <1> HIDE DEF lo, hi
  <1>6. /\ SubSeq(disk, lo, hi) \in Seq(Byte)
        /\ Len(SubSeq(disk, lo, hi)) = IF lo <= hi THEN hi - lo + 1 ELSE 0
        /\ \A p \in 1 .. hi - lo + 1 : SubSeq(disk, lo, hi)[p] = disk[lo + p - 1]
    BY <1>5, SubSeqProperties
  <1>7. ASSUME NEW q \in 1 .. L, at + q <= Len(disk)
        PROVE  q <= Len(look') /\ look'[q] = disk[at + q]
    BY <1>4, <1>5, <1>6, <1>7
  <1> QED
    BY <1>3, <1>4, <1>6, <1>7 DEF L

(* An extent is a number of bytes.                                           *)
LEMMA WantedTyped ==
    ASSUME ReaderTyped, phase = "admitting"
    PROVE  Wanted \in Nat /\ Form[taken.record].fixed \in Nat
  <1>1. Form[taken.record] \in [at : Nat, tag : Byte, fixed : Nat, table : BOOLEAN,
                                least : Nat, most : Nat, counts : Nat]
    BY FileTypes DEF ReaderTyped
  <1>2. Form[taken.record].fixed \in Nat /\ Form[taken.record].least \in Nat /\ Form[taken.record].most \in Nat
    BY <1>1
  <1> QED
    BY <1>2 DEF ReaderTyped, Sized, Wanted, Extent

(* As much of a sequence as a record wants.                                  *)
LEMMA DrawnFrom ==
    ASSUME NEW s \in Seq(Byte), NEW n \in Nat, n <= Len(s)
    PROVE  /\ SubSeq(s, 1, n) \in Seq(Byte) /\ Len(SubSeq(s, 1, n)) = n
           /\ \A p \in 1 .. n : SubSeq(s, 1, n)[p] = s[p]
           /\ n = Len(s) => SubSeq(s, 1, n) = s
  <1>1. 1 \in Int /\ n \in Int /\ \A p \in 1 .. n : s[p] \in Byte
    OBVIOUS
  <1>2. /\ SubSeq(s, 1, n) \in Seq(Byte)
        /\ Len(SubSeq(s, 1, n)) = IF 1 <= n THEN n - 1 + 1 ELSE 0
        /\ \A p \in 1 .. n - 1 + 1 : SubSeq(s, 1, n)[p] = s[1 + p - 1]
    BY <1>1, SubSeqProperties
  <1>3. SubSeq(s, 1, Len(s)) = s
    BY SubSeqFull
  <1>4. n - 1 + 1 = n /\ (~ (1 <= n) => n = 0) /\ \A p \in 1 .. n : 1 + p - 1 = p
    OBVIOUS
  <1>5. \A p \in 1 .. n : SubSeq(s, 1, n)[p] = s[p]
    BY <1>2, <1>4
  <1> QED
    BY <1>2, <1>3, <1>4, <1>5, Zenon

(* ... and so does every step of the reader.                                 *)
LEMMA TypedReading ==
    ASSUME Typed, Reading
    PROVE  Typed'
  <1> USE DEF Typed
  <1>1. UNCHANGED <<config, disk, ended, writer, damaged>> /\ ended # "open"
    BY DEF Reading
  <1>2. FileTyped' /\ WriterTyped'
    BY <1>1 DEF FileTyped, WriterTyped, config, writer
  <1> SUFFICES ReaderTyped'
    BY <1>2
  <1>3. ASSUME NEW what, Ends(what) PROVE ReaderTyped'
    BY <1>1, <1>3, EndsTyped
  <1>4. disk \in Seq(Byte) /\ layout \in Layouts /\ framing \in Framings /\ Len(disk) \in Nat /\ pos \in 0 .. Len(disk)
    BY DEF FileTyped, ReaderTyped
  <1>5. layout' = layout /\ framing' = framing /\ disk' = disk
    BY <1>1 DEF config
  <1>6. framing.delimiter \in Seq(Byte) /\ Len(framing.delimiter) \in Nat
    BY <1>4, FileTypes
  <1>7. CASE EndOfInput \/ Undescribed
    BY <1>3, <1>7 DEF EndOfInput, Undescribed
  <1>8. CASE AtRecord
    <2>1. taken' = [NothingTaken EXCEPT !.at = pos] /\ pos \in Nat
      BY <1>4, <1>8 DEF AtRecord
    <2>2. taken' \in Taken
      <3>1. taken' = [record |-> "none", to |-> 0, raw |-> <<>>, at |-> pos]
        BY <2>1 DEF NothingTaken
      <3>2. pos \in Nat /\ <<>> \in Seq(Byte) /\ "none" \in RecordType \cup {"none"}
        BY <2>1
      <3> QED
        BY <3>1, <3>2 DEF Taken
    <2>3. <<>> \in Seq(Byte)
      OBVIOUS
    <2>4. disk # <<>>
      BY <1>4, <1>8 DEF AtRecord, Left
    <2> QED
      BY <1>4, <1>5, <1>8, <2>2, <2>3, <2>4 DEF AtRecord, ReaderTyped, Phase
  <1>9. CASE LeadingWord
    <2>1. CASE BadWord
      BY <1>3, <2>1 DEF BadWord
    <2>2. CASE GoodWord /\ data' = Filled /\ pos' = pos + Stated(Ahead(DescriptorWidth)) /\ Bounds(Filled)
      <3>1. Filled \in Seq(Byte) /\ pos' \in 0 .. Len(disk)
        BY <2>2, FilledIs
      <3>2. phase = "leading"
        BY <1>9 DEF LeadingWord, Leading
      <3> QED
        BY <1>5, <2>2, <3>1, <3>2 DEF Bounds, ReaderTyped, Phase
    <2> QED
      BY <1>9, <2>1, <2>2 DEF LeadingWord
  <1>10. CASE LeadingSegment
    <2>1. CASE BadWord
      BY <1>3, <2>1 DEF BadWord
    <2>2. CASE Ends("disagrees")
      BY <1>3, <2>2
    <2>3. CASE /\ GoodWord /\ data' = Filled /\ pos' = pos + Stated(Ahead(DescriptorWidth))
               /\ \/ Bounds(Filled)
                  \/ UNCHANGED <<phase, look, rstate, rcount, rfirst, short, taken, got, said>>
      <3>1. Filled \in Seq(Byte) /\ pos' \in 0 .. Len(disk)
        BY <2>3, FilledIs
      <3>2. phase = "leading"
        BY <1>10 DEF LeadingSegment, Leading
      <3> QED
        BY <1>5, <2>3, <3>1, <3>2 DEF Bounds, ReaderTyped, Phase
    <2> QED
      BY <1>10, <2>1, <2>2, <2>3 DEF LeadingSegment
  <1>11. ASSUME NEW at \in 0 .. Len(disk), Window(at), disk # <<>>, rfirst' \in BOOLEAN
         PROVE  ReaderTyped'
    <2>1. look' \in Seq(Byte)
      BY <1>11, WindowIs
    <2> QED
      BY <1>5, <1>11, <2>1 DEF Window, ReaderTyped, Phase
  <1>12. CASE LeadingNothing \/ LeadingSeparator
    <2>1. disk # <<>>
      BY <1>12 DEF LeadingNothing, LeadingSeparator, Leading, ReaderTyped
    <2>2. CASE LeadingNothing
      BY <1>4, <1>11, <2>1, <2>2 DEF LeadingNothing, ReaderTyped
    <2>3. CASE rfirst' = FALSE /\ Window(pos)
      BY <1>4, <1>11, <2>1, <2>3
    <2>4. CASE rfirst' = FALSE /\ Left > Len(framing.delimiter) /\ Window(pos + Len(framing.delimiter))
      <3>1. pos + Len(framing.delimiter) \in 0 .. Len(disk)
        BY <1>4, <1>6, <2>4 DEF Left
      <3> QED
        BY <1>11, <2>1, <2>4, <3>1
    <2>5. CASE NoDelimiter \/ Ends("cut")
      BY <1>3, <2>5 DEF NoDelimiter
    <2> QED
      BY <1>12, <2>2, <2>3, <2>4, <2>5 DEF LeadingSeparator
  <1>13. CASE Select
    <2>1. PICK i \in Matching :
            IF Sized(layout.transitions[i].record)
              THEN /\ taken' = [taken EXCEPT !.record = layout.transitions[i].record, !.to = layout.transitions[i].to]
                   /\ phase' = "admitting"
                   /\ UNCHANGED <<pos, rstate, rcount, rfirst, look, short, data, got, said>>
              ELSE Ends("count")
      BY <1>13, Zenon DEF Select
    <2>2. CASE ~ Sized(layout.transitions[i].record)
      BY <1>3, <2>1, <2>2
    <2>3. CASE Sized(layout.transitions[i].record)
      <3>1. layout.transitions[i].record \in RecordType /\ layout.transitions[i].to \in Nat
        BY <1>4, TransitionTyped DEF Matching, Leaving
      <3>2. /\ taken' = [taken EXCEPT !.record = layout.transitions[i].record, !.to = layout.transitions[i].to]
            /\ phase' = "admitting"
            /\ UNCHANGED <<pos, rstate, rcount, rfirst, look, short, data, got, said>>
        BY <2>1, <2>3
      <3>3. taken' \in Taken /\ taken'.record = layout.transitions[i].record
        BY <3>1, <3>2 DEF ReaderTyped, Taken
      <3>4. Sized(taken.record)'
        BY <2>3, <3>2, <3>3 DEF Sized
      <3>5. phase = "selecting"
        BY <1>13 DEF Select
      <3> QED
        BY <1>5, <3>1, <3>2, <3>3, <3>4, <3>5 DEF ReaderTyped, Phase
    <2> QED
      BY <2>2, <2>3
  <1>14. ASSUME NEW raw \in Seq(Byte), NEW at \in 0 .. Len(disk), Admitted(raw, at),
                phase = "admitting", Decodes(taken.record, raw)
         PROVE  ReaderTyped'
    <2>1. /\ taken' = [taken EXCEPT !.raw = raw] /\ pos' = at /\ phase' = "trailing"
          /\ UNCHANGED <<rstate, rcount, rfirst, look, short, data, got, said>>
      BY <1>14 DEF Admitted
    <2>2. taken' \in Taken /\ taken'.record = taken.record /\ taken'.raw = raw /\ taken.record \in RecordType
      BY <1>14, <2>1 DEF ReaderTyped, Taken
    <2>3. Decodes(taken'.record, taken'.raw)
      BY <1>14, <2>2
    <2> QED
      BY <1>5, <1>14, <2>1, <2>2, <2>3 DEF ReaderTyped, Phase
  <1>15. CASE AdmitBounded
    <2>1. CASE \E what \in {"disagrees", "malformed"} : Ends(what)
      BY <1>3, <2>1
    <2>2. CASE Len(data) >= Wanted /\ Decodes(taken.record, SubSeq(data, 1, Wanted)) /\ Admitted(SubSeq(data, 1, Wanted), pos)
      <3>1. Wanted \in Nat /\ phase = "admitting" /\ data \in Seq(Byte)
        BY <1>15, WantedTyped DEF AdmitBounded, ReaderTyped
      <3>2. SubSeq(data, 1, Wanted) \in Seq(Byte)
        <4> DEFINE w == Wanted
        <4>1. w \in Nat /\ w <= Len(data)
          BY <2>2, <3>1
        <4> HIDE DEF w
        <4>2. SubSeq(data, 1, w) \in Seq(Byte)
          BY <3>1, <4>1, DrawnFrom
        <4> QED
          BY <4>2 DEF w
      <3> QED
        BY <1>4, <1>14, <2>2, <3>1, <3>2
    <2> QED
      BY <1>15, <2>1, <2>2 DEF AdmitBounded
  <1>16. CASE AdmitStreamed
    <2>1. CASE \E what \in {"cut", "malformed"} : Ends(what)
      BY <1>3, <2>1
    <2>2. CASE Left >= Wanted /\ Decodes(taken.record, Ahead(Wanted)) /\ Admitted(Ahead(Wanted), pos + Wanted)
      <3>1. Wanted \in Nat /\ phase = "admitting"
        BY <1>16, WantedTyped DEF AdmitStreamed
      <3>2. Ahead(Wanted) \in Seq(Byte)
        BY <1>4, <3>1, AheadIs
      <3>3. pos + Wanted \in 0 .. Len(disk)
        BY <1>4, <2>2, <3>1 DEF Left
      <3> QED
        BY <1>14, <2>2, <3>1, <3>2, <3>3
    <2> QED
      BY <1>16, <2>1, <2>2 DEF AdmitStreamed
  <1>17. CASE Trailing
    <2>1. CASE NoDelimiter
      BY <1>3, <2>1 DEF NoDelimiter
    <2>2. CASE /\ Terminated => DelimiterHere
               /\ pos' = IF Terminated THEN pos + Len(framing.delimiter) ELSE pos
               /\ rcount' = Bound(taken.record, taken.raw, rcount)
               /\ got' = Append(got, [record |-> taken.record, raw |-> taken.raw, at |-> taken.at])
               /\ phase' = "boundary"
               /\ UNCHANGED <<rfirst, look, short, data, taken>>
      <3>1. pos' \in 0 .. Len(disk)
        <4>1. CASE Terminated
          <5>1. Ahead(Len(framing.delimiter)) = framing.delimiter
            BY <2>2, <4>1 DEF DelimiterHere
          <5> DEFINE l == Len(framing.delimiter)
          <5>2. l \in Nat
            BY <1>6
          <5>3. Len(Ahead(l)) = (IF l < Left THEN l ELSE Left) /\ Left \in Nat
            <6> HIDE DEF l
            <6> QED
              BY <1>4, <5>2, AheadIs
          <5>4. l <= Left
            BY <5>1, <5>2, <5>3
          <5>5. pos' = pos + l
            BY <2>2, <4>1
          <5> HIDE DEF l
          <5> QED
            BY <1>4, <5>2, <5>4, <5>5 DEF Left
        <4> QED
          BY <1>4, <2>2, <4>1
      <3>2. phase = "trailing" /\ taken.record \in RecordType /\ taken \in Taken /\ Decodes(taken.record, taken.raw)
        BY <1>17 DEF Trailing, ReaderTyped
      <3>3. rcount' \in Int
        <4>1. \A x \in Digit : x - 240 \in Int
          BY Counts
        <4> QED
          BY <2>2, <3>2, <4>1 DEF Bound, Decoded, Decodes, ReaderTyped
      <3>4. [record |-> taken.record, raw |-> taken.raw, at |-> taken.at] \in Got
        BY <3>2 DEF Taken, Got
      <3>5. got' \in Seq(Got)
        BY <2>2, <3>4, AppendProperties DEF ReaderTyped
      <3> QED
        BY <1>5, <2>2, <3>1, <3>2, <3>3, <3>5 DEF ReaderTyped, Phase
    <2> QED
      BY <1>17, <2>1, <2>2 DEF Trailing
  <1> QED
    BY <1>7, <1>8, <1>9, <1>10, <1>12, <1>13, <1>15, <1>16, <1>17 DEF Reading, Next

-----------------------------------------------------------------------------
(* The writer. Ghosts that the steps of the proof carry along say where it   *)
(* has been: path, the states and counts it left behind; lay, where the      *)
(* writes of each record ended; now, where those of the record in hand did.  *)

(* The way of the writer through its automaton, as far as nothing failed:    *)
(* path[i] is where record i left it, and lay[i] where its writes ended.     *)
TakenAt(i, path) ==
    /\ Takes(path[i - 1].state, path[i - 1].count, sent[i].record, sent[i].raw, path[i].state)
    /\ path[i].count = Bound(sent[i].record, sent[i].raw, path[i - 1].count)

Placed(i, lay) ==
    /\ Whole(EmissionOf(i, sent[i].raw), lay[i])
    /\ lay[i][0] = EndOf(i - 1)
    /\ lay[i][Len(EmissionOf(i, sent[i].raw))] = EndOf(i)

InPlace(path, lay) ==
    /\ path[0].state = layout.start /\ path[0].count = Unbound
    /\ \A i \in 0 .. intact : path[i].count \in Int /\ EndOf(i) \in 0 .. Len(disk)
    /\ \A i \in 1 .. intact : TakenAt(i, path) /\ Placed(i, lay)
    /\ \A i, j \in 0 .. intact : i <= j => EndOf(i) <= EndOf(j)

(* The record being emitted, of which now has where its first writes ended;  *)
(* a writer that stopped is where the last whole record left it.             *)
Underway(path, now) ==
    /\ ~ WroteOn => wstate = path[intact].state /\ wcount = path[intact].count
    /\ failures = 0 =>
        /\ wstate = path[intact].state /\ wcount = path[intact].count
        /\ chunks = <<>> => Len(disk) = EndOf(intact) /\ (first <=> intact = 0)
        /\ chunks # <<>> =>
              /\ first = FALSE
              /\ Takes(wstate, wcount, hand.record, hand.raw, hand.to)
              /\ \E k \in 0 .. Len(EmissionOf(intact + 1, hand.raw)) - 1 :
                    /\ chunks = SubSeq(EmissionOf(intact + 1, hand.raw), k + 1, Len(EmissionOf(intact + 1, hand.raw)))
                    /\ Laid(EmissionOf(intact + 1, hand.raw), now, k)
                    /\ now[0] = EndOf(intact) /\ now[k] = Len(disk)

(* The file grows, or is damaged: what is in it stays where it is.           *)
Stays ==
    /\ Len(disk) <= Len(disk')
    /\ framed \subseteq framed'
    /\ \A p \in 1 .. Len(disk) : p = damaged' \/ (p # damaged /\ disk'[p] = disk[p])

(* Writes that are in the file stay there, ...                               *)
LEMMA LaidStays ==
    ASSUME disk \in Seq(Byte), disk' \in Seq(Byte), Stays,
           NEW em \in Seq(Chunk), NEW at, NEW n \in 0 .. Len(em), Laid(em, at, n)
    PROVE  Laid(em, at, n)'
  <1>1. Len(em) \in Nat /\ n \in Nat /\ n <= Len(em) /\ Len(disk) \in Nat /\ Len(disk') \in Nat
    OBVIOUS
  <1>2. /\ \A k \in 0 .. n : at[k] \in Nat /\ at[0] <= at[k] /\ at[k] <= at[n]
        /\ at[n] <= Len(disk')
    BY <1>1 DEF Laid, Stays
  <1>3. ASSUME NEW k \in 1 .. n
        PROVE  /\ at[k] = at[k - 1] + Len(em[k].bytes)
               /\ Holds(at[k - 1], em[k].bytes)'
               /\ em[k].framing => at[k - 1] + 1 .. at[k] \subseteq framed'
    <2>1. /\ at[k] = at[k - 1] + Len(em[k].bytes) /\ Holds(at[k - 1], em[k].bytes)
          /\ em[k].framing => at[k - 1] + 1 .. at[k] \subseteq framed
      BY DEF Laid
    <2>2. em[k].framing => at[k - 1] + 1 .. at[k] \subseteq framed'
      BY <2>1 DEF Stays
    <2>3. em[k] \in Chunk
      BY <1>1
    <2>4. Len(em[k].bytes) \in Nat
      BY <2>3 DEF Chunk
    <2>5. k \in 0 .. n /\ k - 1 \in 0 .. n
      BY <1>1
    <2>6. at[k] \in Nat /\ at[k - 1] \in Nat /\ at[k] <= Len(disk)
      BY <1>1, <1>2, <2>5 DEF Laid
    <2>7. ASSUME NEW p \in 1 .. Len(em[k].bytes)
          PROVE  at[k - 1] + p = damaged' \/ disk'[at[k - 1] + p] = em[k].bytes[p]
      <3> DEFINE q == at[k - 1] + p
      <3>1. q \in 1 .. Len(disk)
        BY <1>1, <2>1, <2>4, <2>6
      <3>2. q = damaged \/ disk[q] = em[k].bytes[p]
        BY <2>1 DEF Holds
      <3> HIDE DEF q
      <3>3. q = damaged' \/ disk'[q] = em[k].bytes[p]
        BY <3>1, <3>2 DEF Stays
      <3> QED
        BY <3>3 DEF q
    <2>8. Holds(at[k - 1], em[k].bytes)'
      BY <2>7 DEF Holds
    <2> QED
      BY <2>1, <2>2, <2>8
  <1> QED
    BY <1>2, <1>3 DEF Laid

(* ... so does a record, ...                                                 *)
LEMMA PlacedStays ==
    ASSUME disk \in Seq(Byte), disk' \in Seq(Byte), Stays, framing' = framing,
           NEW i \in Nat, NEW lay, EmissionOf(i, sent[i].raw) \in Seq(Chunk), Placed(i, lay),
           sent'[i] = sent[i], EndOf(i)' = EndOf(i), EndOf(i - 1)' = EndOf(i - 1)
    PROVE  Placed(i, lay)'
  <1>1. PICK em : em = EmissionOf(i, sent[i].raw)
    OBVIOUS
  <1>2. EmissionOf(i, sent[i].raw)' = em
    BY <1>1 DEF EmissionOf, Segmented, Pieces, Most
  <1>3. PICK at : at = lay[i]
    OBVIOUS
  <1>4. em \in Seq(Chunk) /\ Len(em) \in 0 .. Len(em) /\ Laid(em, at, Len(em))
    BY <1>1, <1>3 DEF Placed, Whole
  <1>5. Laid(em, at, Len(em))'
    BY <1>4, LaidStays
  <1>6. Whole(em, at)'
    BY <1>5 DEF Whole
  <1>7. Whole(EmissionOf(i, sent[i].raw), lay[i])'
    BY <1>2, <1>3, <1>6
  <1> QED
    BY <1>1, <1>2, <1>3, <1>7 DEF Placed

(* ... and so do all of them.                                                *)
LEMMA InPlaceStays ==
    ASSUME Typed, Typed', Stays, UNCHANGED <<layout, framing, intact>>,
           \A i \in 1 .. intact : sent'[i] = sent[i] /\ ends'[i] = ends[i],
           NEW path, NEW lay, InPlace(path, lay)
    PROVE  InPlace(path, lay)'
  <1>1. disk \in Seq(Byte) /\ disk' \in Seq(Byte) /\ Len(disk) \in Nat /\ Len(disk') \in Nat /\ intact \in Nat
    BY DEF Typed, FileTyped, WriterTyped
  <1>2. \A i \in 0 .. intact : EndOf(i)' = EndOf(i)
    BY <1>1 DEF EndOf
  <1>3. ASSUME NEW i \in 1 .. intact
        PROVE  TakenAt(i, path)' /\ Placed(i, lay)'
    <2>1. TakenAt(i, path) /\ Placed(i, lay) /\ sent'[i] = sent[i]
      BY DEF InPlace
    <2>2. TakenAt(i, path)'
      BY <2>1 DEF TakenAt, Takes, Leaving, Fits, Statable
    <2>3. EndOf(i)' = EndOf(i) /\ EndOf(i - 1)' = EndOf(i - 1) /\ i \in Nat
      BY <1>1, <1>2
    <2>4. EmissionOf(i, sent[i].raw) \in Seq(Chunk)
      <3>1. layout \in Layouts /\ framing \in Framings
        BY DEF Typed, FileTyped
      <3>2. sent[i].raw \in Seq(Byte) /\ Len(sent[i].raw) >= 1
        BY <2>1, <3>1, TakenRecord DEF TakenAt
      <3> QED
        BY <3>1, <3>2, EmissionTyped
    <2> QED
      BY <1>1, <2>1, <2>2, <2>3, <2>4, PlacedStays
  <1>4. \A i \in 0 .. intact : EndOf(i) \in 0 .. Len(disk')
    BY <1>1 DEF InPlace, Stays
  <1> QED
    BY <1>1, <1>2, <1>3, <1>4 DEF InPlace

(* A write takes nothing away.                                               *)
LEMMA PutStays ==
    ASSUME Typed, chunks # <<>>, NEW n \in 0 .. Len(Head(chunks).bytes), Put(Head(chunks), n), damaged' = damaged, damaged = 0
    PROVE  Stays
  <1>1. PICK c : c = Head(chunks)
    OBVIOUS
  <1>2. c \in Chunk /\ Len(c.bytes) \in Nat /\ disk \in Seq(Byte) /\ Put(c, n)
    BY <1>1, HeadAndTail DEF Typed, WriterTyped, FileTyped
  <1>3. /\ disk' \in Seq(Byte) /\ Len(disk') = Len(disk) + n
        /\ \A p \in 1 .. Len(disk) : disk'[p] = disk[p]
        /\ framed \subseteq framed'
    <2>1. n \in 0 .. Len(c.bytes)
      BY <1>1
    <2> QED
      BY <1>2, <2>1, PutTyped
  <1>4. Len(disk) \in Nat /\ n \in Nat
    BY <1>1, <1>2
  <1> QED
    BY <1>3, <1>4 DEF Stays

(* One more write of the record being emitted.                               *)
LEMMA PutLays ==
    ASSUME Typed, Typed', PutChunk, failures = 0, NEW path, NEW lay, NEW now,
           InPlace(path, lay), Underway(path, now),
           NEW em, em = EmissionOf(intact + 1, hand.raw)
    PROVE  \E then : \E k \in 1 .. Len(em) :
              /\ Laid(em, then, k)' /\ then[0] = EndOf(intact) /\ then[k] = Len(disk')
              /\ chunks' = SubSeq(em, k + 1, Len(em))
              /\ k = Len(em) <=> Len(chunks) = 1
  <1>1. chunks # <<>> /\ chunks' = Tail(chunks) /\ Put(Head(chunks), Len(Head(chunks).bytes))
    BY DEF PutChunk
  <1>2. /\ layout \in Layouts /\ framing \in Framings /\ disk \in Seq(Byte) /\ disk' \in Seq(Byte)
        /\ Len(disk) \in Nat /\ Len(disk') \in Nat
    BY DEF Typed, FileTyped
  <1>3. ended = "open" /\ damaged = 0 /\ damaged' = 0
    BY DEF PutChunk, Typed, FileTyped
  <1>4. Takes(wstate, wcount, hand.record, hand.raw, hand.to)
    BY <1>1 DEF Underway
  <1>5. hand.raw \in Seq(Byte) /\ Len(hand.raw) >= 1
    BY <1>2, <1>4, TakenRecord
  <1>6. em \in Seq(Chunk) /\ em # <<>> /\ Len(em) \in Nat \ {0}
    <2>1. em \in Seq(Chunk) /\ em # <<>>
      BY <1>2, <1>5, EmissionTyped
    <2> QED
      BY <2>1
  <1>7. PICK j \in 0 .. Len(em) - 1 :
          /\ chunks = SubSeq(em, j + 1, Len(em))
          /\ Laid(em, now, j) /\ now[0] = EndOf(intact) /\ now[j] = Len(disk)
    BY <1>1 DEF Underway
  <1> DEFINE k == j + 1
  <1>8. /\ j \in Nat /\ k \in 1 .. Len(em) /\ k \in Nat /\ k - 1 = j /\ Len(em) \in k .. Len(em)
        /\ j \in 0 .. Len(em)
    BY <1>6
  <1>9. PICK chunk : chunk = em[k]
    OBVIOUS
  <1>10. chunk \in Chunk /\ Len(chunk.bytes) \in Nat /\ chunk.framing \in BOOLEAN
    <2>1. em[k] \in Chunk
      <3> HIDE DEF k
      <3> QED
        BY <1>6, <1>8
    <2> QED
      BY <1>9, <2>1 DEF Chunk
  <1>11. Head(chunks) = chunk /\ chunks' = SubSeq(em, k + 1, Len(em)) /\ (k = Len(em) <=> Len(chunks) = 1)
    <2> HIDE DEF k
    <2>1. chunks = SubSeq(em, k, Len(em))
      BY <1>7 DEF k
    <2>2. Head(SubSeq(em, k, Len(em))) = em[k] /\ Tail(SubSeq(em, k, Len(em))) = SubSeq(em, k + 1, Len(em))
      BY <1>6, <1>8, HeadTailOfSubSeq
    <2>3. Len(SubSeq(em, k, Len(em))) = Len(em) - k + 1
      <3> DEFINE m == Len(em)
      <3>1. k \in Int /\ m \in Int /\ k <= m /\ \A i \in k .. m : em[i] \in Chunk
        BY <1>6, <1>8
      <3> HIDE DEF m
      <3>2. Len(SubSeq(em, k, m)) = IF k <= m THEN m - k + 1 ELSE 0
        BY <3>1, SubSeqProperties
      <3> QED
        BY <3>1, <3>2 DEF m
    <2>4. k = Len(em) <=> Len(chunks) = 1
      BY <1>6, <1>8, <2>1, <2>3
    <2> QED
      BY <1>1, <1>9, <2>1, <2>2, <2>4
  <1>12. PICK l : l = Len(chunk.bytes)
    OBVIOUS
  <1>13. Put(chunk, l) /\ l \in Nat /\ l \in 0 .. Len(chunk.bytes)
    BY <1>1, <1>10, <1>11, <1>12
  <1>14. /\ Len(disk') = Len(disk) + l
         /\ \A p \in 1 .. Len(disk) : disk'[p] = disk[p]
         /\ \A p \in 1 .. l : disk'[Len(disk) + p] = chunk.bytes[p]
         /\ chunk.framing => Len(disk) + 1 .. Len(disk) + l \subseteq framed'
    BY <1>2, <1>10, <1>13, PutTyped
  <1>15. Stays
    <2>1. l \in 0 .. Len(Head(chunks).bytes) /\ Put(Head(chunks), l)
      BY <1>11, <1>13
    <2> QED
      BY <1>1, <1>3, <2>1, PutStays
  <1>16. Laid(em, now, j)'
    BY <1>2, <1>6, <1>7, <1>8, <1>15, LaidStays
  <1>17. PICK then : then = [q \in 0 .. k |-> IF q <= j THEN now[q] ELSE Len(disk')]
    OBVIOUS
  <1>18. then[k] = Len(disk') /\ \A q \in 0 .. j : then[q] = now[q]
    BY <1>8, <1>17
  <1>19. now[j] = Len(disk) /\ \A q \in 0 .. j : now[q] \in Nat /\ now[0] <= now[q] /\ now[q] <= now[j]
    BY <1>7 DEF Laid
  <1>20. \A q \in 0 .. k : then[q] \in Nat /\ then[0] <= then[q] /\ then[q] <= then[k]
    <2>1. 0 \in 0 .. j /\ then[0] = now[0] /\ then[0] \in Nat /\ now[j] <= Len(disk') /\ now[0] <= now[j]
      BY <1>2, <1>8, <1>13, <1>14, <1>18, <1>19
    <2> SUFFICES ASSUME NEW q \in 0 .. k PROVE then[q] \in Nat /\ then[0] <= then[q] /\ then[q] <= then[k]
      OBVIOUS
    <2>2. CASE q = k
      BY <1>2, <1>18, <1>19, <2>1, <2>2
    <2>3. CASE q # k
      <3>1. q \in 0 .. j
        BY <1>8, <2>3
      <3>2. then[q] = now[q] /\ now[q] \in Nat /\ now[0] <= now[q] /\ now[q] <= now[j]
        BY <1>18, <1>19, <3>1
      <3> QED
        BY <1>2, <1>18, <1>19, <2>1, <3>2
    <2> QED
      BY <2>2, <2>3
  <1>21. ASSUME NEW q \in 1 .. k
         PROVE  /\ then[q] = then[q - 1] + Len(em[q].bytes)
                /\ Holds(then[q - 1], em[q].bytes)'
                /\ em[q].framing => then[q - 1] + 1 .. then[q] \subseteq framed'
    <2>1. CASE q = k
      <3>1. then[q - 1] = Len(disk) /\ then[q] = Len(disk') /\ em[q] = chunk
        <4>1. q - 1 = j /\ j \in 0 .. j
          BY <1>8, <2>1
        <4> QED
          BY <1>9, <1>18, <1>19, <2>1, <4>1
      <3>2. Holds(then[q - 1], em[q].bytes)'
        <4>1. PICK at : at = Len(disk)
          OBVIOUS
        <4>2. \A p \in 1 .. Len(chunk.bytes) : disk'[at + p] = chunk.bytes[p]
          BY <1>12, <1>14, <4>1
        <4>3. then[q - 1] = at
          BY <3>1, <4>1
        <4> QED
          BY <3>1, <4>2, <4>3 DEF Holds
      <3> QED
        BY <1>12, <1>14, <3>1, <3>2
    <2>2. CASE q # k
      <3>1. q \in 1 .. j /\ q - 1 \in 0 .. j /\ q \in 0 .. j
        BY <1>8, <2>2
      <3>2. then[q] = now[q] /\ then[q - 1] = now[q - 1]
        BY <1>18, <3>1
      <3>3. /\ now[q] = now[q - 1] + Len(em[q].bytes)
            /\ Holds(now[q - 1], em[q].bytes)'
            /\ em[q].framing => now[q - 1] + 1 .. now[q] \subseteq framed'
        BY <1>16, <3>1 DEF Laid
      <3> QED
        BY <3>2, <3>3
    <2> QED
      BY <2>1, <2>2
  <1>22. Laid(em, then, k)'
    <2>1. then[k] <= Len(disk')
      BY <1>2, <1>18
    <2> HIDE DEF k
    <2> QED
      BY <1>20, <1>21, <2>1 DEF Laid
  <1>23. then[0] = EndOf(intact)
    BY <1>7, <1>8, <1>18
  <1>24. k \in 1 .. Len(em)
    BY <1>8
  <1> HIDE DEF k
  <1> QED
    BY <1>11, <1>18, <1>22, <1>23, <1>24

Writ(path, lay, now) == InPlace(path, lay) /\ Underway(path, now)

(* Nothing has been written at the start.                                    *)
LEMMA WritInit ==
    ASSUME FramedInit, Typed
    PROVE  \E path, lay, now : Writ(path, lay, now)
  <1>1. intact = 0 /\ failures = 0 /\ chunks = <<>> /\ disk = <<>> /\ first = TRUE /\ wstate = layout.start /\ wcount = Unbound
    BY DEF FramedInit, FileInit, WriterInit
  <1>2. PICK path : path = [i \in {0} |-> [state |-> layout.start, count |-> Unbound]]
    OBVIOUS
  <1>3. path[0].state = layout.start /\ path[0].count = Unbound
    BY <1>2
  <1>4. EndOf(0) = 0 /\ Unbound \in Int
    BY DEF EndOf, Unbound
  <1>5. InPlace(path, path)
    BY <1>1, <1>3, <1>4 DEF InPlace
  <1>6. Underway(path, path)
    BY <1>1, <1>3, <1>4 DEF Underway
  <1> QED
    BY <1>5, <1>6 DEF Writ

(* A step that writes nothing and sends nothing.                             *)
LEMMA StillInPlace ==
    ASSUME Typed, Typed', UNCHANGED <<layout, framing, disk, damaged, framed, sent, ends, intact>>, damaged = 0,
           NEW path, NEW lay, InPlace(path, lay)
    PROVE  InPlace(path, lay)'
  <1>1. Len(disk) \in Nat
    BY DEF Typed, FileTyped
  <1>2. Stays
    <2>1. Len(disk) <= Len(disk')
      BY <1>1
    <2>2. \A p \in 1 .. Len(disk) : p # damaged /\ disk'[p] = disk[p]
      BY <1>1
    <2> QED
      BY <2>1, <2>2 DEF Stays
  <1> QED
    BY <1>2, InPlaceStays

(* A record that Write lets through is one more step of the path, to be      *)
(* taken once its last write is in the file.                                 *)
LEMMA WritWrite ==
    ASSUME Typed, Typed', Write, damaged' = damaged, damaged = 0, NEW path, NEW lay, NEW now, Writ(path, lay, now)
    PROVE  \E then : Writ(path, lay, then)'
  <1>1. /\ UNCHANGED <<layout, framing, disk, framed, sent, ends, intact, failures, wstate, wcount>>
        /\ chunks = <<>> /\ first' = FALSE
    BY DEF Write, config
  <1>2. InPlace(path, lay)'
    BY <1>1, StillInPlace DEF Writ
  <1>3. /\ Takes(wstate, wcount, hand'.record, hand'.raw, hand'.to)
        /\ chunks' = Emission(hand'.raw)
        /\ hand' \in Held /\ Len(hand'.raw) >= 1
        /\ chunks' \in Seq(Chunk) /\ chunks' # <<>>
    BY WriteTakes
  <1>4. PICK then : then = [q \in {0} |-> Len(disk)]
    OBVIOUS
  <1>5. CASE failures # 0
    <2>1. failures' \in Nat /\ failures' # 0 /\ chunks' # <<>>
      BY <1>1, <1>3, <1>5 DEF Typed, WriterTyped
    <2>2. WroteOn'
      BY <2>1 DEF WroteOn
    <2>3. Underway(path, then)'
      BY <2>1, <2>2 DEF Underway
    <2> QED
      BY <1>2, <2>3 DEF Writ
  <1>6. CASE failures = 0
    <2>1. wstate = path[intact].state /\ wcount = path[intact].count /\ Len(disk) = EndOf(intact) /\ (first <=> intact = 0)
      BY <1>1, <1>6 DEF Writ, Underway
    <2>2. intact \in Nat /\ Len(disk) \in Nat
      BY DEF Typed, WriterTyped, FileTyped
    <2>3. PICK em : em = EmissionOf(intact + 1, hand'.raw)
      OBVIOUS
    <2>4. chunks' = em
      <3>1. first <=> intact + 1 = 1
        BY <2>1, <2>2
      <3> QED
        BY <1>3, <2>3, <3>1 DEF Emission, EmissionOf
    <2>5. EmissionOf(intact + 1, hand.raw)' = em
      BY <1>1, <2>3 DEF EmissionOf, Segmented, Pieces, Most
    <2>6. em \in Seq(Chunk) /\ Len(em) \in Nat \ {0} /\ em = SubSeq(em, 0 + 1, Len(em))
      <3>1. em \in Seq(Chunk) /\ em # <<>>
        BY <1>3, <2>4
      <3> QED
        BY <3>1, SubSeqFull
    <2>7. then[0] = Len(disk) /\ Laid(em, then, 0)'
      BY <1>1, <1>4, <2>2 DEF Laid
    <2>8. EndOf(intact)' = EndOf(intact)
      BY <1>1 DEF EndOf
    <2>9. Takes(wstate, wcount, hand.record, hand.raw, hand.to)'
      BY <1>1, <1>3 DEF Takes, Leaving, Fits, Statable
    <2>10. /\ 0 \in 0 .. Len(em) - 1
           /\ chunks' = SubSeq(em, 0 + 1, Len(em))
           /\ then[0] = EndOf(intact)' /\ then[0] = Len(disk')
      BY <1>1, <2>1, <2>4, <2>6, <2>7, <2>8
    <2>11. \E k \in 0 .. Len(em) - 1 :
                    /\ chunks' = SubSeq(em, k + 1, Len(em))
                    /\ Laid(em, then, k)'
                    /\ then[0] = EndOf(intact)' /\ then[k] = Len(disk')
      BY <2>7, <2>10
    <2>12. Underway(path, then)'
      BY <1>1, <1>3, <2>1, <2>5, <2>9, <2>11 DEF Underway
    <2> QED
      BY <1>2, <2>12 DEF Writ
  <1> QED
    BY <1>5, <1>6

(* A write that fails ends what is known of the record in hand, and changes  *)
(* nothing of the records before it.                                         *)
LEMMA WritFails ==
    ASSUME Typed, Typed', PutFails, damaged' = damaged, damaged = 0, NEW path, NEW lay, NEW now, Writ(path, lay, now)
    PROVE  Writ(path, lay, now)'
  <1>1. PICK n \in 0 .. Len(Head(chunks).bytes) : Put(Head(chunks), n)
    BY DEF PutFails
  <1>2. chunks # <<>> /\ UNCHANGED <<layout, framing, intact, sent, ends, wstate, wcount>> /\ failures' = failures + 1 /\ failures \in Nat
    BY DEF PutFails, config, Typed, WriterTyped
  <1>3. Stays
    BY <1>1, <1>2, PutStays
  <1>4. InPlace(path, lay)'
    BY <1>2, <1>3, InPlaceStays DEF Writ
  <1>5. failures' # 0 /\ (failures # 0 => failures' > 1)
    BY <1>2
  <1>6. ~ WroteOn' => wstate' = path[intact'].state /\ wcount' = path[intact'].count
    BY <1>2, <1>5 DEF Writ, Underway, WroteOn
  <1> QED
    BY <1>4, <1>5, <1>6 DEF Writ, Underway

(* A write goes behind the ones before it, and the last one completes the    *)
(* record and takes the step.                                                *)
LEMMA WritPut ==
    ASSUME Typed, Typed', PutChunk, damaged' = damaged, damaged = 0, NEW path, NEW lay, NEW now, Writ(path, lay, now)
    PROVE  \E way, places, then : Writ(way, places, then)'
  <1>1. /\ chunks # <<>> /\ Put(Head(chunks), Len(Head(chunks).bytes)) /\ chunks' = Tail(chunks)
        /\ UNCHANGED <<layout, framing, first, hand, failures>>
    BY DEF PutChunk, config
  <1>2. Stays
    <2>1. Len(Head(chunks).bytes) \in Nat
      BY <1>1, HeadAndTail DEF Typed, WriterTyped
    <2>2. Len(Head(chunks).bytes) \in 0 .. Len(Head(chunks).bytes)
      BY <2>1
    <2> QED
      BY <1>1, <2>2, PutStays
  <1>3. /\ layout \in Layouts /\ framing \in Framings /\ disk \in Seq(Byte) /\ disk' \in Seq(Byte)
        /\ Len(disk) \in Nat /\ Len(disk') \in Nat /\ intact \in Nat /\ failures \in Nat
        /\ sent \in Seq(Sent) /\ ends \in Seq(Nat) /\ Len(ends) = Len(sent) /\ intact <= Len(sent) /\ Len(sent) \in Nat
        /\ hand \in Held /\ (failures = 0 => intact = Len(sent))
    BY <1>1 DEF Typed, FileTyped, WriterTyped
  <1>4. \A i \in 1 .. intact : sent'[i] = sent[i] /\ ends'[i] = ends[i]
    <2>1. CASE Len(chunks) # 1
      BY <2>1 DEF PutChunk
    <2>2. CASE Len(chunks) = 1
      <3>1. sent' = Append(sent, [record |-> hand.record, raw |-> hand.raw]) /\ ends' = Append(ends, Len(disk'))
        BY <2>2 DEF PutChunk
      <3>2. [record |-> hand.record, raw |-> hand.raw] \in Sent
        BY <1>3 DEF Sent, Held
      <3>3. \A i \in 1 .. Len(sent) : sent'[i] = sent[i] /\ ends'[i] = ends[i]
        BY <1>3, <3>1, <3>2, AppendProperties
      <3> QED
        BY <1>3, <3>3
    <2> QED
      BY <2>1, <2>2
  <1>5. CASE failures # 0
    <2>1. intact' = intact
      BY <1>5 DEF PutChunk
    <2>2. InPlace(path, lay)'
      BY <1>1, <1>2, <1>4, <2>1, InPlaceStays DEF Writ
    <2>3. WroteOn'
      <3>1. failures' = 1 \/ failures' > 1
        BY <1>1, <1>3, <1>5
      <3>2. CASE Len(chunks) = 1
        <4>1. sent' = Append(sent, [record |-> hand.record, raw |-> hand.raw])
          BY <3>2 DEF PutChunk
        <4>2. [record |-> hand.record, raw |-> hand.raw] \in Sent
          BY <1>3 DEF Sent, Held
        <4>3. Len(sent') = Len(sent) + 1
          BY <1>3, <4>1, <4>2, AppendProperties
        <4> QED
          BY <1>3, <2>1, <3>1, <4>3 DEF WroteOn
      <3>3. CASE Len(chunks) # 1
        <4>1. chunks' # <<>>
          BY <1>1, <3>3, HeadAndTail DEF Typed, WriterTyped
        <4> QED
          BY <3>1, <4>1 DEF WroteOn
      <3> QED
        BY <3>2, <3>3
    <2>4. Underway(path, now)'
      BY <1>1, <1>5, <2>3 DEF Underway
    <2> QED
      BY <2>2, <2>4 DEF Writ
  <1>6. CASE failures = 0
    <2>1. PICK em : em = EmissionOf(intact + 1, hand.raw)
      OBVIOUS
    <2>2. PICK then : \E k \in 1 .. Len(em) :
              /\ Laid(em, then, k)' /\ then[0] = EndOf(intact) /\ then[k] = Len(disk')
              /\ chunks' = SubSeq(em, k + 1, Len(em))
              /\ k = Len(em) <=> Len(chunks) = 1
      BY <1>6, <2>1, PutLays DEF Writ
    <2>3. PICK k \in 1 .. Len(em) :
              /\ Laid(em, then, k)' /\ then[0] = EndOf(intact) /\ then[k] = Len(disk')
              /\ chunks' = SubSeq(em, k + 1, Len(em))
              /\ k = Len(em) <=> Len(chunks) = 1
      BY <2>2
    <2>4. /\ wstate = path[intact].state /\ wcount = path[intact].count /\ first = FALSE
          /\ Takes(wstate, wcount, hand.record, hand.raw, hand.to)
      BY <1>1, <1>6 DEF Writ, Underway
    <2>5. em \in Seq(Chunk) /\ Len(em) \in Nat /\ hand.raw \in Seq(Byte) /\ Len(hand.raw) >= 1
      <3>1. hand.raw \in Seq(Byte) /\ Len(hand.raw) >= 1
        BY <1>3, <2>4, TakenRecord
      <3>2. em \in Seq(Chunk)
        BY <1>3, <2>1, <3>1, EmissionTyped
      <3> QED
        BY <3>1, <3>2
    <2>6. chunks \in Seq(Chunk) /\ Len(chunks) \in Nat \ {0} /\ (Len(chunks) = 1 <=> chunks' = <<>>)
      BY <1>1, HeadAndTail DEF Typed, WriterTyped
    <2>7. CASE Len(chunks) # 1
      <3>1. UNCHANGED <<wstate, wcount, sent, ends, intact>>
        BY <2>7 DEF PutChunk
      <3>2. InPlace(path, lay)'
        BY <1>1, <1>2, <1>4, <3>1, InPlaceStays DEF Writ
      <3>3. EmissionOf(intact + 1, hand.raw)' = em
        BY <1>1, <2>1, <3>1 DEF EmissionOf, Segmented, Pieces, Most
      <3>4. EndOf(intact)' = EndOf(intact)
        BY <3>1 DEF EndOf
      <3>5. Takes(wstate, wcount, hand.record, hand.raw, hand.to)'
        BY <1>1, <2>4, <3>1 DEF Takes, Leaving, Fits, Statable
      <3>6. k \in 0 .. Len(em) - 1
        BY <2>3, <2>5, <2>7
      <3>7. \E kk \in 0 .. Len(em) - 1 :
                    /\ chunks' = SubSeq(em, kk + 1, Len(em))
                    /\ Laid(em, then, kk)'
                    /\ then[0] = EndOf(intact)' /\ then[kk] = Len(disk')
        BY <2>3, <3>4, <3>6
      <3>8. Underway(path, then)'
        BY <1>1, <2>4, <2>6, <2>7, <3>1, <3>3, <3>5, <3>7 DEF Underway
      <3> QED
        BY <3>2, <3>8 DEF Writ
    <2>8. CASE Len(chunks) = 1
      <3>1. /\ wstate' = hand.to
            /\ wcount' = Bound(hand.record, hand.raw, wcount)
            /\ sent' = Append(sent, [record |-> hand.record, raw |-> hand.raw])
            /\ ends' = Append(ends, Len(disk'))
            /\ intact' = intact + 1
        BY <1>6, <2>8 DEF PutChunk
      <3>2. PICK m : m = intact + 1
        OBVIOUS
      <3>3. /\ m \in Nat /\ m - 1 = intact /\ m = Len(sent) + 1 /\ m = Len(ends) + 1 /\ m # 0 /\ m \in 1 .. m /\ m \in 0 .. m
            /\ intact \in 0 .. m /\ intact # m
        BY <1>3, <1>6, <3>2
      <3>4. sent'[m] = [record |-> hand.record, raw |-> hand.raw] /\ ends'[m] = Len(disk')
        <4>1. [record |-> hand.record, raw |-> hand.raw] \in Sent
          BY <1>3 DEF Sent, Held
        <4> QED
          BY <1>3, <3>1, <3>3, <4>1, AppendProperties
      <3>5. \A i \in 0 .. intact : EndOf(i)' = EndOf(i)
        BY <1>3, <1>4 DEF EndOf
      <3>6. EndOf(m)' = Len(disk')
        BY <3>3, <3>4 DEF EndOf
      <3>7. PICK c : c = Bound(hand.record, hand.raw, wcount)
        OBVIOUS
      <3>8. PICK s : s = hand.to
        OBVIOUS
      <3>9. PICK way : way = [i \in 0 .. m |-> IF i = m THEN [state |-> s, count |-> c] ELSE path[i]]
        OBVIOUS
      <3>10. PICK places : places = [i \in 1 .. m |-> IF i = m THEN then ELSE lay[i]]
        OBVIOUS
      <3>11. /\ way[m].state = s /\ way[m].count = c /\ \A i \in 0 .. intact : way[i] = path[i]
             /\ places[m] = then /\ \A i \in 1 .. intact : places[i] = lay[i]
        <4>1. way[m] = [state |-> s, count |-> c] /\ places[m] = then
          BY <3>3, <3>9, <3>10
        <4>2. \A i \in 0 .. intact : i \in 0 .. m /\ i # m
          BY <1>3, <3>2
        <4>3. \A i \in 1 .. intact : i \in 1 .. m /\ i # m
          BY <1>3, <3>2
        <4>4. \A i \in 0 .. intact : way[i] = path[i]
          BY <3>9, <4>2
        <4>5. \A i \in 1 .. intact : places[i] = lay[i]
          BY <3>10, <4>3
        <4> QED
          BY <4>1, <4>4, <4>5
      <3>12. c \in Int
        <4>1. wcount \in Int
          BY <1>3, <2>4 DEF Writ, InPlace
        <4> QED
          BY <1>3, <2>4, <3>7, <4>1, TakenBinds
      <3>13. 0 \in 0 .. intact /\ intact \in 0 .. intact
        BY <1>3
      <3>14. way[0].state = layout'.start /\ way[0].count = Unbound
        BY <1>1, <3>11, <3>13 DEF Writ, InPlace
      <3>15. ASSUME NEW i \in 0 .. m
             PROVE  way[i].count \in Int /\ EndOf(i)' \in 0 .. Len(disk')
        <4>1. CASE i = m
          BY <1>3, <3>6, <3>11, <3>12, <4>1
        <4>2. CASE i # m
          <5>1. i \in 0 .. intact
            BY <1>3, <3>2, <4>2
          <5>2. path[i].count \in Int /\ EndOf(i) \in 0 .. Len(disk)
            BY <5>1 DEF Writ, InPlace
          <5>3. Len(disk) <= Len(disk')
            BY <1>2 DEF Stays
          <5> QED
            BY <1>3, <3>5, <3>11, <5>1, <5>2, <5>3
        <4> QED
          BY <4>1, <4>2
      <3>16. ASSUME NEW i \in 1 .. m
             PROVE  TakenAt(i, way)' /\ Placed(i, places)'
        <4>1. CASE i = m
          <5>1. TakenAt(i, way)'
            <6>1. way[i - 1].state = wstate /\ way[i - 1].count = wcount
              BY <2>4, <3>3, <3>11, <3>13, <4>1
            <6>2. way[i].state = hand.to /\ sent'[i].record = hand.record /\ sent'[i].raw = hand.raw
              BY <3>4, <3>8, <3>11, <4>1
            <6>3. way[i].count = Bound(hand.record, hand.raw, wcount)
              BY <3>7, <3>11, <4>1
            <6> QED
              BY <1>1, <2>4, <6>1, <6>2, <6>3 DEF TakenAt, Takes, Leaving, Fits, Statable
          <5>2. EmissionOf(i, sent[i].raw)' = em
            <6>1. sent'[i].raw = hand.raw /\ i = intact + 1
              BY <3>2, <3>4, <4>1
            <6> QED
              BY <1>1, <2>1, <6>1 DEF EmissionOf, Segmented, Pieces, Most
          <5>3. k = Len(em)
            BY <2>3, <2>8
          <5>4. Whole(em, then)'
            BY <2>3, <5>3 DEF Whole
          <5>5. EndOf(i - 1)' = EndOf(intact) /\ EndOf(i)' = Len(disk')
            BY <3>3, <3>5, <3>6, <3>13, <4>1
          <5>6. places[i] = then
            BY <3>11, <4>1
          <5>7. then[0] = EndOf(i - 1)' /\ then[Len(em)] = EndOf(i)'
            BY <2>3, <5>3, <5>5
          <5>8. Whole(EmissionOf(i, sent[i].raw), places[i])'
            BY <5>2, <5>4, <5>6
          <5>9. Placed(i, places)'
            BY <5>2, <5>6, <5>7, <5>8 DEF Placed
          <5> QED
            BY <5>1, <5>9
        <4>2. CASE i # m
          <5>1. i \in 1 .. intact /\ i \in 0 .. intact /\ i - 1 \in 0 .. intact /\ i \in Nat
            BY <1>3, <3>2, <4>2
          <5>2. TakenAt(i, path) /\ Placed(i, lay)
            BY <5>1 DEF Writ, InPlace
          <5>3. sent'[i] = sent[i] /\ way[i] = path[i] /\ way[i - 1] = path[i - 1] /\ places[i] = lay[i]
            BY <1>4, <3>11, <5>1
          <5>4. TakenAt(i, way)'
            BY <1>1, <5>2, <5>3 DEF TakenAt, Takes, Leaving, Fits, Statable
          <5>5. sent[i].raw \in Seq(Byte) /\ Len(sent[i].raw) >= 1
            BY <1>3, <5>2, TakenRecord DEF TakenAt
          <5>6. EmissionOf(i, sent[i].raw) \in Seq(Chunk)
            BY <1>3, <5>5, EmissionTyped
          <5>7. EndOf(i)' = EndOf(i) /\ EndOf(i - 1)' = EndOf(i - 1)
            BY <3>5, <5>1
          <5>8. Placed(i, lay)'
            BY <1>1, <1>2, <1>3, <5>1, <5>2, <5>3, <5>6, <5>7, PlacedStays
          <5>9. Placed(i, places)'
            BY <5>3, <5>8 DEF Placed
          <5> QED
            BY <5>4, <5>9
        <4> QED
          BY <4>1, <4>2
      <3>17. ASSUME NEW i \in 0 .. m, NEW j \in 0 .. m, i <= j
             PROVE  EndOf(i)' <= EndOf(j)'
        <4>1. CASE j = m
          BY <1>3, <3>6, <3>15, <4>1
        <4>2. CASE j # m
          <5>1. i \in 0 .. intact /\ j \in 0 .. intact
            BY <1>3, <3>2, <3>17, <4>2
          <5>2. EndOf(i) <= EndOf(j)
            BY <3>17, <5>1 DEF Writ, InPlace
          <5> QED
            BY <3>5, <5>1, <5>2
        <4> QED
          BY <4>1, <4>2
      <3>18. InPlace(way, places)'
        <4>1. intact' = m
          BY <3>1, <3>2
        <4> QED
          BY <3>14, <3>15, <3>16, <3>17, <4>1 DEF InPlace
      <3>19. Underway(way, then)'
        <4>1. intact' = m /\ intact' # 0 /\ chunks' = <<>>
          BY <2>6, <2>8, <3>1, <3>2, <3>3
        <4> QED
          BY <1>1, <2>4, <3>1, <3>6, <3>7, <3>8, <3>11, <4>1 DEF Underway
      <3> QED
        BY <3>18, <3>19 DEF Writ
    <2> QED
      BY <2>7, <2>8
  <1> QED
    BY <1>5, <1>6

(* Every step of the writer.                                                 *)
LEMMA WritWriting ==
    ASSUME Typed, Typed', Writing, NEW path, NEW lay, NEW now, Writ(path, lay, now)
    PROVE  \E way, places, then : Writ(way, places, then)'
  <1>1. damaged' = damaged /\ damaged = 0
    BY DEF Writing, Write, PutChunk, PutFails, Close, Abandon, Typed, FileTyped
  <1>2. CASE Write
    BY <1>1, <1>2, WritWrite
  <1>3. CASE PutChunk
    BY <1>1, <1>3, WritPut
  <1>4. CASE PutFails
    <2>1. Writ(path, lay, now)'
      BY <1>1, <1>4, WritFails
    <2> QED
      BY <2>1
  <1>5. CASE Close \/ Abandon
    <2>1. UNCHANGED <<layout, framing, disk, framed, sent, ends, intact, failures, chunks, hand, wstate, wcount, first>>
      BY <1>5 DEF Close, Abandon, config, writer
    <2>2. InPlace(path, lay)'
      BY <1>1, <2>1, StillInPlace DEF Writ
    <2>3. Underway(path, now)'
      <3>1. PICK em : em = EmissionOf(intact + 1, hand.raw)
        OBVIOUS
      <3>2. EmissionOf(intact + 1, hand.raw)' = em
        BY <2>1, <3>1 DEF EmissionOf, Segmented, Pieces, Most
      <3>3. \A k : Laid(em, now, k)' <=> Laid(em, now, k)
        BY <1>1, <2>1 DEF Laid, Holds
      <3>4. EndOf(intact)' = EndOf(intact)
        BY <2>1 DEF EndOf
      <3>5. Takes(wstate, wcount, hand.record, hand.raw, hand.to)' <=> Takes(wstate, wcount, hand.record, hand.raw, hand.to)
        BY <2>1 DEF Takes, Leaving, Fits, Statable
      <3> QED
        BY <1>1, <2>1, <3>1, <3>2, <3>3, <3>4, <3>5 DEF Writ, Underway, WroteOn
    <2> QED
      BY <2>2, <2>3 DEF Writ
  <1> QED
    BY <1>2, <1>3, <1>4, <1>5 DEF Writing

(* A byte that changes moves nothing.                                        *)
LEMMA WritDamage ==
    ASSUME Typed, Typed', Damage, NEW path, NEW lay, NEW now, Writ(path, lay, now)
    PROVE  Writ(path, lay, now)'
  <1>1. PICK i \in DOMAIN disk : \E b \in Damages \ {disk[i]} :
          disk' = [disk EXCEPT ![i] = b] /\ damaged' = i
    BY DEF Damage
  <1>2. PICK b \in Damages : disk' = [disk EXCEPT ![i] = b] /\ damaged' = i
    BY <1>1
  <1>3. disk \in Seq(Byte) /\ Len(disk) \in Nat /\ Len(disk') = Len(disk) /\ damaged = 0 /\ chunks = <<>>
    BY TypedDamage DEF Damage, Typed, FileTyped
  <1>4. UNCHANGED <<layout, framing, framed, sent, ends, intact, failures, chunks, hand, wstate, wcount, first>>
    BY DEF Damage, config, writer
  <1>5. Stays
    <2>1. \A p \in 1 .. Len(disk) : p = damaged' \/ (p # damaged /\ disk'[p] = disk[p])
      BY <1>2, <1>3
    <2> QED
      BY <1>3, <1>4, <2>1 DEF Stays
  <1>6. InPlace(path, lay)'
    BY <1>4, <1>5, InPlaceStays DEF Writ
  <1>7. Underway(path, now)'
    BY <1>3, <1>4 DEF Writ, Underway, EndOf, WroteOn
  <1> QED
    BY <1>6, <1>7 DEF Writ

-----------------------------------------------------------------------------
(* The reader. As long as a record came to no harm, it is read from where it *)
(* was written, in the state and with the count the writer had; where        *)
(* lengths are stated it keeps its place past a record that did.             *)

(* The records that the reader keeps step with: those of which no byte was   *)
(* damaged and, where the framing states lengths, all if no framing was.     *)
InStep ==
    {i \in 1 .. intact : \/ damaged = 0
                         \/ ends[i] < damaged
                         \/ Bounded(framing) /\ damaged \notin framed}

(* The record in hand.                                                       *)
Nth == Len(got) + 1

OnPath(path, n) == rstate = path[n].state /\ rcount = path[n].count

(* A separator is looked for in front of every record but the first.         *)
Separates == framing.how = "separator" => (rfirst <=> Len(got) = 0)

Handed ==
    \A i \in InStep \cap DOMAIN got :
        /\ got[i].at = EndOf(i - 1)
        /\ Len(got[i].raw) = Len(sent[i].raw)
        /\ i \in Sound => Record(i) = sent[i]

Between(path) ==
    phase = "boundary" /\ Len(got) \in {0} \cup InStep =>
        /\ pos = EndOf(Len(got))
        /\ Len(got) \in {0} \cup Sound => OnPath(path, Len(got))
        /\ Separates

Begun(path) ==
    phase \notin {"boundary", "over"} /\ Nth \in InStep =>
        /\ taken.at = EndOf(Len(got))
        /\ Nth \in Sound => OnPath(path, Len(got))

Leads(lay) ==
    phase = "leading" /\ Nth \in InStep =>
        /\ framing.how # "segmented" => pos = EndOf(Len(got)) /\ data = <<>>
        /\ Separates
        /\ framing.how = "segmented" =>
              \E k \in 0 .. Len(Pieces(sent[Nth].raw)) - 1 :
                  /\ pos = lay[Nth][2 * k]
                  /\ Len(data) = k * Most
                  /\ Nth \in Sound => \A p \in 1 .. Len(data) : data[p] = sent[Nth].raw[p]

Selects ==
    phase \in {"selecting", "admitting"} /\ Nth \in InStep =>
        /\ Bounded(framing) => /\ pos = EndOf(Nth)
                               /\ Len(data) = Len(sent[Nth].raw)
                               /\ Nth \in Sound => data = sent[Nth].raw
        /\ ~ Bounded(framing) => pos = StartOf(Nth, EndOf(Len(got)))

Looks ==
    phase = "selecting" /\ Nth \in InStep =>
        /\ Bounded(framing) => look = data
        /\ ~ Bounded(framing) =>
              /\ Lookahead(layout) \in Nat
              /\ \A q \in 1 .. Lookahead(layout) :
                    pos + q <= Len(disk) => q <= Len(look) /\ look[q] = disk[pos + q]

Admits(path) ==
    phase \in {"admitting", "trailing"} /\ Nth \in Sound =>
        taken.record = sent[Nth].record /\ taken.to = path[Nth].state

Finishes(path) ==
    phase = "trailing" /\ Nth \in InStep =>
        /\ Len(taken.raw) = Len(sent[Nth].raw)
        /\ Nth \in Sound => taken.raw = sent[Nth].raw
        /\ pos = IF Bounded(framing) THEN EndOf(Nth)
                                     ELSE StartOf(Nth, EndOf(Len(got))) + Len(sent[Nth].raw)

(* The first record has been begun.                                          *)
Opened == framing.how = "separator" /\ phase \in {"selecting", "admitting", "trailing"} => ~ rfirst

(* The whole file is there and as it was written.                            *)
Clean == ended = "closed" /\ damaged = 0 /\ failures = 0

Finds ==
    /\ phase = "over" => Nth \notin Sound
    /\ Clean => /\ Len(got) <= intact
                /\ Len(got) = intact => /\ phase \in {"boundary", "over"}
                                        /\ phase = "over" => said = "eof"

Follows(path, lay) ==
    /\ Handed /\ Between(path) /\ Begun(path) /\ Leads(lay) /\ Selects /\ Looks
    /\ Admits(path) /\ Finishes(path) /\ Opened /\ Finds

-----------------------------------------------------------------------------

(* A reader that has not begun is at the start of the file.                  *)
LEMMA FollowsFromStart ==
    ASSUME Typed, ReaderInit, NEW path, NEW lay, InPlace(path, lay)
    PROVE  Follows(path, lay)
  <1>1. /\ pos = 0 /\ phase = "boundary" /\ rstate = layout.start /\ rcount = Unbound
        /\ rfirst = TRUE /\ got = <<>>
    BY DEF ReaderInit
  <1>2. Len(got) = 0 /\ DOMAIN got = {} /\ EndOf(0) = 0 /\ intact \in Nat
    BY <1>1 DEF EndOf, Typed, WriterTyped
  <1>3. path[0].state = layout.start /\ path[0].count = Unbound
    BY DEF InPlace
  <1> QED
    BY <1>1, <1>2, <1>3 DEF Follows, Handed, Between, Begun, Leads, Selects, Looks, Admits, Finishes, Opened, Finds,
                            OnPath, Separates

(* What the writer left of a record the reader keeps step with.              *)
LEMMA InStepIs ==
    ASSUME Typed, NEW path, NEW lay, InPlace(path, lay), NEW i \in InStep
    PROVE  /\ i \in 1 .. intact /\ i \in Nat /\ i - 1 \in 0 .. intact
           /\ sent[i].raw \in Seq(Byte) /\ Len(sent[i].raw) >= 1 /\ sent[i].record \in RecordType
           /\ TakenAt(i, path)
           /\ Whole(EmissionOf(i, sent[i].raw), lay[i])
           /\ lay[i][0] = EndOf(i - 1) /\ lay[i][Len(EmissionOf(i, sent[i].raw))] = EndOf(i)
           /\ EndOf(i - 1) \in Nat /\ EndOf(i) \in Nat /\ EndOf(i) <= Len(disk)
           /\ i \in Sound => \A p \in 1 .. EndOf(i) : p # damaged
           /\ ~ Bounded(framing) => i \in Sound
           /\ \A p \in framed : p <= EndOf(i) => p # damaged \/ p = 0
  <1>1. i \in 1 .. intact /\ intact \in Nat /\ Len(disk) \in Nat /\ damaged \in Nat
    BY DEF InStep, Typed, FileTyped, WriterTyped
  <1>2. i \in Nat /\ i # 0 /\ i - 1 \in 0 .. intact /\ i \in 0 .. intact
    BY <1>1
  <1>3. TakenAt(i, path) /\ Placed(i, lay)
    BY <1>1 DEF InPlace
  <1>4. sent[i].raw \in Seq(Byte) /\ Len(sent[i].raw) >= 1 /\ sent[i].record \in RecordType
    BY <1>3, TakenRecord DEF TakenAt, Typed, FileTyped
  <1>5. EndOf(i - 1) \in Nat /\ EndOf(i) \in Nat /\ EndOf(i) <= Len(disk)
    BY <1>1, <1>2 DEF InPlace
  <1>6. EndOf(i) = ends[i]
    BY <1>2 DEF EndOf
  <1>7. i \in Sound => \A p \in 1 .. EndOf(i) : p # damaged
    BY <1>1, <1>5, <1>6 DEF Sound
  <1>8. ~ Bounded(framing) => i \in Sound
    BY <1>1 DEF InStep, Sound
  <1>9. ASSUME NEW p \in framed, p <= EndOf(i), p = damaged, p # 0 PROVE FALSE
    BY <1>1, <1>5, <1>6, <1>9 DEF InStep
  <1> QED
    BY <1>1, <1>2, <1>3, <1>4, <1>5, <1>7, <1>8, <1>9 DEF Placed

(* What comes before a record the reader keeps step with.                    *)
LEMMA Downward ==
    ASSUME Typed, NEW path, NEW lay, InPlace(path, lay), NEW i \in Nat, i + 1 \in InStep
    PROVE  /\ i \in {0} \cup InStep
           /\ i + 1 \in Sound => i \in {0} \cup Sound
  <1>1. CASE i = 0
    BY <1>1
  <1>2. CASE i # 0
    <2>1. i + 1 \in 1 .. intact /\ intact \in Nat /\ damaged \in Nat
      BY DEF InStep, Typed, FileTyped, WriterTyped
    <2>2. i \in 1 .. intact /\ i \in 0 .. intact /\ i + 1 \in 0 .. intact /\ i <= i + 1 /\ i + 1 # 0
      BY <1>2, <2>1
    <2>3. EndOf(i) <= EndOf(i + 1) /\ EndOf(i) \in Nat /\ EndOf(i + 1) \in Nat
      BY <2>2 DEF InPlace
    <2>4. ends[i] <= ends[i + 1] /\ ends[i] \in Nat /\ ends[i + 1] \in Nat
      BY <1>2, <2>2, <2>3 DEF EndOf
    <2>5. ends[i + 1] < damaged => ends[i] < damaged
      BY <2>1, <2>4
    <2> QED
      BY <2>2, <2>5 DEF InStep, Sound
  <1> QED
    BY <1>1, <1>2

(* The reader keeps step with what came to no harm.                          *)
LEMMA SoundInStep == Sound \subseteq InStep
  BY DEF Sound, InStep

(* What reading leaves as it is.                                             *)
LEMMA ReadingKeeps ==
    ASSUME Reading
    PROVE  /\ InStep' = InStep /\ Sound' = Sound /\ Clean' = Clean
           /\ \A i : EndOf(i)' = EndOf(i)
           /\ \A i, b : StartOf(i, b)' = StartOf(i, b)
           /\ \A raw : Pieces(raw)' = Pieces(raw)
           /\ Most' = Most
           /\ UNCHANGED <<layout, framing, disk, ended, sent, ends, intact, framed, damaged, wstate, failures, chunks>>
  <1>1. UNCHANGED <<layout, framing, disk, ended, sent, ends, intact, framed, damaged, wstate, failures, chunks>>
    BY DEF Reading, config, writer
  <1>2. InStep' = InStep /\ Sound' = Sound /\ Clean' = Clean
    BY <1>1 DEF InStep, Sound, Clean
  <1> QED
    BY <1>1, <1>2 DEF EndOf, StartOf, Pieces, Most

(* A record takes room in the file.                                          *)
LEMMA TakesRoom ==
    ASSUME Typed, NEW path, NEW lay, InPlace(path, lay), NEW i \in InStep
    PROVE  EndOf(i - 1) < EndOf(i)
  <1> DEFINE raw == sent[i].raw
             at == lay[i]
             em == EmissionOf(i, raw)
  <1>1. /\ framing \in Framings /\ framing.how \in How
    BY FramingsAdmitted DEF Typed, FileTyped, Admissible
  <1>2. /\ raw \in Seq(Byte) /\ Len(raw) >= 1 /\ Len(raw) \in Nat /\ Whole(em, at)
        /\ at[0] = EndOf(i - 1) /\ at[Len(em)] = EndOf(i) /\ EndOf(i - 1) \in Nat /\ EndOf(i) \in Nat
    BY InStepIs
  <1>3. CASE framing.how = "word"
    <2>1. at[2] = at[0] + DescriptorWidth + Len(raw) /\ Len(em) = 2
      BY <1>2, <1>3, WordShape
    <2> HIDE DEF raw, at, em
    <2>2. EndOf(i) = EndOf(i - 1) + DescriptorWidth + Len(raw)
      BY <1>2, <2>1
    <2> QED
      BY <1>2, <2>2 DEF DescriptorWidth
  <1>4. CASE framing.how = "segmented"
    <2> DEFINE n == Len(Pieces(raw))
    <2>1. n \in Nat \ {0} /\ Len(em) = 2 * n /\ at[2 * n] = at[2 * (n - 1)] + DescriptorWidth + Len(Pieces(raw)[n])
      <3>1. n \in Nat \ {0} /\ Len(em) = 2 * n /\ \A j \in 1 .. n : at[2 * j] = at[2 * (j - 1)] + DescriptorWidth + Len(Pieces(raw)[j])
        <4> HIDE DEF raw, at
        <4>1. raw \in Seq(Byte) /\ Len(raw) >= 1 /\ Whole(EmissionOf(i, raw), at)
          BY <1>2
        <4> QED
          BY <1>1, <1>4, <4>1, SegmentShape
      <3> HIDE DEF n, at, em
      <3> QED
        BY <3>1
    <2>2. Len(Pieces(raw)[n]) \in Nat
      <3>1. n \in 1 .. n
        BY <2>1
      <3>2. Pieces(raw)[n] \in Seq(Byte)
        BY <1>1, <1>2, <1>4, <3>1, PiecesCover
      <3> QED
        BY <3>2
    <2>3. at[2 * (n - 1)] \in Nat /\ at[0] <= at[2 * (n - 1)]
      <3>1. 2 * (n - 1) \in 0 .. 2 * n
        BY <2>1
      <3> HIDE DEF n, at, em
      <3> QED
        BY <1>2, <2>1, <3>1 DEF Whole, Laid
    <2>4. EndOf(i) = at[2 * (n - 1)] + DescriptorWidth + Len(Pieces(raw)[n])
      <3> HIDE DEF n, at, em
      <3> QED
        BY <1>2, <2>1
    <2> DEFINE a == at[2 * (n - 1)]
               b == Len(Pieces(raw)[n])
    <2>5. a \in Nat /\ b \in Nat /\ EndOf(i - 1) <= a /\ EndOf(i) = a + DescriptorWidth + b
      BY <1>2, <2>2, <2>3, <2>4
    <2> HIDE DEF a, b
    <2> QED
      BY <1>2, <2>5 DEF DescriptorWidth
  <1>5. CASE Streamed
    <2>1. framing.delimiter \in Seq(Byte) /\ Len(framing.delimiter) \in Nat
      BY <1>1, FileTypes
    <2>2. at[Len(em)] = IF Trails THEN StartOf(i, at[0]) + Len(raw) + Len(framing.delimiter) ELSE StartOf(i, at[0]) + Len(raw)
      BY <1>1, <1>2, <1>5, StreamShape
    <2> HIDE DEF raw, at, em
    <2>3. EndOf(i) = IF Trails THEN StartOf(i, EndOf(i - 1)) + Len(raw) + Len(framing.delimiter) ELSE StartOf(i, EndOf(i - 1)) + Len(raw)
      BY <1>2, <2>2
    <2>4. StartOf(i, EndOf(i - 1)) \in Nat /\ EndOf(i - 1) <= StartOf(i, EndOf(i - 1))
      BY <1>2, <2>1 DEF StartOf
    <2> QED
      BY <1>2, <2>1, <2>3, <2>4
  <1> QED
    BY <1>1, <1>3, <1>4, <1>5 DEF How, Streamed

(* What a reader is told in the middle of a record.                          *)
LEMMA FollowsStop ==
    ASSUME Typed, Reading, NEW path, NEW lay, Follows(path, lay),
           phase \notin {"boundary", "over"}, Nth \notin Sound, NEW what, Ends(what)
    PROVE  Follows(path, lay)'
  <1>1. /\ InStep' = InStep /\ Sound' = Sound /\ Clean' = Clean /\ \A i : EndOf(i)' = EndOf(i)
        /\ UNCHANGED <<framing, sent, intact>>
    BY ReadingKeeps
  <1>2. phase' = "over" /\ got' = got
    BY DEF Ends
  <1>3. Handed'
    BY <1>1, <1>2 DEF Follows, Handed, Record
  <1>4. Finds'
    BY <1>1, <1>2 DEF Follows, Finds, Nth
  <1> QED
    BY <1>1, <1>2, <1>3, <1>4 DEF Follows, Between, Begun, Leads, Selects, Looks, Admits, Finishes, Opened

(* The input ends at a record only where no sound record is left to read,    *)
(* and where the writer closed the file, in a state that accepts.            *)
LEMMA FollowsEndOfInput ==
    ASSUME Typed, Reading, NEW path, NEW lay, NEW now, Writ(path, lay, now), Follows(path, lay), EndOfInput
    PROVE  Follows(path, lay)'
  <1>1. /\ InStep' = InStep /\ Sound' = Sound /\ Clean' = Clean /\ \A i : EndOf(i)' = EndOf(i)
        /\ UNCHANGED <<framing, sent, intact>>
    BY ReadingKeeps
  <1>2. phase = "boundary" /\ phase' = "over" /\ got' = got /\ Left = 0 /\ pos = Len(disk) /\ Len(disk) \in Nat
    BY DEF EndOfInput, Ends, Left, Typed, FileTyped, ReaderTyped
  <1>3. Handed'
    BY <1>1, <1>2 DEF Follows, Handed, Record
  <1>4. Len(got) \in Nat
    BY DEF Typed, ReaderTyped
  <1>5. ASSUME Nth \in Sound PROVE FALSE
    <2>1. Nth \in InStep
      BY <1>5, SoundInStep
    <2>2. Len(got) \in {0} \cup InStep
      BY <1>4, <2>1, Downward DEF Nth, Writ
    <2>3. pos = EndOf(Len(got))
      BY <1>2, <2>2 DEF Follows, Between
    <2>4. Nth - 1 = Len(got)
      BY <1>4 DEF Nth
    <2>5. EndOf(Len(got)) < EndOf(Nth) /\ EndOf(Nth) <= Len(disk) /\ EndOf(Nth) \in Nat /\ EndOf(Nth - 1) \in Nat
      <3>1. EndOf(Nth - 1) < EndOf(Nth)
        BY <2>1, TakesRoom DEF Writ
      <3>2. EndOf(Nth) <= Len(disk) /\ EndOf(Nth) \in Nat /\ EndOf(Nth - 1) \in Nat
        BY <2>1, InStepIs DEF Writ
      <3> QED
        BY <2>4, <3>1, <3>2
    <2> QED
      BY <1>2, <2>3, <2>4, <2>5
  <1>6. ASSUME Clean PROVE Len(got) <= intact /\ (Len(got) = intact => said' = "eof")
    <2>1. Len(got) <= intact /\ intact \in Nat
      BY <1>6 DEF Follows, Finds, Typed, WriterTyped
    <2>2. ASSUME Len(got) = intact PROVE said' = "eof"
      <3>1. Len(got) \in {0} \cup Sound /\ Len(got) \in {0} \cup InStep
        BY <1>4, <1>6, <2>1, <2>2 DEF Clean, InStep, Sound
      <3>2. rstate = path[intact].state
        BY <1>2, <2>2, <3>1 DEF Follows, Between, OnPath
      <3>3. wstate = path[intact].state /\ wstate \in layout.accepting
        BY <1>6 DEF Clean, Writ, Underway, Typed, FileTyped
      <3> QED
        BY <3>2, <3>3 DEF EndOfInput, Ends
    <2> QED
      BY <2>1, <2>2
  <1>7. Finds'
    BY <1>1, <1>2, <1>5, <1>6 DEF Finds, Nth
  <1> QED
    BY <1>1, <1>2, <1>3, <1>7 DEF Follows, Between, Begun, Leads, Selects, Looks, Admits, Finishes, Opened

(* The framing of a record begins where the record before it ended.          *)
LEMMA FollowsAtRecord ==
    ASSUME Typed, Reading, NEW path, NEW lay, NEW now, Writ(path, lay, now), Follows(path, lay), AtRecord
    PROVE  Follows(path, lay)'
  <1>1. /\ InStep' = InStep /\ Sound' = Sound /\ Clean' = Clean /\ \A i : EndOf(i)' = EndOf(i)
        /\ Most' = Most /\ \A raw : Pieces(raw)' = Pieces(raw)
        /\ UNCHANGED <<framing, sent, intact>>
    BY ReadingKeeps
  <1>2. /\ phase = "boundary" /\ phase' = "leading" /\ Left > 0 /\ data' = <<>>
        /\ taken' = [NothingTaken EXCEPT !.at = pos]
        /\ UNCHANGED <<pos, rstate, rcount, rfirst, got>>
    BY DEF AtRecord
  <1>3. taken'.at = pos
    BY <1>2 DEF NothingTaken
  <1>4. Len(got) \in Nat /\ Nth' = Nth /\ Nth - 1 = Len(got)
    BY <1>2 DEF Typed, ReaderTyped, Nth
  <1>5. Handed'
    BY <1>1, <1>2 DEF Follows, Handed, Record
  <1>6. ASSUME Nth \in InStep
        PROVE  /\ pos = EndOf(Len(got)) /\ Separates
               /\ Nth \in Sound => OnPath(path, Len(got))
               /\ lay[Nth][2 * 0] = EndOf(Len(got))
               /\ framing.how = "segmented" => 0 \in 0 .. Len(Pieces(sent[Nth].raw)) - 1 /\ 0 * Most = 0
    <2>1. Len(got) \in {0} \cup InStep /\ (Nth \in Sound => Len(got) \in {0} \cup Sound)
      BY <1>4, <1>6, Downward DEF Nth, Writ
    <2>2. lay[Nth][0] = EndOf(Len(got)) /\ sent[Nth].raw \in Seq(Byte) /\ Len(sent[Nth].raw) >= 1
      BY <1>4, <1>6, InStepIs DEF Writ
    <2>3. framing.how = "segmented" => Len(Pieces(sent[Nth].raw)) \in Nat \ {0} /\ Most \in Nat
      BY <2>2, PiecesCover, MostTyped DEF Typed, FileTyped
    <2>4. 2 * 0 = 0
      OBVIOUS
    <2>5. framing.how = "segmented" => 0 \in 0 .. Len(Pieces(sent[Nth].raw)) - 1 /\ 0 * Most = 0
      BY <2>3
    <2> QED
      BY <1>2, <2>1, <2>2, <2>4, <2>5 DEF Follows, Between
  <1>7. Begun(path)'
    BY <1>1, <1>2, <1>3, <1>4, <1>6 DEF Begun, OnPath
  <1>8. Leads(lay)'
    <2>1. ASSUME Nth \in InStep
          PROVE  /\ framing.how # "segmented" => pos = EndOf(Len(got)) /\ data' = <<>>
                 /\ Separates'
                 /\ framing.how = "segmented" =>
                      \E k \in 0 .. Len(Pieces(sent[Nth].raw)) - 1 :
                         /\ pos = lay[Nth][2 * k]
                         /\ Len(data') = k * Most
                         /\ Nth \in Sound => \A p \in 1 .. Len(data') : data'[p] = sent[Nth].raw[p]
      <3>1. Len(data') = 0
        BY <1>2
      <3>2. Separates'
        BY <1>1, <1>2, <1>6, <2>1 DEF Separates
      <3>3. ASSUME framing.how = "segmented"
            PROVE  /\ 0 \in 0 .. Len(Pieces(sent[Nth].raw)) - 1
                   /\ pos = lay[Nth][2 * 0] /\ Len(data') = 0 * Most
                   /\ \A p \in 1 .. Len(data') : data'[p] = sent[Nth].raw[p]
        BY <1>6, <2>1, <3>1, <3>3
      <3> QED
        BY <1>2, <1>6, <2>1, <3>2, <3>3
    <2> QED
      BY <1>1, <1>2, <1>4, <2>1 DEF Leads
  <1>9. Finds'
    <2>1. ASSUME Clean PROVE Len(got) <= intact /\ Len(got) # intact
      <3>1. Len(got) <= intact /\ intact \in Nat
        BY <2>1 DEF Follows, Finds, Typed, WriterTyped
      <3>2. ASSUME Len(got) = intact PROVE FALSE
        <4>1. Len(got) \in {0} \cup InStep
          BY <1>4, <2>1, <3>1, <3>2 DEF Clean, InStep
        <4>2. pos = EndOf(intact)
          BY <1>2, <3>2, <4>1 DEF Follows, Between
        <4>3. Len(disk) = EndOf(intact)
          BY <2>1 DEF Clean, Writ, Underway, Typed, FileTyped
        <4> QED
          BY <1>2, <4>2, <4>3 DEF Left, Typed, FileTyped
      <3> QED
        BY <3>1, <3>2
    <2> QED
      BY <1>1, <1>2, <2>1 DEF Finds
  <1> QED
    BY <1>1, <1>2, <1>5, <1>7, <1>8, <1>9 DEF Follows, Between, Selects, Looks, Admits, Finishes, Opened

(* A step inside a record.                                                   *)
LEMMA FollowsWithin ==
    ASSUME Typed, Reading, NEW path, NEW lay, Follows(path, lay),
           phase \notin {"boundary", "over"}, phase' \notin {"boundary", "over"},
           UNCHANGED <<rstate, rcount, got>>, taken'.at = taken.at
    PROVE  Handed' /\ Between(path)' /\ Begun(path)' /\ Finds' /\ Nth' = Nth
  <1>1. /\ InStep' = InStep /\ Sound' = Sound /\ Clean' = Clean /\ \A i : EndOf(i)' = EndOf(i)
        /\ UNCHANGED <<framing, sent, intact>>
    BY ReadingKeeps
  <1>2. Handed'
    BY <1>1 DEF Follows, Handed, Record
  <1>3. Between(path)'
    BY DEF Between
  <1>4. Begun(path)'
    BY <1>1 DEF Follows, Begun, Nth, OnPath
  <1>5. Finds'
    BY <1>1 DEF Follows, Finds
  <1> QED
    BY <1>2, <1>3, <1>4, <1>5 DEF Nth

(* Sequences of the same bytes.                                              *)
LEMMA SameBytes ==
    ASSUME NEW s \in Seq(Byte), NEW t \in Seq(Byte), Len(s) = Len(t), \A p \in 1 .. Len(t) : s[p] = t[p]
    PROVE  s = t
  BY SeqEqual

(* A word that nothing changed is the one that was written, and the record   *)
(* all of what it states.                                                    *)
LEMMA FollowsLeadingWord ==
    ASSUME Typed, Reading, NEW path, NEW lay, NEW now, Writ(path, lay, now), Follows(path, lay), LeadingWord
    PROVE  Follows(path, lay)'
  <1>1. /\ InStep' = InStep /\ Sound' = Sound /\ Clean' = Clean /\ \A i : EndOf(i)' = EndOf(i)
        /\ UNCHANGED <<framing, sent, intact>>
    BY ReadingKeeps
  <1>2. phase = "leading" /\ framing.how = "word" /\ Bounded(framing)
    BY DEF LeadingWord, Leading, Bounded
  <1>3. InPlace(path, lay) /\ Len(got) \in Nat /\ Nth - 1 = Len(got)
    BY DEF Writ, Typed, ReaderTyped, Nth
  <1>4. ASSUME Nth \in InStep
        PROVE  /\ Stated(Ahead(DescriptorWidth)) = Len(sent[Nth].raw) + DescriptorWidth
               /\ GoodWord /\ ~ BadWord
               /\ pos + Stated(Ahead(DescriptorWidth)) = EndOf(Nth)
               /\ Len(Filled) = Len(sent[Nth].raw)
               /\ Nth \in Sound => Filled = sent[Nth].raw
    <2>1. PICK raw, at : raw = sent[Nth].raw /\ at = lay[Nth]
      OBVIOUS
    <2>2. /\ raw \in Seq(Byte) /\ Len(raw) \in Nat /\ Whole(EmissionOf(Nth, raw), at)
          /\ at[0] = EndOf(Len(got)) /\ at[Len(EmissionOf(Nth, raw))] = EndOf(Nth)
          /\ EndOf(Nth) \in Nat /\ EndOf(Nth) <= Len(disk)
          /\ Nth \in Sound => \A p \in 1 .. EndOf(Nth) : p # damaged
          /\ \A p \in framed : p <= EndOf(Nth) => p # damaged \/ p = 0
          /\ TakenAt(Nth, path)
      BY <1>3, <1>4, <2>1, InStepIs
    <2>3. pos = at[0] /\ data = <<>>
      BY <1>2, <1>4, <2>2 DEF Follows, Leads
    <2>4. PICK n : n = Len(raw) + DescriptorWidth
      OBVIOUS
    <2>5. n \in Nat /\ DescriptorWidth <= n /\ n <= MaxStated /\ n - DescriptorWidth = Len(raw)
      BY <1>2, <2>1, <2>2, <2>4 DEF TakenAt, Takes, Statable, DescriptorWidth
    <2>6. /\ at[0] \in Nat
          /\ at[2] = at[0] + DescriptorWidth + Len(raw)
          /\ Len(EmissionOf(Nth, raw)) = 2
          /\ Holds(at[0], Word(n, 0))
          /\ at[0] + 1 .. at[0] + DescriptorWidth \subseteq framed
          /\ Holds(at[0] + DescriptorWidth, raw)
      BY <1>2, <2>2, <2>4, WordShape
    <2>7. EndOf(Nth) = pos + n /\ pos \in Nat
      BY <2>2, <2>3, <2>4, <2>5, <2>6 DEF DescriptorWidth
    <2>8. damaged \notin pos + 1 .. pos + DescriptorWidth
      <3>1. \A p \in pos + 1 .. pos + DescriptorWidth : p \in framed /\ p <= EndOf(Nth) /\ p # 0
        BY <2>3, <2>5, <2>6, <2>7 DEF DescriptorWidth
      <3> QED
        BY <2>2, <3>1
    <2>9. disk \in Seq(Byte) /\ pos \in 0 .. Len(disk) /\ 0 \in Byte
      <3>1. disk \in Seq(Byte) /\ pos \in 0 .. Len(disk)
        BY DEF Typed, FileTyped, ReaderTyped
      <3>2. 0 \in Byte
        BY Bytes
      <3> QED
        BY <3>1, <3>2
    <2>10. Stated(Ahead(DescriptorWidth)) = n /\ GoodWord
      BY <2>2, <2>3, <2>5, <2>6, <2>7, <2>8, <2>9, WordRead
    <2>11. ~ BadWord
      BY <2>9, <2>10, NotBad DEF Left
    <2>12. /\ Filled \in Seq(Byte)
           /\ Len(Filled) = Len(data) + (n - DescriptorWidth)
           /\ \A p \in 1 .. n - DescriptorWidth : Filled[Len(data) + p] = disk[pos + DescriptorWidth + p]
      BY <2>10, FilledIs
    <2>13. Len(data) = 0 /\ Len(Filled) = Len(raw) /\ \A p \in 1 .. Len(raw) : Filled[p] = disk[pos + DescriptorWidth + p]
      <3>1. Len(data) = 0
        BY <2>3
      <3>2. \A p \in 1 .. Len(raw) : 0 + p = p
        BY <2>2
      <3> QED
        BY <2>2, <2>5, <2>12, <3>1, <3>2
    <2>14. ASSUME Nth \in Sound PROVE Filled = raw
      <3>1. ASSUME NEW p \in 1 .. Len(raw) PROVE Filled[p] = raw[p]
        <4>1. pos + DescriptorWidth + p \in 1 .. EndOf(Nth)
          BY <2>2, <2>4, <2>7 DEF DescriptorWidth
        <4>2. pos + DescriptorWidth + p # damaged
          BY <2>2, <2>14, <4>1
        <4> QED
          BY <2>3, <2>6, <2>13, <4>2 DEF Holds
      <3> QED
        BY <2>2, <2>12, <2>13, <3>1, SameBytes
    <2> QED
      BY <2>1, <2>4, <2>7, <2>10, <2>11, <2>13, <2>14
  <1>5. CASE BadWord
    <2>1. Nth \notin Sound
      BY <1>4, <1>5, SoundInStep
    <2> QED
      BY <1>2, <1>5, <2>1, FollowsStop DEF BadWord
  <1>6. CASE GoodWord /\ data' = Filled /\ pos' = pos + Stated(Ahead(DescriptorWidth)) /\ Bounds(Filled)
    <2>1. phase' = "selecting" /\ look' = Filled /\ UNCHANGED <<rstate, rcount, rfirst, taken, got>>
      BY <1>6 DEF Bounds
    <2>2. Handed' /\ Between(path)' /\ Begun(path)' /\ Finds' /\ Nth' = Nth
      BY <1>2, <2>1, FollowsWithin
    <2>3. Selects'
      BY <1>1, <1>2, <1>4, <1>6, <2>1, <2>2 DEF Selects, Bounded
    <2>4. Looks'
      BY <1>1, <1>2, <1>6, <2>1 DEF Looks, Bounded
    <2> QED
      BY <1>1, <1>2, <2>1, <2>2, <2>3, <2>4 DEF Follows, Leads, Admits, Finishes, Opened
  <1> QED
    BY <1>5, <1>6 DEF LeadingWord

(* The codes of a segment are bytes.                                         *)
LEMMA SmallBytes == 0 \in Byte /\ 1 \in Byte /\ 2 \in Byte /\ 3 \in Byte
  BY DEF Byte

(* A segment's length is stated with that of its word, ...                   *)
LEMMA WordAndPiece ==
    \A l, most, at \in Nat : l <= most /\ most + 4 <= MaxStated =>
        l + 4 \in Nat /\ 4 <= l + 4 /\ l + 4 <= MaxStated /\ (l + 4) - 4 = l /\ at + (l + 4) = at + 4 + l
  BY TwoBytes

(* ... its data lies behind the word, ...                                    *)
LEMMA InPiece ==
    ASSUME NEW l \in Nat, NEW at \in Nat, NEW q \in 1 .. l
    PROVE  at + 4 + q \in 1 .. at + 4 + l
  OBVIOUS

(* ... and the word inside the segment.                                      *)
LEMMA InWord ==
    \A at, l \in Nat : \A p \in at + 1 .. at + 4 : p <= at + 4 + l /\ p # 0
  OBVIOUS

(* Piece j of a record as the file holds it.                                 *)
LEMMA SegmentOf ==
    ASSUME framing \in Framings, framing.how = "segmented",
           NEW raw \in Seq(Byte), Len(raw) >= 1, NEW i, NEW at, Whole(EmissionOf(i, raw), at),
           NEW n, n = Len(Pieces(raw)), NEW j \in 1 .. n
    PROVE  /\ at[2 * (j - 1)] \in Nat
           /\ at[2 * j] = at[2 * (j - 1)] + DescriptorWidth + Len(Pieces(raw)[j])
           /\ at[2 * j] <= Len(disk)
           /\ Holds(at[2 * (j - 1)], Word(Len(Pieces(raw)[j]) + DescriptorWidth, Code(j, n)))
           /\ at[2 * (j - 1)] + 1 .. at[2 * (j - 1)] + DescriptorWidth \subseteq framed
           /\ Holds(at[2 * (j - 1)] + DescriptorWidth, Pieces(raw)[j])
  <1>1. \A k \in 1 .. Len(Pieces(raw)) :
           /\ at[2 * (k - 1)] \in Nat
           /\ at[2 * k] = at[2 * (k - 1)] + DescriptorWidth + Len(Pieces(raw)[k])
           /\ at[2 * k] <= Len(disk)
           /\ Holds(at[2 * (k - 1)], Word(Len(Pieces(raw)[k]) + DescriptorWidth, Code(k, Len(Pieces(raw)))))
           /\ at[2 * (k - 1)] + 1 .. at[2 * (k - 1)] + DescriptorWidth \subseteq framed
           /\ Holds(at[2 * (k - 1)] + DescriptorWidth, Pieces(raw)[k])
    BY SegmentShape
  <1> QED
    BY <1>1

(* How much of a record its first j pieces hold, all but the last as many as fit. *)
InFirst(j) == j * Most

(* A segment that is read where it was put adds its piece to the record.     *)
LEMMA SegmentFilled ==
    ASSUME Typed, SegmentsStatable, framing.how = "segmented",
           NEW raw \in Seq(Byte), Len(raw) >= 1, NEW i, NEW at, Whole(EmissionOf(i, raw), at),
           NEW n, n = Len(Pieces(raw)), NEW j \in 1 .. n,
           pos = at[2 * (j - 1)], Len(data) = InFirst(j - 1),
           \A p \in framed : p <= at[2 * j] => p # damaged \/ p = 0
    PROVE  /\ GoodWord
           /\ Ahead(DescriptorWidth)[3] = Code(j, n)
           /\ data = <<>> <=> j = 1
           /\ pos + Stated(Ahead(DescriptorWidth)) = at[2 * j]
           /\ Filled \in Seq(Byte)
           /\ Len(Filled) = IF j = n THEN Len(raw) ELSE InFirst(j)
           /\ (\A p \in 1 .. Len(data) : data[p] = raw[p]) /\ (\A p \in 1 .. at[2 * j] : p # damaged)
                 => \A p \in 1 .. Len(Filled) : Filled[p] = raw[p]
  <1>1. framing \in Framings /\ disk \in Seq(Byte) /\ pos \in 0 .. Len(disk) /\ data \in Seq(Byte)
    BY DEF Typed, FileTyped, ReaderTyped
  <1>2. n \in Nat \ {0} /\ j \in Nat \ {0} /\ j <= n
    BY <1>1, SegmentShape
  <1>3. PICK piece : piece = Pieces(raw)[j]
    OBVIOUS
  <1>4. PICK m : m = Len(piece) + DescriptorWidth
    OBVIOUS
  <1>5. PICK code : code = Code(j, n)
    OBVIOUS
  <1>6. PICK s : s = (j - 1) * Most
    OBVIOUS
  <1>7. PICK last : last = at[2 * j]
    OBVIOUS
  <1>8. Most \in Nat \ {0} /\ framing.segment = Most + DescriptorWidth
    BY <1>1, MostTyped
  <1>9. /\ piece \in Seq(Byte) /\ Len(piece) \in 1 .. Most /\ s \in Nat
        /\ j * Most = s + Most
        /\ j < n => Len(piece) = Most
        /\ j = n => s + Len(piece) = Len(raw)
        /\ \A p \in 1 .. Len(piece) : piece[p] = raw[s + p]
    BY <1>1, <1>3, <1>6, PiecesCover
  <1>10. /\ pos \in Nat
         /\ last = pos + DescriptorWidth + Len(piece)
         /\ last <= Len(disk)
         /\ Holds(pos, Word(m, code))
         /\ pos + 1 .. pos + DescriptorWidth \subseteq framed
         /\ Holds(pos + DescriptorWidth, piece)
    <2>1. /\ at[2 * (j - 1)] \in Nat
          /\ at[2 * j] = at[2 * (j - 1)] + DescriptorWidth + Len(Pieces(raw)[j])
          /\ at[2 * j] <= Len(disk)
          /\ Holds(at[2 * (j - 1)], Word(Len(Pieces(raw)[j]) + DescriptorWidth, Code(j, n)))
          /\ at[2 * (j - 1)] + 1 .. at[2 * (j - 1)] + DescriptorWidth \subseteq framed
          /\ Holds(at[2 * (j - 1)] + DescriptorWidth, Pieces(raw)[j])
      BY <1>1, SegmentOf
    <2> QED
      BY <1>3, <1>4, <1>5, <1>7, <2>1
  <1>11. code \in Byte
    <2>1. 0 \in Byte /\ 1 \in Byte /\ 2 \in Byte /\ 3 \in Byte
      BY SmallBytes
    <2> QED
      BY <1>5, <2>1 DEF Code
  <1>12. /\ m \in Nat /\ Len(piece) \in Nat /\ DescriptorWidth <= m /\ m <= MaxStated
         /\ m - DescriptorWidth = Len(piece) /\ pos + m = last
    <2>1. Len(piece) \in Nat /\ Len(piece) <= Most
      BY <1>8, <1>9
    <2>2. MaxStated \in Nat /\ Most + DescriptorWidth <= MaxStated
      BY <1>8, TwoBytes DEF SegmentsStatable
    <2>3. PICK l, most : l = Len(piece) /\ most = Most
      OBVIOUS
    <2>4. l \in Nat /\ most \in Nat /\ l <= most /\ m = l + 4 /\ most + 4 <= MaxStated /\ last = pos + 4 + l
      BY <1>4, <1>8, <1>10, <2>1, <2>2, <2>3 DEF DescriptorWidth
    <2>5. m \in Nat /\ 4 <= m /\ m <= MaxStated /\ m - 4 = l /\ pos + m = last
      <3>1. pos \in Nat
        BY <1>10
      <3> QED
        BY <2>4, <3>1, WordAndPiece, Zenon
    <2> QED
      BY <2>1, <2>3, <2>5 DEF DescriptorWidth
  <1>13. damaged \notin pos + 1 .. pos + DescriptorWidth
    <2>1. \A p \in pos + 1 .. pos + DescriptorWidth : p \in framed /\ p <= last /\ p # 0
      <3>1. PICK l : l = Len(piece)
        OBVIOUS
      <3>2. pos \in Nat /\ l \in Nat /\ last = pos + 4 + l /\ pos + 1 .. pos + 4 \subseteq framed
        BY <1>10, <1>12, <3>1 DEF DescriptorWidth
      <3>3. \A p \in pos + 1 .. pos + 4 : p \in framed /\ p <= last /\ p # 0
        BY <3>2, InWord, Zenon
      <3> QED
        BY <3>3 DEF DescriptorWidth
    <2> QED
      BY <1>7, <2>1
  <1>14. Stated(Ahead(DescriptorWidth)) = m /\ Ahead(DescriptorWidth)[3] = code /\ GoodWord
    <2>1. pos + m <= Len(disk)
      BY <1>10, <1>12
    <2> QED
      BY <1>1, <1>10, <1>11, <1>12, <1>13, <2>1, WordRead
  <1>15. /\ Filled \in Seq(Byte)
         /\ Len(Filled) = Len(data) + (m - DescriptorWidth)
         /\ \A p \in 1 .. Len(data) : Filled[p] = data[p]
         /\ \A p \in 1 .. m - DescriptorWidth : Filled[Len(data) + p] = disk[pos + DescriptorWidth + p]
    BY <1>14, FilledIs
  <1>16. PICK t : t = Filled
    OBVIOUS
  <1>17. /\ t \in Seq(Byte) /\ Len(t) = s + Len(piece)
         /\ \A p \in 1 .. s : t[p] = data[p]
         /\ \A p \in 1 .. Len(piece) : t[s + p] = disk[pos + DescriptorWidth + p]
    BY <1>6, <1>12, <1>15, <1>16 DEF InFirst
  <1>18. data = <<>> <=> j = 1
    <2>1. data = <<>> <=> Len(data) = 0
      BY <1>1
    <2>2. j = 1 => s = 0
      BY <1>6, <1>8
    <2>3. j # 1 => s # 0
      <3> SUFFICES ASSUME j # 1 PROVE s # 0
        OBVIOUS
      <3>1. j - 1 \in Nat \ {0}
        BY <1>2
      <3>2. PICK a, b : a = j - 1 /\ b = Most
        OBVIOUS
      <3>3. a \in Nat \ {0} /\ b \in Nat \ {0}
        BY <1>8, <3>1, <3>2
      <3>4. a * b # 0
        BY <3>3
      <3> QED
        BY <1>6, <3>2, <3>4
    <2> QED
      BY <1>6, <2>1, <2>2, <2>3 DEF InFirst
  <1>19. Len(t) = IF j = n THEN Len(raw) ELSE j * Most
    <2>1. CASE j = n
      BY <1>9, <1>17, <2>1
    <2>2. CASE j # n
      <3>1. j < n
        BY <1>2, <2>2
      <3>2. Len(piece) = Most
        BY <1>9, <3>1
      <3> QED
        BY <1>9, <1>17, <2>2, <3>2
    <2> QED
      BY <2>1, <2>2
  <1>20. ASSUME \A p \in 1 .. Len(data) : data[p] = raw[p], \A p \in 1 .. last : p # damaged
         PROVE  \A p \in 1 .. Len(t) : t[p] = raw[p]
    <2> SUFFICES ASSUME NEW p \in 1 .. Len(t) PROVE t[p] = raw[p]
      OBVIOUS
    <2>1. s \in Nat /\ Len(piece) \in Nat /\ p \in Nat /\ p >= 1 /\ p <= s + Len(piece)
      BY <1>9, <1>12, <1>17
    <2>2. CASE p <= s
      <3>1. p \in 1 .. s
        BY <2>1, <2>2
      <3> QED
        BY <1>6, <1>17, <1>20, <3>1 DEF InFirst
    <2>3. CASE p > s
      <3>1. PICK q : q = p - s
        OBVIOUS
      <3>2. q \in 1 .. Len(piece) /\ s + q = p
        BY <2>1, <2>3, <3>1
      <3>3. t[p] = disk[pos + DescriptorWidth + q] /\ piece[q] = raw[p]
        BY <1>9, <1>17, <3>2
      <3>4. pos + DescriptorWidth + q \in 1 .. last
        <4>1. PICK l : l = Len(piece)
          OBVIOUS
        <4>2. l \in Nat /\ q \in 1 .. l /\ last = pos + 4 + l /\ pos \in Nat
          BY <1>10, <1>12, <3>2, <4>1 DEF DescriptorWidth
        <4>3. pos + 4 + q \in 1 .. last
          BY <4>2, InPiece
        <4> QED
          BY <4>3 DEF DescriptorWidth
      <3>5. pos + DescriptorWidth + q # damaged
        BY <1>20, <3>4
      <3>6. disk[pos + DescriptorWidth + q] = piece[q]
        BY <1>10, <3>2, <3>5 DEF Holds
      <3> QED
        BY <3>3, <3>6
    <2> QED
      BY <2>1, <2>2, <2>3
  <1> QED
    BY <1>5, <1>7, <1>12, <1>14, <1>16, <1>17, <1>18, <1>19, <1>20 DEF InFirst

(* The segments of a record are read one after another, opened and closed as *)
(* they were written.                                                        *)
LEMMA FollowsLeadingSegment ==
    ASSUME Typed, Reading, SegmentsStatable, NEW path, NEW lay, NEW now, Writ(path, lay, now),
           Follows(path, lay), LeadingSegment
    PROVE  Follows(path, lay)'
  <1>1. /\ InStep' = InStep /\ Sound' = Sound /\ Clean' = Clean /\ \A i : EndOf(i)' = EndOf(i)
        /\ \A raw : Pieces(raw)' = Pieces(raw)
        /\ Most' = Most /\ UNCHANGED <<framing, sent, intact>>
    BY ReadingKeeps
  <1>2. phase = "leading" /\ framing.how = "segmented" /\ Bounded(framing)
    BY DEF LeadingSegment, Leading, Bounded
  <1>3. InPlace(path, lay) /\ Len(got) \in Nat /\ Nth - 1 = Len(got) /\ framing \in Framings
    BY DEF Writ, Typed, FileTyped, ReaderTyped, Nth
  <1>4. PICK raw, at, n : raw = sent[Nth].raw /\ at = lay[Nth] /\ n = Len(Pieces(raw))
    OBVIOUS
  <1>5. ASSUME Nth \in InStep
        PROVE  /\ raw \in Seq(Byte) /\ Len(raw) >= 1 /\ Whole(EmissionOf(Nth, raw), at)
               /\ n \in Nat \ {0} /\ at[2 * n] = EndOf(Nth)
               /\ EndOf(Nth) \in Nat
               /\ Nth \in Sound => \A p \in 1 .. EndOf(Nth) : p # damaged
               /\ \A p \in framed : p <= EndOf(Nth) => p # damaged \/ p = 0
               /\ \A j \in 1 .. n : at[2 * j] \in Nat /\ at[2 * j] <= EndOf(Nth)
    <2>1. /\ raw \in Seq(Byte) /\ Len(raw) >= 1 /\ Whole(EmissionOf(Nth, raw), at)
          /\ at[Len(EmissionOf(Nth, raw))] = EndOf(Nth)
          /\ EndOf(Nth) \in Nat
          /\ Nth \in Sound => \A p \in 1 .. EndOf(Nth) : p # damaged
          /\ \A p \in framed : p <= EndOf(Nth) => p # damaged \/ p = 0
      BY <1>3, <1>4, <1>5, InStepIs
    <2>2. n \in Nat \ {0} /\ Len(EmissionOf(Nth, raw)) = 2 * n
      BY <1>2, <1>3, <1>4, <2>1, SegmentShape
    <2>3. at[2 * n] = EndOf(Nth) /\ Laid(EmissionOf(Nth, raw), at, 2 * n)
      BY <2>1, <2>2 DEF Whole
    <2>4. ASSUME NEW j \in 1 .. n PROVE at[2 * j] \in Nat /\ at[2 * j] <= EndOf(Nth)
      <3>1. 2 * j \in 0 .. 2 * n
        BY <2>2
      <3> QED
        BY <2>3, <3>1 DEF Laid
    <2> QED
      BY <2>1, <2>2, <2>3, <2>4
  <1>6. ASSUME Nth \in InStep
        PROVE  \E j \in 1 .. n :
                  /\ pos = at[2 * (j - 1)] /\ Len(data) = (j - 1) * Most
                  /\ Nth \in Sound => \A p \in 1 .. Len(data) : data[p] = raw[p]
    <2>1. PICK k \in 0 .. Len(Pieces(sent[Nth].raw)) - 1 :
                  /\ pos = lay[Nth][2 * k]
                  /\ Len(data) = k * Most
                  /\ Nth \in Sound => \A p \in 1 .. Len(data) : data[p] = sent[Nth].raw[p]
      BY <1>2, <1>6 DEF Follows, Leads
    <2>2. PICK j : j = k + 1
      OBVIOUS
    <2>3. n \in Nat \ {0} /\ k \in 0 .. n - 1
      BY <1>4, <1>5, <1>6, <2>1
    <2>4. j \in 1 .. n /\ j - 1 = k
      BY <2>2, <2>3
    <2> QED
      BY <1>4, <2>1, <2>4
  <1>7. PICK j : Nth \in InStep =>
                  /\ j \in 1 .. n
                  /\ pos = at[2 * (j - 1)] /\ Len(data) = (j - 1) * Most
                  /\ Nth \in Sound => \A p \in 1 .. Len(data) : data[p] = raw[p]
    BY <1>6
  <1>8. PICK there, full, most : there = at[2 * j] /\ full = j * Most /\ most = Most
    OBVIOUS
  <1>9. ASSUME Nth \in InStep
        PROVE  /\ GoodWord
               /\ Ahead(DescriptorWidth)[3] = Code(j, n)
               /\ data = <<>> <=> j = 1
               /\ pos + Stated(Ahead(DescriptorWidth)) = there
               /\ Filled \in Seq(Byte)
               /\ Len(Filled) = IF j = n THEN Len(raw) ELSE full
               /\ Nth \in Sound => \A p \in 1 .. Len(Filled) : Filled[p] = raw[p]
               /\ j \in 1 .. n /\ n \in Nat /\ j \in Nat
    <2>1. j \in 1 .. n /\ n \in Nat
      BY <1>5, <1>7, <1>9
    <2>2. /\ raw \in Seq(Byte) /\ Len(raw) >= 1 /\ Whole(EmissionOf(Nth, raw), at)
          /\ pos = at[2 * (j - 1)] /\ Len(data) = InFirst(j - 1)
          /\ \A p \in framed : p <= at[2 * j] => p # damaged \/ p = 0
      <3>1. ASSUME NEW p \in framed, p <= at[2 * j] PROVE p # damaged \/ p = 0
        <4> SUFFICES ASSUME p = damaged PROVE p = 0
          OBVIOUS
        <4>1. p \in Nat
          BY DEF Typed, FileTyped
        <4>2. p <= EndOf(Nth)
          BY <1>5, <1>9, <2>1, <3>1, <4>1
        <4> QED
          BY <1>5, <1>9, <4>2
      <3> QED
        BY <1>5, <1>7, <1>9, <3>1 DEF InFirst
    <2>3. /\ GoodWord
          /\ Ahead(DescriptorWidth)[3] = Code(j, n)
          /\ data = <<>> <=> j = 1
          /\ pos + Stated(Ahead(DescriptorWidth)) = at[2 * j]
          /\ Filled \in Seq(Byte)
          /\ Len(Filled) = IF j = n THEN Len(raw) ELSE InFirst(j)
          /\ (\A p \in 1 .. Len(data) : data[p] = raw[p]) /\ (\A p \in 1 .. at[2 * j] : p # damaged)
                => \A p \in 1 .. Len(Filled) : Filled[p] = raw[p]
      <3>1. framing.how = "segmented" /\ n = Len(Pieces(raw)) /\ raw \in Seq(Byte)
        BY <1>2, <1>4, <2>2
      <3> QED
        BY <2>1, <2>2, <3>1, SegmentFilled
    <2>4. ASSUME Nth \in Sound PROVE \A p \in 1 .. Len(Filled) : Filled[p] = raw[p]
      <3>1. \A p \in 1 .. at[2 * j] : p \in 1 .. EndOf(Nth)
        BY <1>5, <1>9, <2>1
      <3>2. \A p \in 1 .. at[2 * j] : p # damaged
        BY <1>5, <1>9, <2>4, <3>1
      <3> QED
        BY <1>7, <1>9, <2>3, <2>4, <3>2
    <2> QED
      BY <1>8, <2>1, <2>3, <2>4 DEF InFirst
  <1>10. CASE BadWord
    <2>1. Nth \notin Sound
      <3> SUFFICES ASSUME Nth \in Sound PROVE FALSE
        OBVIOUS
      <3>1. GoodWord
        BY <1>9, SoundInStep
      <3>2. Left \in Nat
        BY DEF Left, Typed, FileTyped, ReaderTyped
      <3> QED
        BY <1>10, <3>1, <3>2, NotBad
    <2> QED
      BY <1>2, <1>10, <2>1, FollowsStop DEF BadWord
  <1>11. CASE /\ Ahead(DescriptorWidth)[3] \notin 0 .. 3 \/ (data # <<>>) = Opens(Ahead(DescriptorWidth)[3])
              /\ Ends("disagrees")
    <2>1. Nth \notin Sound
      <3> SUFFICES ASSUME Nth \in Sound PROVE FALSE
        OBVIOUS
      <3>1. Ahead(DescriptorWidth)[3] = Code(j, n) /\ (data = <<>> <=> j = 1) /\ j \in 1 .. n
        BY <1>9, SoundInStep
      <3>2. Code(j, n) \in 0 .. 3 /\ (Opens(Code(j, n)) <=> j = 1)
        BY <3>1 DEF Code, Opens
      <3> QED
        BY <1>11, <3>1, <3>2 DEF Opens
    <2> QED
      BY <1>2, <1>11, <2>1, FollowsStop
  <1>12. CASE /\ data' = Filled
              /\ pos' = pos + Stated(Ahead(DescriptorWidth))
              /\ Closes(Ahead(DescriptorWidth)[3]) /\ Bounds(Filled)
    <2>1. phase' = "selecting" /\ look' = Filled /\ UNCHANGED <<rstate, rcount, rfirst, taken, got>>
      BY <1>12 DEF Bounds
    <2>2. Handed' /\ Between(path)' /\ Begun(path)' /\ Finds' /\ Nth' = Nth
      BY <1>2, <2>1, FollowsWithin
    <2>3. ASSUME Nth \in InStep
          PROVE  /\ pos' = EndOf(Nth) /\ Len(data') = Len(raw)
                 /\ Nth \in Sound => data' = raw
      <3>1. j = n
        BY <1>9, <1>12, <2>3 DEF Closes, Code
      <3>2. Len(Filled) = Len(raw) /\ Filled \in Seq(Byte) /\ raw \in Seq(Byte)
        BY <1>5, <1>9, <2>3, <3>1
      <3>3. Nth \in Sound => Filled = raw
        BY <1>9, <2>3, <3>2, SameBytes
      <3>4. pos' = EndOf(Nth)
        BY <1>5, <1>8, <1>9, <1>12, <2>3, <3>1
      <3> QED
        BY <1>12, <3>2, <3>3, <3>4
    <2>4. Selects'
      BY <1>1, <1>2, <1>4, <2>1, <2>2, <2>3 DEF Selects, Bounded
    <2>5. Looks'
      BY <1>1, <1>2, <1>12, <2>1 DEF Looks, Bounded
    <2> QED
      BY <1>1, <1>2, <2>1, <2>2, <2>4, <2>5 DEF Follows, Leads, Admits, Finishes, Opened
  <1>13. CASE /\ data' = Filled
              /\ pos' = pos + Stated(Ahead(DescriptorWidth))
              /\ ~ Closes(Ahead(DescriptorWidth)[3])
              /\ UNCHANGED <<phase, look, rstate, rcount, rfirst, short, taken, got, said>>
    <2>1. phase' = "leading" /\ UNCHANGED <<rstate, rcount, rfirst, taken, got>>
      BY <1>2, <1>13
    <2>2. Handed' /\ Between(path)' /\ Begun(path)' /\ Finds' /\ Nth' = Nth
      BY <1>2, <2>1, FollowsWithin
    <2>3. Leads(lay)'
      <3>1. ASSUME Nth \in InStep
            PROVE  /\ j \in 0 .. Len(Pieces(raw)) - 1
                   /\ pos' = lay[Nth][2 * j]
                   /\ Len(data') = j * Most
                   /\ Nth \in Sound => \A p \in 1 .. Len(data') : data'[p] = raw[p]
        <4>1. j # n
          BY <1>9, <1>13, <3>1 DEF Closes, Code
        <4>2. j \in 0 .. n - 1
          BY <1>9, <3>1, <4>1
        <4>3. Len(data') = j * Most
          BY <1>8, <1>9, <1>13, <3>1, <4>1
        <4>4. pos' = lay[Nth][2 * j]
          BY <1>4, <1>8, <1>9, <1>13, <3>1
        <4> QED
          BY <1>4, <1>9, <1>13, <3>1, <4>2, <4>3, <4>4
      <3>2. \E k : Nth \in InStep =>
                   /\ k \in 0 .. Len(Pieces(sent[Nth].raw)) - 1
                   /\ pos' = lay[Nth][2 * k]
                   /\ Len(data') = k * Most
                   /\ Nth \in Sound => \A p \in 1 .. Len(data') : data'[p] = sent[Nth].raw[p]
        BY <1>4, <3>1
      <3>3. Separates'
        BY <1>1, <1>2 DEF Separates
      <3> QED
        BY <1>1, <1>2, <2>1, <2>2, <3>2, <3>3 DEF Leads
    <2> QED
      BY <1>1, <1>2, <2>1, <2>2, <2>3 DEF Follows, Selects, Looks, Admits, Finishes, Opened
  <1> QED
    BY <1>10, <1>11, <1>12, <1>13 DEF LeadingSegment

(* The window is laid over the record that comes next.                       *)
LEMMA FollowsWindow ==
    ASSUME Typed, Reading, NEW path, NEW lay, Follows(path, lay),
           phase = "leading", ~ Bounded(framing), NEW at \in 0 .. Len(disk), Window(at),
           Nth \in InStep => at = StartOf(Nth, EndOf(Len(got))),
           framing.how = "separator" => rfirst' = FALSE
    PROVE  Follows(path, lay)'
  <1>1. /\ InStep' = InStep /\ Sound' = Sound /\ Clean' = Clean /\ \A i : EndOf(i)' = EndOf(i)
        /\ \A i, b : StartOf(i, b)' = StartOf(i, b)
        /\ UNCHANGED <<framing, layout, disk, sent, intact>>
    BY ReadingKeeps
  <1>2. phase' = "selecting" /\ pos' = at /\ UNCHANGED <<rstate, rcount, taken, got>>
    BY DEF Window
  <1>3. Handed' /\ Between(path)' /\ Begun(path)' /\ Finds' /\ Nth' = Nth
    BY <1>2, FollowsWithin
  <1>4. Selects'
    BY <1>1, <1>2, <1>3 DEF Selects, Bounded
  <1>5. /\ Lookahead(layout) \in Nat
        /\ \A q \in 1 .. Lookahead(layout) :
                 at + q <= Len(disk) => q <= Len(look') /\ look'[q] = disk[at + q]
    <2>1. disk # <<>>
      BY DEF Typed, ReaderTyped
    <2> QED
      BY <2>1, WindowIs
  <1>6. Looks'
    <2>1. Lookahead(layout)' = Lookahead(layout)
      BY <1>1 DEF Lookahead
    <2> QED
      BY <1>1, <1>2, <1>5, <2>1 DEF Looks, Bounded
  <1> QED
    BY <1>1, <1>2, <1>3, <1>4, <1>6 DEF Follows, Leads, Admits, Finishes, Opened

(* Nothing stands in front of the record, ...                                *)
LEMMA FollowsLeadingNothing ==
    ASSUME Typed, Reading, NEW path, NEW lay, Follows(path, lay), LeadingNothing
    PROVE  Follows(path, lay)'
  <1>1. phase = "leading" /\ ~ Bounded(framing) /\ framing.how \notin {"separator", "segmented"} /\ Window(pos)
    BY DEF LeadingNothing, Bounded
  <1>2. pos \in 0 .. Len(disk)
    BY DEF Typed, ReaderTyped
  <1>3. Nth \in InStep => pos = StartOf(Nth, EndOf(Len(got)))
    BY <1>1 DEF Follows, Leads, StartOf
  <1> QED
    BY <1>1, <1>2, <1>3, FollowsWindow

(* The bytes of a record that is framed by delimiters or by nothing.         *)
LEMMA StreamHere ==
    ASSUME Typed, NEW path, NEW lay, InPlace(path, lay), ~ Bounded(framing), NEW i \in InStep,
           NEW raw, raw = sent[i].raw, NEW start, start = StartOf(i, EndOf(i - 1))
    PROVE  /\ raw \in Seq(Byte) /\ Len(raw) \in Nat \ {0} /\ i \in Sound
           /\ framing.delimiter \in Seq(Byte)
           /\ framing.how = "unframed" \/ Len(framing.delimiter) \in Nat \ {0}
           /\ EndOf(i - 1) \in Nat /\ start \in Nat /\ start + Len(raw) <= Len(disk)
           /\ framing.how = "separator" /\ i # 1 => Holds(EndOf(i - 1), framing.delimiter)
           /\ Holds(start, raw)
           /\ Trails => Holds(start + Len(raw), framing.delimiter)
           /\ EndOf(i) = IF Trails THEN start + Len(raw) + Len(framing.delimiter) ELSE start + Len(raw)
           /\ EndOf(i) <= Len(disk) /\ EndOf(i) \in Nat
           /\ \A p \in 1 .. EndOf(i) : p # damaged
           /\ Takes(path[i - 1].state, path[i - 1].count, sent[i].record, raw, path[i].state)
           /\ path[i].count = Bound(sent[i].record, raw, path[i - 1].count)
  <1>1. /\ framing \in Framings /\ framing.how \in How
        /\ framing.how \in {"terminator", "optional", "separator"} => framing.delimiter # <<>>
    BY FramingsAdmitted DEF Typed, FileTyped, Admissible
  <1>2. framing.delimiter \in Seq(Byte)
    BY <1>1, FileTypes
  <1>3. Streamed
    BY <1>1 DEF Bounded, How, Streamed
  <1>4. PICK at : at = lay[i]
    OBVIOUS
  <1>5. /\ raw \in Seq(Byte) /\ Len(raw) >= 1 /\ i \in Sound
        /\ Whole(EmissionOf(i, raw), at)
        /\ at[0] = EndOf(i - 1) /\ at[Len(EmissionOf(i, raw))] = EndOf(i)
        /\ EndOf(i - 1) \in Nat /\ EndOf(i) \in Nat /\ EndOf(i) <= Len(disk)
        /\ \A p \in 1 .. EndOf(i) : p # damaged
        /\ TakenAt(i, path)
    BY <1>4, InStepIs
  <1>6. /\ start \in Nat /\ start + Len(raw) <= Len(disk)
        /\ framing.how = "separator" /\ i # 1 => Holds(at[0], framing.delimiter)
        /\ Holds(start, raw)
        /\ Trails => Holds(start + Len(raw), framing.delimiter)
        /\ at[Len(EmissionOf(i, raw))] = IF Trails THEN start + Len(raw) + Len(framing.delimiter) ELSE start + Len(raw)
    BY <1>1, <1>3, <1>5, StreamShape
  <1>7. Len(raw) \in Nat \ {0}
    BY <1>5
  <1>8. framing.how = "unframed" \/ Len(framing.delimiter) \in Nat \ {0}
    BY <1>1, <1>2, <1>3 DEF Streamed
  <1> QED
    BY <1>2, <1>5, <1>6, <1>7, <1>8 DEF TakenAt

(* ... or the delimiter does, in front of all but the first, and a record    *)
(* behind it.                                                                *)
LEMMA FollowsLeadingSeparator ==
    ASSUME Typed, Reading, NEW path, NEW lay, NEW now, Writ(path, lay, now), Follows(path, lay), LeadingSeparator
    PROVE  Follows(path, lay)'
  <1>1. phase = "leading" /\ ~ Bounded(framing) /\ framing.how = "separator"
    BY DEF LeadingSeparator, Leading, Bounded
  <1>2. /\ disk \in Seq(Byte) /\ pos \in 0 .. Len(disk) /\ Len(disk) \in Nat /\ pos \in Nat
        /\ Len(got) \in Nat /\ Nth - 1 = Len(got) /\ Left = Len(disk) - pos
        /\ framing.delimiter \in Seq(Byte) /\ Len(framing.delimiter) \in Nat
        /\ InPlace(path, lay)
    BY FileTypes DEF Typed, FileTyped, ReaderTyped, Nth, Left, Writ
  <1>3. ASSUME Nth \in InStep PROVE pos = EndOf(Len(got)) /\ (rfirst <=> Nth = 1)
    <2>1. pos = EndOf(Len(got)) /\ (rfirst <=> Len(got) = 0)
      BY <1>1, <1>3 DEF Follows, Leads, Separates
    <2> QED
      BY <1>2, <2>1 DEF Nth
  <1>4. PICK raw, start, del : raw = sent[Nth].raw /\ start = StartOf(Nth, EndOf(Nth - 1)) /\ del = framing.delimiter
    OBVIOUS
  <1>5. ASSUME Nth \in InStep, ~ rfirst
        PROVE  /\ start = pos + Len(del) /\ start \in 0 .. Len(disk)
               /\ DelimiterHere /\ Left > Len(del)
    <2>1. /\ Len(raw) \in Nat \ {0}
          /\ EndOf(Nth - 1) \in Nat /\ start \in Nat /\ start + Len(raw) <= Len(disk)
          /\ framing.how = "separator" /\ Nth # 1 => Holds(EndOf(Nth - 1), framing.delimiter)
          /\ EndOf(Nth) = IF Trails THEN start + Len(raw) + Len(framing.delimiter) ELSE start + Len(raw)
          /\ \A p \in 1 .. EndOf(Nth) : p # damaged
      BY <1>1, <1>2, <1>4, <1>5, StreamHere
    <2>2. EndOf(Nth) = start + Len(raw)
      BY <1>1, <2>1 DEF Trails
    <2>3. Nth # 1 /\ pos = EndOf(Nth - 1)
      BY <1>2, <1>3, <1>5
    <2>4. start = pos + Len(del)
      BY <1>1, <1>4, <2>3 DEF StartOf
    <2>5. PICK l : l = Len(del)
      OBVIOUS
    <2>6. l \in Nat /\ start = pos + l /\ start \in 0 .. Len(disk) /\ Left > l /\ pos + l <= Len(disk)
      <3>1. l \in Nat /\ start = pos + l
        BY <1>2, <1>4, <2>4, <2>5
      <3>2. PICK n, size : n = Len(raw) /\ size = Len(disk)
        OBVIOUS
      <3>3. n \in Nat \ {0} /\ size \in Nat /\ pos \in Nat /\ start \in Nat /\ start + n <= size /\ Left = size - pos
        BY <1>2, <2>1, <3>2
      <3>4. start \in 0 .. size /\ Left > l /\ pos + l <= size
        BY <3>1, <3>3
      <3> QED
        BY <3>1, <3>2, <3>4
    <2>7. \A p \in pos + 1 .. pos + l : p \in 1 .. EndOf(Nth)
      <3>1. PICK e, n : e = EndOf(Nth) /\ n = Len(raw)
        OBVIOUS
      <3>2. e = pos + l + n /\ n \in Nat /\ l \in Nat /\ pos \in Nat
        BY <1>2, <2>1, <2>2, <2>6, <3>1
      <3>3. \A p \in pos + 1 .. pos + l : p \in 1 .. e
        BY <3>2
      <3> QED
        BY <3>1, <3>3
    <2>8. damaged \notin pos + 1 .. pos + l /\ Holds(pos, del)
      BY <1>1, <1>4, <2>1, <2>3, <2>7
    <2>9. Ahead(Len(del)) = del
      BY <1>2, <1>4, <2>5, <2>6, <2>8, AheadHolds
    <2> QED
      BY <1>4, <2>4, <2>5, <2>6, <2>9 DEF DelimiterHere
  <1>6. CASE rfirst /\ rfirst' = FALSE /\ Window(pos)
    <2>1. Nth \in InStep => pos = StartOf(Nth, EndOf(Len(got)))
      BY <1>3, <1>6 DEF StartOf
    <2> QED
      BY <1>1, <1>2, <1>6, <2>1, FollowsWindow
  <1>7. ASSUME NEW what, Ends(what), ~ rfirst, ~ DelimiterHere \/ Left = Len(del)
        PROVE  Follows(path, lay)'
    <2>1. Nth \notin InStep
      BY <1>2, <1>4, <1>5, <1>7
    <2> QED
      BY <1>1, <1>7, <2>1, FollowsStop, SoundInStep
  <1>8. CASE /\ ~ rfirst /\ Left > Len(del) /\ DelimiterHere
             /\ rfirst' = FALSE
             /\ Window(pos + Len(del))
    <2>1. pos + Len(del) \in 0 .. Len(disk)
      BY <1>2, <1>4, <1>8
    <2>2. Nth \in InStep => pos + Len(del) = StartOf(Nth, EndOf(Len(got)))
      BY <1>2, <1>4, <1>5, <1>8
    <2> QED
      BY <1>1, <1>8, <2>1, <2>2, FollowsWindow
  <1> QED
    BY <1>4, <1>6, <1>7, <1>8 DEF LeadingSeparator, NoDelimiter

(* The predicates of the state see what they would see of the whole record.  *)
LEMMA LookSees ==
    ASSUME Typed, NEW path, NEW lay, InPlace(path, lay), Follows(path, lay),
           phase = "selecting", Nth \in Sound,
           NEW S, Form[S].at \in Nat, Form[S].at <= Len(sent[Nth].raw), Form[S].at <= Lookahead(layout)
    PROVE  Matches(S, look) <=> Matches(S, sent[Nth].raw)
  <1>1. Nth \in InStep /\ Len(got) \in Nat /\ Nth - 1 = Len(got)
    BY SoundInStep DEF Typed, ReaderTyped, Nth
  <1>2. CASE Bounded(framing)
    <2>1. look = sent[Nth].raw
      BY <1>1, <1>2 DEF Follows, Selects, Looks
    <2> QED
      BY <2>1
  <1>3. CASE ~ Bounded(framing)
    <2>1. PICK raw, start, q : raw = sent[Nth].raw /\ start = StartOf(Nth, EndOf(Nth - 1)) /\ q = Form[S].at
      OBVIOUS
    <2>2. /\ raw \in Seq(Byte) /\ Len(raw) \in Nat /\ start \in Nat /\ start + Len(raw) <= Len(disk)
          /\ Holds(start, raw)
          /\ EndOf(Nth) \in Nat
          /\ EndOf(Nth) = IF Trails THEN start + Len(raw) + Len(framing.delimiter) ELSE start + Len(raw)
          /\ framing.how = "unframed" \/ Len(framing.delimiter) \in Nat
          /\ \A p \in 1 .. EndOf(Nth) : p # damaged
      BY <1>1, <1>3, <2>1, StreamHere
    <2>3. /\ Lookahead(layout) \in Nat
          /\ \A p \in 1 .. Lookahead(layout) :
                start + p <= Len(disk) => p <= Len(look) /\ look[p] = disk[start + p]
      BY <1>1, <1>3, <2>1 DEF Follows, Selects, Looks
    <2>4. CASE q = 0
      BY <2>1, <2>4 DEF Matches
    <2>5. CASE q # 0
      <3>1. q \in 1 .. Len(raw) /\ q \in 1 .. Lookahead(layout) /\ Len(disk) \in Nat
        BY <2>1, <2>2, <2>3, <2>5 DEF Typed, FileTyped
      <3>2. start + q <= Len(disk)
        BY <2>2, <3>1
      <3>3. start + q \in 1 .. EndOf(Nth)
        <4>1. PICK e, n : e = EndOf(Nth) /\ n = Len(raw)
          OBVIOUS
        <4>2. e \in Nat /\ n \in Nat /\ start + n <= e /\ q \in 1 .. n
          <5>1. CASE Trails
            <6>1. PICK l : l = Len(framing.delimiter)
              OBVIOUS
            <6>2. l \in Nat /\ e = start + n + l /\ n \in Nat
              BY <2>2, <4>1, <5>1, <6>1 DEF Trails
            <6>3. start \in Nat /\ e \in Nat /\ q \in 1 .. n
              BY <2>2, <3>1, <4>1
            <6> QED
              BY <6>2, <6>3
          <5>2. CASE ~ Trails
            BY <2>2, <3>1, <4>1, <5>2
          <5> QED
            BY <5>1, <5>2
        <4>3. start + q \in 1 .. e
          BY <2>2, <4>2
        <4> QED
          BY <4>1, <4>3
      <3>4. disk[start + q] = raw[q]
        BY <2>2, <3>1, <3>3 DEF Holds
      <3>5. q <= Len(look) /\ look[q] = raw[q]
        BY <2>3, <3>1, <3>2, <3>4
      <3>6. q <= Len(raw)
        BY <3>1
      <3> QED
        BY <2>1, <3>5, <3>6 DEF Matches
    <2> QED
      BY <2>4, <2>5
  <1> QED
    BY <1>2, <1>3

(* Of the transitions of the state, the record written selects its own.      *)
LEMMA SelectsItsOwn ==
    ASSUME Typed, NEW path, NEW lay, InPlace(path, lay), Follows(path, lay),
           phase = "selecting", Nth \in Sound
    PROVE  /\ Matching # {}
           /\ \A i \in Matching :
                 /\ layout.transitions[i].record = sent[Nth].record
                 /\ layout.transitions[i].to = path[Nth].state
                 /\ Sized(layout.transitions[i].record)
  <1>1. Nth \in InStep /\ Len(got) \in Nat /\ Nth - 1 = Len(got) /\ layout \in Layouts
    BY SoundInStep DEF Typed, FileTyped, ReaderTyped, Nth
  <1>2. PICK R, raw, to, count : R = sent[Nth].record /\ raw = sent[Nth].raw /\ to = path[Nth].state /\ count = path[Nth - 1].count
    OBVIOUS
  <1>3. TakenAt(Nth, path)
    BY <1>1, InStepIs
  <1>4. Takes(path[Nth - 1].state, count, R, raw, to)
    BY <1>2, <1>3 DEF TakenAt
  <1>5. rstate = path[Nth - 1].state /\ rcount = count
    BY <1>1, <1>2 DEF Follows, Begun, OnPath
  <1>6. Takes(rstate, count, R, raw, to)
    BY <1>4, <1>5
  <1>7. /\ Form[R].table => count \in Form[R].least .. Form[R].most
        /\ \A j \in Leaving(layout, rstate) :
              /\ Form[layout.transitions[j].record].at \in Nat
              /\ Form[layout.transitions[j].record].at <= Len(raw)
              /\ Matches(layout.transitions[j].record, raw) => layout.transitions[j].record = R /\ layout.transitions[j].to = to
    BY <1>1, <1>6, TakenRecord
  <1>8. ASSUME NEW j \in Leaving(layout, rstate)
        PROVE  Matches(layout.transitions[j].record, look) <=> Matches(layout.transitions[j].record, raw)
    <2>1. Form[layout.transitions[j].record].at <= Lookahead(layout)
      BY <1>1, LookaheadReaches DEF Leaving
    <2> QED
      BY <1>2, <1>7, <2>1, LookSees
  <1>9. PICK i \in Leaving(layout, rstate) : layout.transitions[i].record = R
    BY <1>6 DEF Takes
  <1>10. Matches(R, raw)
    BY <1>6 DEF Takes
  <1>11. i \in Matching
    BY <1>8, <1>9, <1>10 DEF Matching
  <1>12. Sized(R)
    BY <1>5, <1>7 DEF Sized
  <1> QED
    BY <1>2, <1>7, <1>8, <1>11, <1>12 DEF Matching

(* A record that nothing matches is not one that came to no harm.            *)
LEMMA FollowsUndescribed ==
    ASSUME Typed, Reading, NEW path, NEW lay, NEW now, Writ(path, lay, now), Follows(path, lay), Undescribed
    PROVE  Follows(path, lay)'
  <1>1. phase = "selecting" /\ Matching = {} /\ \E what : Ends(what)
    BY DEF Undescribed
  <1>2. Nth \notin Sound
    BY <1>1, SelectsItsOwn DEF Writ
  <1> QED
    BY <1>1, <1>2, FollowsStop

(* The transition selected is the one the writer took.                       *)
LEMMA FollowsSelect ==
    ASSUME Typed, Reading, NEW path, NEW lay, NEW now, Writ(path, lay, now), Follows(path, lay), Select
    PROVE  Follows(path, lay)'
  <1>1. /\ InStep' = InStep /\ Sound' = Sound /\ Clean' = Clean /\ \A i : EndOf(i)' = EndOf(i)
        /\ \A i, b : StartOf(i, b)' = StartOf(i, b)
        /\ UNCHANGED <<framing, sent, intact>>
    BY ReadingKeeps
  <1>2. PICK i \in Matching :
          IF Sized(layout.transitions[i].record)
            THEN /\ taken' = [taken EXCEPT !.record = layout.transitions[i].record, !.to = layout.transitions[i].to]
                 /\ phase' = "admitting"
                 /\ UNCHANGED <<pos, rstate, rcount, rfirst, look, short, data, got, said>>
            ELSE Ends("count")
    BY Zenon DEF Select
  <1>3. phase = "selecting"
    BY DEF Select
  <1>4. CASE ~ Sized(layout.transitions[i].record)
    <2>1. Nth \notin Sound
      BY <1>3, <1>4, SelectsItsOwn DEF Writ
    <2> QED
      BY <1>2, <1>3, <1>4, <2>1, FollowsStop
  <1>5. CASE Sized(layout.transitions[i].record)
    <2>1. /\ taken' = [taken EXCEPT !.record = layout.transitions[i].record, !.to = layout.transitions[i].to]
          /\ phase' = "admitting"
          /\ UNCHANGED <<pos, rstate, rcount, rfirst, look, short, data, got, said>>
      BY <1>2, <1>5
    <2>2. /\ taken'.at = taken.at
          /\ taken'.record = layout.transitions[i].record /\ taken'.to = layout.transitions[i].to
      BY <2>1 DEF Typed, ReaderTyped, Taken
    <2>3. Handed' /\ Between(path)' /\ Begun(path)' /\ Finds' /\ Nth' = Nth
      BY <1>3, <2>1, <2>2, FollowsWithin
    <2>4. Admits(path)'
      BY <1>1, <1>3, <2>2, <2>3, SelectsItsOwn DEF Admits, Writ
    <2>5. Selects'
      BY <1>1, <1>3, <2>1, <2>3 DEF Follows, Selects, Bounded
    <2>6. Opened'
      BY <1>1, <1>3, <2>1 DEF Follows, Opened
    <2> QED
      BY <2>1, <2>3, <2>4, <2>5, <2>6 DEF Follows, Leads, Looks, Finishes
  <1> QED
    BY <1>4, <1>5

(* What the reader wants of a record is what was written of it.              *)
LEMMA WantsItsOwn ==
    ASSUME Typed, NEW path, NEW lay, InPlace(path, lay), Follows(path, lay),
           phase = "admitting", Nth \in Sound
    PROVE  /\ Wanted = Len(sent[Nth].raw)
           /\ taken.record = sent[Nth].record
           /\ Decodes(taken.record, sent[Nth].raw)
           /\ sent[Nth].raw \in Seq(Byte)
  <1>1. Nth \in InStep /\ Len(got) \in Nat /\ Nth - 1 = Len(got) /\ layout \in Layouts
    BY SoundInStep DEF Typed, FileTyped, ReaderTyped, Nth
  <1>2. PICK R, raw, to, count, from : /\ R = sent[Nth].record /\ raw = sent[Nth].raw /\ to = path[Nth].state
                                       /\ count = path[Nth - 1].count /\ from = path[Nth - 1].state
    OBVIOUS
  <1>3. TakenAt(Nth, path)
    BY <1>1, InStepIs
  <1>4. Takes(from, count, R, raw, to)
    BY <1>2, <1>3 DEF TakenAt
  <1>5. rcount = count
    BY <1>1, <1>2 DEF Follows, Begun, OnPath
  <1>6. Decodes(R, raw) /\ Len(raw) = Extent(R, count) /\ raw \in Seq(Byte)
    BY <1>1, <1>4, TakenRecord
  <1>7. taken.record = R
    BY <1>2 DEF Follows, Admits
  <1> QED
    BY <1>2, <1>5, <1>6, <1>7 DEF Wanted

(* What is admitted is the record, and the read behind it.                   *)
LEMMA FollowsAdmitted ==
    ASSUME Typed, Reading, NEW path, NEW lay, Follows(path, lay), phase = "admitting",
           NEW raw, NEW at, Admitted(raw, at),
           Nth \in InStep =>
              /\ Len(raw) = Len(sent[Nth].raw)
              /\ Nth \in Sound => raw = sent[Nth].raw
              /\ at = IF Bounded(framing) THEN EndOf(Nth)
                                          ELSE StartOf(Nth, EndOf(Len(got))) + Len(sent[Nth].raw)
    PROVE  Follows(path, lay)'
  <1>1. /\ InStep' = InStep /\ Sound' = Sound /\ Clean' = Clean /\ \A i : EndOf(i)' = EndOf(i)
        /\ \A i, b : StartOf(i, b)' = StartOf(i, b)
        /\ UNCHANGED <<framing, sent, intact>>
    BY ReadingKeeps
  <1>2. /\ taken' = [taken EXCEPT !.raw = raw] /\ pos' = at /\ phase' = "trailing"
        /\ UNCHANGED <<rstate, rcount, rfirst, look, short, data, got, said>>
    BY DEF Admitted
  <1>3. taken'.at = taken.at /\ taken'.raw = raw /\ taken'.record = taken.record /\ taken'.to = taken.to
    BY <1>2 DEF Typed, ReaderTyped, Taken
  <1>4. Handed' /\ Between(path)' /\ Begun(path)' /\ Finds' /\ Nth' = Nth
    BY <1>2, <1>3, FollowsWithin
  <1>5. Admits(path)'
    BY <1>1, <1>3, <1>4 DEF Follows, Admits
  <1>6. Finishes(path)'
    BY <1>1, <1>2, <1>3, <1>4 DEF Finishes, Bounded
  <1>7. Opened'
    BY <1>1, <1>2 DEF Follows, Opened
  <1> QED
    BY <1>2, <1>4, <1>5, <1>6, <1>7 DEF Follows, Leads, Looks, Selects

(* The frame is as long as the extent, ...                                   *)
LEMMA FollowsAdmitBounded ==
    ASSUME Typed, Reading, NEW path, NEW lay, NEW now, Writ(path, lay, now), Follows(path, lay), AdmitBounded
    PROVE  Follows(path, lay)'
  <1>1. phase = "admitting" /\ Bounded(framing)
    BY DEF AdmitBounded
  <1>2. data \in Seq(Byte) /\ Wanted \in Nat /\ Len(data) \in Nat
    BY <1>1, WantedTyped DEF Typed, ReaderTyped
  <1>3. PICK w, raw : w = Wanted /\ raw = SubSeq(data, 1, Wanted)
    OBVIOUS
  <1>4. w = Len(data) => raw = data /\ Len(raw) = Len(data)
    <2> SUFFICES ASSUME w = Len(data) PROVE raw = data
      OBVIOUS
    <2>1. w \in Nat /\ w <= Len(data)
      BY <1>2, <1>3
    <2>2. SubSeq(data, 1, w) = data
      BY <1>2, <2>1, DrawnFrom
    <2> QED
      BY <1>3, <2>2
  <1>5. ASSUME Nth \in InStep
        PROVE  /\ pos = EndOf(Nth) /\ Len(data) = Len(sent[Nth].raw)
               /\ Nth \in Sound => w = Len(data) /\ data = sent[Nth].raw /\ Decodes(taken.record, data)
    <2>1. /\ pos = EndOf(Nth) /\ Len(data) = Len(sent[Nth].raw)
          /\ Nth \in Sound => data = sent[Nth].raw
      BY <1>1, <1>5 DEF Follows, Selects
    <2>2. Nth \in Sound => Wanted = Len(sent[Nth].raw) /\ Decodes(taken.record, sent[Nth].raw)
      BY <1>1, WantsItsOwn DEF Writ
    <2> QED
      BY <1>3, <2>1, <2>2
  <1>6. ASSUME NEW what, Ends(what), w # Len(data) \/ ~ Decodes(taken.record, raw)
        PROVE  Follows(path, lay)'
    <2>1. Nth \notin Sound
      BY <1>4, <1>5, <1>6, SoundInStep
    <2> QED
      BY <1>1, <1>6, <2>1, FollowsStop
  <1>7. CASE Agrees /\ Admitted(raw, pos)
    <2>1. w = Len(data)
      BY <1>3, <1>7 DEF Agrees
    <2>2. Nth \in InStep =>
              /\ Len(raw) = Len(sent[Nth].raw)
              /\ Nth \in Sound => raw = sent[Nth].raw
              /\ pos = IF Bounded(framing) THEN EndOf(Nth)
                                          ELSE StartOf(Nth, EndOf(Len(got))) + Len(sent[Nth].raw)
      BY <1>1, <1>4, <1>5, <2>1
    <2> QED
      BY <1>1, <1>7, <2>2, FollowsAdmitted
  <1>8. \/ Len(data) < w /\ Ends("disagrees")
        \/ ~ Decodes(taken.record, raw) /\ Ends("malformed")
        \/ Len(data) # w /\ Ends("disagrees")
        \/ Agrees /\ Admitted(raw, pos)
    BY <1>3 DEF AdmitBounded, Agrees
  <1>9. Len(data) < w => w # Len(data)
    BY <1>2
  <1> QED
    BY <1>6, <1>7, <1>8, <1>9

(* ... or as much is drawn as the extent is long.                            *)
LEMMA FollowsAdmitStreamed ==
    ASSUME Typed, Reading, NEW path, NEW lay, NEW now, Writ(path, lay, now), Follows(path, lay), AdmitStreamed
    PROVE  Follows(path, lay)'
  <1>1. phase = "admitting" /\ ~ Bounded(framing)
    BY DEF AdmitStreamed
  <1>2. Wanted \in Nat /\ disk \in Seq(Byte) /\ pos \in 0 .. Len(disk) /\ Left = Len(disk) - pos
        /\ Len(got) \in Nat /\ Nth - 1 = Len(got)
    BY <1>1, WantedTyped DEF Typed, FileTyped, ReaderTyped, Left, Nth
  <1>3. PICK raw, start : raw = sent[Nth].raw /\ start = StartOf(Nth, EndOf(Nth - 1))
    OBVIOUS
  <1>4. ASSUME Nth \in InStep
        PROVE  /\ Nth \in Sound /\ pos = start /\ Wanted = Len(raw) /\ Len(raw) <= Left
               /\ Ahead(Wanted) = raw /\ Decodes(taken.record, raw)
    <2>1. /\ raw \in Seq(Byte) /\ Len(raw) \in Nat /\ Nth \in Sound
          /\ start \in Nat /\ start + Len(raw) <= Len(disk)
          /\ Holds(start, raw)
          /\ EndOf(Nth) \in Nat
          /\ EndOf(Nth) = IF Trails THEN start + Len(raw) + Len(framing.delimiter) ELSE start + Len(raw)
          /\ framing.how = "unframed" \/ Len(framing.delimiter) \in Nat
          /\ \A p \in 1 .. EndOf(Nth) : p # damaged
      BY <1>1, <1>3, <1>4, StreamHere DEF Writ
    <2>2. pos = start
      BY <1>1, <1>2, <1>3, <1>4 DEF Follows, Selects
    <2>3. Wanted = Len(raw) /\ Decodes(taken.record, raw)
      BY <1>1, <1>3, <2>1, WantsItsOwn DEF Writ
    <2>4. PICK n, e : n = Len(raw) /\ e = EndOf(Nth)
      OBVIOUS
    <2>5. n \in Nat /\ e \in Nat /\ pos \in Nat /\ pos + n <= Len(disk) /\ n <= Left
      <3>1. n \in Nat /\ e \in Nat /\ pos \in Nat /\ pos + n <= Len(disk)
        BY <2>1, <2>2, <2>4
      <3>2. Len(disk) \in Nat /\ Left = Len(disk) - pos
        BY <1>2
      <3> QED
        BY <3>1, <3>2
    <2>6. pos + n <= e
      <3>1. CASE Trails
        <4>1. PICK l : l = Len(framing.delimiter)
          OBVIOUS
        <4>2. l \in Nat /\ e = pos + n + l
          BY <2>1, <2>2, <2>4, <3>1, <4>1 DEF Trails
        <4> QED
          BY <2>5, <4>2
      <3>2. CASE ~ Trails
        BY <2>1, <2>2, <2>4, <2>5, <3>2
      <3> QED
        BY <3>1, <3>2
    <2>7. \A p \in pos + 1 .. pos + n : p \in 1 .. e
      BY <2>5, <2>6
    <2>8. damaged \notin pos + 1 .. pos + Len(raw)
      BY <2>1, <2>4, <2>7
    <2>9. Ahead(Len(raw)) = raw
      BY <1>2, <2>1, <2>2, <2>8, AheadHolds
    <2> QED
      BY <2>1, <2>2, <2>3, <2>4, <2>5, <2>9
  <1>5. ASSUME NEW what, Ends(what), Left < Wanted \/ ~ Decodes(taken.record, Ahead(Wanted))
        PROVE  Follows(path, lay)'
    <2>1. Nth \notin Sound
      <3> SUFFICES ASSUME Nth \in Sound PROVE FALSE
        OBVIOUS
      <3>1. Wanted = Len(raw) /\ Len(raw) <= Left /\ Ahead(Wanted) = raw /\ Decodes(taken.record, raw)
        BY <1>4, SoundInStep
      <3>2. Left \in Int
        BY <1>2
      <3> QED
        BY <1>2, <1>5, <3>1, <3>2
    <2> QED
      BY <1>1, <1>5, <2>1, FollowsStop
  <1>6. CASE Admitted(Ahead(Wanted), pos + Wanted)
    <2>1. Nth \in InStep =>
              /\ Len(Ahead(Wanted)) = Len(sent[Nth].raw)
              /\ Nth \in Sound => Ahead(Wanted) = sent[Nth].raw
              /\ pos + Wanted = IF Bounded(framing) THEN EndOf(Nth)
                                          ELSE StartOf(Nth, EndOf(Len(got))) + Len(sent[Nth].raw)
      BY <1>1, <1>2, <1>3, <1>4
    <2> QED
      BY <1>1, <1>6, <2>1, FollowsAdmitted
  <1> QED
    BY <1>5, <1>6 DEF AdmitStreamed

(* Behind the record the reader is in the state the writer went to, with the *)
(* count it had, at the end of what it wrote.                                *)
LEMMA FollowsTrailing ==
    ASSUME Typed, Reading, NEW path, NEW lay, NEW now, Writ(path, lay, now), Follows(path, lay), Trailing
    PROVE  Follows(path, lay)'
  <1>1. /\ InStep' = InStep /\ Sound' = Sound /\ Clean' = Clean /\ \A i : EndOf(i)' = EndOf(i)
        /\ UNCHANGED <<framing, sent, intact>>
    BY ReadingKeeps
  <1>2. phase = "trailing"
    BY DEF Trailing
  <1>3. /\ disk \in Seq(Byte) /\ pos \in 0 .. Len(disk) /\ Len(disk) \in Nat /\ Left = Len(disk) - pos
        /\ Len(got) \in Nat /\ got \in Seq(Got) /\ Nth - 1 = Len(got) /\ Nth \in Nat /\ Nth # 0
        /\ sent \in Seq(Sent) /\ intact \in 0 .. Len(sent) /\ intact \in Nat
        /\ taken.record \in RecordType /\ taken \in Taken
        /\ InPlace(path, lay)
    BY <1>2 DEF Typed, FileTyped, WriterTyped, ReaderTyped, Left, Nth, Writ
  <1>4. PICK after : after = IF Terminated THEN pos + Len(framing.delimiter) ELSE pos
    OBVIOUS
  <1>5. Terminated => Trails
    BY DEF Terminated, Trails
  <1>6. Trails => ~ Bounded(framing)
    BY DEF Trails, Bounded
  <1>7. ASSUME Nth \in InStep
        PROVE  (Terminated => DelimiterHere) /\ after = EndOf(Nth)
    <2>1. CASE Bounded(framing)
      BY <1>2, <1>4, <1>5, <1>6, <1>7, <2>1 DEF Follows, Finishes
    <2>2. CASE ~ Bounded(framing)
      <3>1. PICK raw, start, del, n, l, e : /\ raw = sent[Nth].raw /\ start = StartOf(Nth, EndOf(Nth - 1))
                                            /\ del = framing.delimiter
                                            /\ n = Len(raw) /\ l = Len(del) /\ e = EndOf(Nth)
        OBVIOUS
      <3>2. /\ n \in Nat
            /\ del \in Seq(Byte)
            /\ framing.how = "unframed" \/ l \in Nat \ {0}
            /\ start \in Nat /\ e <= Len(disk) /\ e \in Nat
            /\ Trails => Holds(start + n, del)
            /\ e = IF Trails THEN start + n + l ELSE start + n
            /\ \A p \in 1 .. e : p # damaged
        BY <1>3, <1>7, <2>2, <3>1, StreamHere
      <3>3. pos = start + n
        BY <1>2, <1>3, <1>7, <2>2, <3>1 DEF Follows, Finishes
      <3>4. CASE ~ Trails
        BY <1>4, <1>5, <3>1, <3>2, <3>3, <3>4
      <3>5. CASE Trails
        <4>1. del \in Seq(Byte) /\ l \in Nat \ {0} /\ e = pos + l /\ pos \in Nat /\ Holds(pos, del) /\ e <= Len(disk)
          BY <1>3, <3>2, <3>3, <3>5 DEF Trails
        <4>2. Left # 0
          BY <1>3, <4>1
        <4>3. Terminated
          BY <3>5, <4>2 DEF Trails, Terminated, NoneNeeded
        <4>4. \A p \in pos + 1 .. pos + l : p \in 1 .. e
          BY <4>1
        <4>5. damaged \notin pos + 1 .. pos + Len(del)
          BY <3>1, <3>2, <4>4
        <4>6. Ahead(Len(del)) = del
          BY <1>3, <3>1, <4>1, <4>5, AheadHolds
        <4> QED
          BY <1>4, <3>1, <4>1, <4>3, <4>6 DEF DelimiterHere
      <3> QED
        BY <3>4, <3>5
    <2> QED
      BY <2>1, <2>2
  <1>8. CASE Terminated /\ NoDelimiter
    <2>1. Nth \notin Sound
      BY <1>7, <1>8, SoundInStep DEF NoDelimiter
    <2> QED
      BY <1>2, <1>8, <2>1, FollowsStop DEF NoDelimiter
  <1>9. CASE /\ pos' = after
             /\ rstate' = taken.to
             /\ rcount' = Bound(taken.record, taken.raw, rcount)
             /\ got' = Append(got, [record |-> taken.record, raw |-> taken.raw, at |-> taken.at])
             /\ phase' = "boundary"
             /\ UNCHANGED rfirst
    <2>1. /\ Len(got') = Nth /\ DOMAIN got' = 1 .. Nth /\ DOMAIN got = 1 .. Len(got)
          /\ got'[Nth] = [record |-> taken.record, raw |-> taken.raw, at |-> taken.at]
          /\ \A i \in 1 .. Len(got) : got'[i] = got[i]
      <3>1. [record |-> taken.record, raw |-> taken.raw, at |-> taken.at] \in Got
        BY <1>3 DEF Taken, Got
      <3>2. PICK g : g = [record |-> taken.record, raw |-> taken.raw, at |-> taken.at]
        OBVIOUS
      <3>3. g \in Got /\ got' = Append(got, g)
        BY <1>9, <3>1, <3>2
      <3>4. /\ Len(got') = Len(got) + 1 /\ DOMAIN got' = 1 .. Len(got) + 1
            /\ \A i \in 1 .. Len(got) + 1 : got'[i] = IF i <= Len(got) THEN got[i] ELSE g
        BY <1>3, <3>3, AppendProperties
      <3> QED
        <4>1. PICK n : n = Len(got)
          OBVIOUS
        <4>2. n \in Nat /\ Nth = n + 1
          BY <1>3, <4>1 DEF Nth
        <4>3. got'[n + 1] = g
          <5>1. n + 1 \in 1 .. n + 1 /\ ~ (n + 1 <= n)
            BY <4>2
          <5> QED
            BY <3>4, <4>1, <5>1
        <4>4. \A i \in 1 .. n : got'[i] = got[i]
          <5>1. \A i \in 1 .. n : i \in 1 .. n + 1 /\ i <= n
            BY <4>2
          <5> QED
            BY <3>4, <4>1, <5>1
        <4>5. DOMAIN got = 1 .. n
          BY <1>3, <4>1
        <4> QED
          BY <3>2, <3>4, <4>1, <4>2, <4>3, <4>4, <4>5
    <2>2. ASSUME Nth \in InStep
          PROVE  /\ taken.at = EndOf(Nth - 1) /\ Len(taken.raw) = Len(sent[Nth].raw)
                 /\ Nth \in Sound => /\ taken.raw = sent[Nth].raw /\ taken.record = sent[Nth].record
                                     /\ taken.to = path[Nth].state
                                     /\ rcount = path[Nth - 1].count
      BY <1>2, <1>3, <2>2 DEF Follows, Begun, Finishes, Admits, OnPath
    <2>3. Handed'
      <3> SUFFICES ASSUME NEW i \in InStep, i \in DOMAIN got'
                   PROVE  /\ got'[i].at = EndOf(i - 1)
                          /\ Len(got'[i].raw) = Len(sent[i].raw)
                          /\ i \in Sound => [record |-> got'[i].record, raw |-> got'[i].raw] = sent[i]
        BY <1>1, Zenon DEF Handed, Record
      <3>1. CASE i = Nth
        <4>1. sent[i] \in Sent
          BY <1>3, <3>1 DEF InStep
        <4>2. sent[i] = [record |-> sent[i].record, raw |-> sent[i].raw]
          BY <4>1 DEF Sent
        <4> QED
          BY <2>1, <2>2, <3>1, <4>2
      <3>2. CASE i # Nth
        <4>1. i \in 1 .. Len(got) /\ i \in DOMAIN got
          BY <1>3, <2>1, <3>2
        <4> QED
          BY <2>1, <4>1 DEF Follows, Handed, Record
      <3> QED
        BY <3>1, <3>2
    <2>4. Between(path)'
      <3>1. ASSUME Nth \in InStep
            PROVE  pos' = EndOf(Nth) /\ (Nth \in Sound => rstate' = path[Nth].state /\ rcount' = path[Nth].count)
        <4>1. TakenAt(Nth, path)
          BY <1>3, <3>1, InStepIs
        <4> QED
          BY <1>7, <1>9, <2>2, <3>1, <4>1 DEF TakenAt
      <3>2. Separates'
        BY <1>1, <1>2, <1>3, <1>9, <2>1 DEF Separates, Follows, Opened
      <3>3. Nth \in {0} \cup InStep => Nth \in InStep
        BY <1>3
      <3>4. Nth \in {0} \cup Sound => Nth \in Sound
        BY <1>3
      <3> QED
        BY <1>1, <2>1, <3>1, <3>2, <3>3, <3>4 DEF Between, OnPath
    <2>5. Finds'
      <3>1. ASSUME Clean PROVE Nth <= intact
        <4>1. Len(got) <= intact /\ Len(got) # intact
          BY <1>2, <3>1 DEF Follows, Finds
        <4> QED
          <5>1. PICK n : n = Len(got)
            OBVIOUS
          <5>2. n \in Nat /\ intact \in Nat /\ Nth = n + 1 /\ n <= intact /\ n # intact
            BY <1>3, <4>1, <5>1, Zenon DEF Nth
          <5> QED
            BY <5>2
      <3> QED
        BY <1>1, <1>9, <2>1, <3>1 DEF Finds
    <2> QED
      BY <1>9, <2>3, <2>4, <2>5 DEF Follows, Begun, Leads, Selects, Looks, Admits, Finishes, Opened
  <1> QED
    BY <1>4, <1>8, <1>9 DEF Trailing

(* Every step of the reader.                                                 *)
LEMMA FollowsReading ==
    ASSUME Typed, Reading, SegmentsStatable, NEW path, NEW lay, NEW now, Writ(path, lay, now), Follows(path, lay)
    PROVE  Follows(path, lay)'
  <1>1. CASE EndOfInput
    BY <1>1, FollowsEndOfInput
  <1>2. CASE AtRecord
    BY <1>2, FollowsAtRecord
  <1>3. CASE LeadingWord
    BY <1>3, FollowsLeadingWord
  <1>4. CASE LeadingSegment
    BY <1>4, FollowsLeadingSegment
  <1>5. CASE LeadingNothing
    BY <1>5, FollowsLeadingNothing
  <1>6. CASE LeadingSeparator
    BY <1>6, FollowsLeadingSeparator
  <1>7. CASE Undescribed
    BY <1>7, FollowsUndescribed
  <1>8. CASE Select
    BY <1>8, FollowsSelect
  <1>9. CASE AdmitBounded
    BY <1>9, FollowsAdmitBounded
  <1>10. CASE AdmitStreamed
    BY <1>10, FollowsAdmitStreamed
  <1>11. CASE Trailing
    BY <1>11, FollowsTrailing
  <1> QED
    BY <1>1, <1>2, <1>3, <1>4, <1>5, <1>6, <1>7, <1>8, <1>9, <1>10, <1>11 DEF Reading, Next

(* Reading leaves what was written.                                          *)
LEMMA WritReading ==
    ASSUME UNCHANGED <<config, disk, ended, writer, damaged>>, NEW path, NEW lay, NEW now, Writ(path, lay, now)
    PROVE  Writ(path, lay, now)'
  <1>1. UNCHANGED <<layout, framing, disk, damaged, wstate, wcount, first, hand, chunks, sent, ends, framed, failures, intact>>
    BY DEF config, writer
  <1>2. \A i, raw : EmissionOf(i, raw)' = EmissionOf(i, raw)
    BY <1>1 DEF EmissionOf, Segmented, Pieces, Most
  <1>3. \A em, at, n : Laid(em, at, n)' = Laid(em, at, n)
    BY <1>1 DEF Laid, Holds
  <1>4. \A from, count, R, raw, to : Takes(from, count, R, raw, to)' = Takes(from, count, R, raw, to)
    BY <1>1 DEF Takes, Leaving, Fits, Statable
  <1>5. \A i : EndOf(i)' = EndOf(i)
    BY <1>1 DEF EndOf
  <1>6. InPlace(path, lay)'
    <2>1. InPlace(path, lay)
      BY DEF Writ
    <2>2. \A i : TakenAt(i, path)' = TakenAt(i, path)
      BY <1>1, <1>4 DEF TakenAt
    <2>3. \A i : Placed(i, lay)' = Placed(i, lay)
      BY <1>1, <1>2, <1>3, <1>5 DEF Placed, Whole
    <2> QED
      BY <1>1, <1>5, <2>1, <2>2, <2>3 DEF InPlace
  <1>7. Underway(path, now)'
    <2>1. Underway(path, now)
      BY DEF Writ
    <2> QED
      BY <1>1, <1>2, <1>3, <1>4, <1>5, <2>1 DEF Underway, WroteOn
  <1> QED
    BY <1>6, <1>7 DEF Writ

(* Damage takes records from those that are sound; of the others nothing is  *)
(* known any more that it could change.                                      *)
LEMMA FollowsDamage ==
    ASSUME Typed, Typed', Damage, NEW path, NEW lay, Follows(path, lay)
    PROVE  Follows(path, lay)'
  <1>1. /\ phase = "boundary" /\ damaged = 0 /\ damaged' \in DOMAIN disk
        /\ UNCHANGED <<framing, sent, intact, ends, framed, pos, phase, rstate, rcount, rfirst, got>>
    BY DEF Damage, config, writer, reader
  <1>2. damaged' # 0
    BY <1>1 DEF Typed, FileTyped
  <1>3. InStep' \subseteq InStep /\ Sound' \subseteq Sound /\ \A i : EndOf(i)' = EndOf(i)
    BY <1>1 DEF InStep, Sound, EndOf
  <1>4. Handed'
    BY <1>1, <1>3 DEF Follows, Handed, Record
  <1>5. Between(path)'
    <2>1. Separates' <=> Separates
      BY <1>1 DEF Separates
    <2> QED
      BY <1>1, <1>3, <2>1 DEF Follows, Between, OnPath
  <1>6. Finds'
    BY <1>1, <1>2 DEF Finds, Clean
  <1> QED
    BY <1>1, <1>4, <1>5, <1>6 DEF Follows, Begun, Leads, Selects, Looks, Admits, Finishes, Opened

(* FollowsFromStart of the state that follows.                               *)
LEMMA FollowsFromStartNext ==
    ASSUME NEW path, NEW lay
    PROVE  (Typed /\ ReaderInit /\ InPlace(path, lay) => Follows(path, lay))'
  <1>1. Typed /\ ReaderInit /\ InPlace(path, lay) => Follows(path, lay)
    BY FollowsFromStart
  <1> QED
    BY <1>1, PTL

-----------------------------------------------------------------------------
(* A record that was not finished. Another ghost, at, says where the writes  *)
(* of the record in hand would have ended; the file ends somewhere on the    *)
(* way.                                                                      *)

Smaller(a, b) == IF a < b THEN a ELSE b

(* Where the writes of record i end, if its emission begins at base: the     *)
(* k-th at Plan(i, base, raw)[k].                                            *)
Plan(i, base, raw) ==
    [k \in 0 .. Len(EmissionOf(i, raw)) |->
        IF framing.how = "segmented"
          THEN base + ((k + 1) \div 2) * DescriptorWidth + Smaller((k \div 2) * Most, Len(raw))
          ELSE base + (IF k = 0 THEN 0 ELSE Len(EmissionOf(i, raw)[1].bytes))
                    + (IF k = 2 THEN Len(EmissionOf(i, raw)[2].bytes) ELSE 0)]

(* One write behind another.                                                 *)
Ascends(em, at) ==
    /\ \A k \in 0 .. Len(em) : at[k] \in Nat
    /\ \A k \in 1 .. Len(em) : at[k] = at[k - 1] + Len(em[k].bytes)
    /\ \A j, k \in 0 .. Len(em) : j <= k => at[j] <= at[k]

(* The writes of a record in segments: a word and a piece, and again.        *)
WordsAndPieces(em, raw, n) ==
    \A j \in 1 .. n :
        /\ em[2 * j - 1] = Frame(Word(Len(Pieces(raw)[j]) + DescriptorWidth, Code(j, n)))
        /\ em[2 * j] = Data(Pieces(raw)[j])

(* What Emission makes of a record in segments.                              *)
LEMMA SegmentEmission ==
    ASSUME framing \in Framings, framing.how = "segmented",
           NEW raw \in Seq(Byte), Len(raw) >= 1, NEW i, NEW n, n = Len(Pieces(raw))
    PROVE  n \in Nat \ {0} /\ Len(EmissionOf(i, raw)) = 2 * n /\ WordsAndPieces(EmissionOf(i, raw), raw, n)
  <1> DEFINE em == EmissionOf(i, raw)
             word(j) == Word(Len(Pieces(raw)[j]) + DescriptorWidth, Code(j, n))
             c(k) == LET j == (k + 1) \div 2
                     IN  IF k % 2 = 1 THEN Frame(word(j)) ELSE Data(Pieces(raw)[j])
  <1>1. n \in Nat \ {0}
    BY PiecesCover
  <1>2. em = [k \in 1 .. 2 * n |-> c(k)]
    BY DEF EmissionOf, Segmented
  <1> HIDE DEF em, word
  <1>3. Len(em) = 2 * n
    <2>1. 2 * n \in Nat
      BY <1>1
    <2> HIDE DEF c
    <2> QED
      BY <1>2, <2>1
  <1>4. ASSUME NEW j \in 1 .. n
        PROVE  em[2 * j - 1] = Frame(word(j)) /\ em[2 * j] = Data(Pieces(raw)[j])
    <2> DEFINE a == 2 * j - 1
               b == 2 * j
    <2>1. a \in 1 .. 2 * n /\ b \in 1 .. 2 * n /\ j \in Nat \ {0}
      BY <1>1
    <2>2. (a + 1) \div 2 = j /\ a % 2 = 1 /\ (b + 1) \div 2 = j /\ b % 2 = 0
      BY <2>1, Doubles
    <2>3. em[a] = c(a) /\ em[b] = c(b)
      <3> HIDE DEF c, a, b
      <3> QED
        BY <1>2, <2>1
    <2> HIDE DEF a, b
    <2>4. em[a] = Frame(word(j)) /\ em[b] = Data(Pieces(raw)[j])
      BY <2>2, <2>3
    <2> QED
      BY <2>4 DEF a, b
  <1> QED
    BY <1>1, <1>3, <1>4 DEF em, word, WordsAndPieces

(* More of the same is no less.                                              *)
LEMMA MoreOfTheSame ==
    ASSUME NEW a \in Nat, NEW b \in Nat, NEW m \in Nat, a <= b
    PROVE  a * m \in Nat /\ b * m \in Nat /\ a * m <= b * m
  <1>1. PICK e : e = b - a
    OBVIOUS
  <1>2. e \in Nat /\ b = a + e
    BY <1>1
  <1>3. a * m \in Nat /\ e * m \in Nat /\ (a + e) * m = a * m + e * m
    BY <1>2
  <1>4. b * m = a * m + e * m
    BY <1>2, <1>3
  <1> QED
    BY <1>3, <1>4

(* Places in pairs.                                                          *)
LEMMA InPairs ==
    /\ \A k \in Nat : (k + 1) \div 2 \in Nat /\ k \div 2 \in Nat
    /\ \A j, k \in Nat : j <= k => (j + 1) \div 2 <= (k + 1) \div 2 /\ j \div 2 <= k \div 2
    /\ \A j \in Nat : (2 * j) \div 2 = j /\ (2 * j + 1) \div 2 = j
    /\ \A j \in Nat \ {0} : (2 * j - 1) \div 2 = j - 1 /\ (2 * j - 1 + 1) \div 2 = j
  OBVIOUS

(* Where the writes of a record in segments end.                             *)
InSegments(at, base, raw, n) ==
    /\ \A k \in 0 .. 2 * n : at[k] \in Nat
    /\ \A j, k \in 0 .. 2 * n : j <= k => at[j] <= at[k]
    /\ at[0] = base /\ at[2 * n] = base + n * DescriptorWidth + Len(raw)
    /\ \A j \in 1 .. n : /\ at[2 * j - 1] = at[2 * (j - 1)] + DescriptorWidth
                         /\ at[2 * j] = at[2 * j - 1] + Len(Pieces(raw)[j])

(* The plan of a record in segments puts each piece behind its word, and no  *)
(* write behind one that follows it.                                         *)
LEMMA PlanOfSegments ==
    ASSUME framing \in Framings, framing.how = "segmented",
           NEW raw \in Seq(Byte), Len(raw) >= 1, NEW i, NEW base \in Nat, NEW n, n = Len(Pieces(raw)),
           NEW at, at = Plan(i, base, raw)
    PROVE  n \in Nat \ {0} /\ DOMAIN at = 0 .. 2 * n /\ InSegments(at, base, raw, n)
  <1> DEFINE L == Len(raw)
             m == Most
             f(k) == base + ((k + 1) \div 2) * 4 + Smaller((k \div 2) * m, L)
  <1>1. m \in Nat \ {0} /\ L \in Nat \ {0} /\ n \in Nat \ {0} /\ Len(EmissionOf(i, raw)) = 2 * n
    BY MostTyped, SegmentEmission
  <1>2. at = [k \in 0 .. 2 * n |-> f(k)]
    BY <1>1 DEF Plan, DescriptorWidth
  <1>3. \A k \in 0 .. 2 * n : at[k] = f(k)
    <2> HIDE DEF f
    <2> QED
      BY <1>2
  <1> HIDE DEF L, m
  <1>4. ASSUME NEW k \in 0 .. 2 * n PROVE at[k] \in Nat
    <2>1. (k + 1) \div 2 \in Nat /\ k \div 2 \in Nat
      BY <1>1, InPairs
    <2>2. (k \div 2) * m \in Nat
      BY <1>1, <2>1, MoreOfTheSame
    <2>3. PICK a, c : a = (k + 1) \div 2 /\ c = (k \div 2) * m
      OBVIOUS
    <2>4. at[k] = base + a * 4 + Smaller(c, L)
      BY <1>3, <2>3
    <2>5. a \in Nat /\ Smaller(c, L) \in Nat
      BY <1>1, <2>1, <2>2, <2>3 DEF Smaller
    <2> QED
      BY <2>4, <2>5
  <1>5. ASSUME NEW j \in 0 .. 2 * n, NEW k \in 0 .. 2 * n, j <= k PROVE at[j] <= at[k]
    <2>1. PICK a, b, c, d : a = (j + 1) \div 2 /\ b = (k + 1) \div 2 /\ c = j \div 2 /\ d = k \div 2
      OBVIOUS
    <2>2. a \in Nat /\ b \in Nat /\ c \in Nat /\ d \in Nat /\ a <= b /\ c <= d
      BY <1>1, <1>5, <2>1, InPairs
    <2>3. c * m \in Nat /\ d * m \in Nat /\ c * m <= d * m
      BY <1>1, <2>2, MoreOfTheSame
    <2>4. at[j] = base + a * 4 + Smaller(c * m, L) /\ at[k] = base + b * 4 + Smaller(d * m, L)
      BY <1>3, <2>1
    <2>5. Smaller(c * m, L) <= Smaller(d * m, L) /\ Smaller(c * m, L) \in Nat /\ Smaller(d * m, L) \in Nat
      BY <1>1, <2>3 DEF Smaller
    <2> QED
      BY <2>2, <2>4, <2>5
  <1>6. \A j \in 0 .. n : at[2 * j] = base + j * 4 + Smaller(j * m, L)
    <2> SUFFICES ASSUME NEW j \in 0 .. n PROVE at[2 * j] = base + j * 4 + Smaller(j * m, L)
      OBVIOUS
    <2>1. 2 * j \in 0 .. 2 * n /\ j \in Nat
      BY <1>1
    <2>2. (2 * j) \div 2 = j /\ (2 * j + 1) \div 2 = j
      BY <2>1, InPairs
    <2> QED
      BY <1>3, <2>1, <2>2
  <1>7. \A j \in 1 .. n : at[2 * j - 1] = base + j * 4 + Smaller((j - 1) * m, L)
    <2> SUFFICES ASSUME NEW j \in 1 .. n PROVE at[2 * j - 1] = base + j * 4 + Smaller((j - 1) * m, L)
      OBVIOUS
    <2>1. 2 * j - 1 \in 0 .. 2 * n /\ j \in Nat \ {0}
      BY <1>1
    <2>2. (2 * j - 1) \div 2 = j - 1 /\ (2 * j - 1 + 1) \div 2 = j
      BY <2>1, InPairs
    <2> QED
      BY <1>3, <2>1, <2>2
  <1>8. ASSUME NEW j \in 1 .. n
        PROVE  /\ at[2 * j - 1] = at[2 * (j - 1)] + 4
               /\ at[2 * j] = at[2 * j - 1] + Len(Pieces(raw)[j])
               /\ j = n => Smaller(j * m, L) = L
    <2>1. PICK a, b, l : a = (j - 1) * m /\ b = j * m /\ l = Len(Pieces(raw)[j])
      OBVIOUS
    <2>2. /\ a \in Nat /\ b \in Nat /\ b = a + m
          /\ l \in 1 .. m
          /\ j < n => l = m /\ b < L
          /\ j = n => a + l = L
      BY <2>1, PiecesCover DEF m, L
    <2>3. j = n \/ j < n
      BY <1>1
    <2>4. a < L
      BY <1>1, <2>2, <2>3
    <2>5. Smaller(a, L) = a /\ Smaller(b, L) = a + l /\ (j = n => Smaller(b, L) = L)
      BY <1>1, <2>2, <2>3, <2>4 DEF Smaller
    <2>6. j - 1 \in 0 .. n /\ j \in 0 .. n /\ j \in Nat
      BY <1>1
    <2>7. at[2 * (j - 1)] = base + (j - 1) * 4 + a /\ at[2 * j] = base + j * 4 + (a + l) /\ at[2 * j - 1] = base + j * 4 + a
      BY <1>6, <1>7, <2>1, <2>5, <2>6
    <2>8. at[2 * j - 1] = at[2 * (j - 1)] + 4
      BY <2>2, <2>6, <2>7
    <2>9. at[2 * j] = at[2 * j - 1] + l
      BY <2>2, <2>6, <2>7
    <2> QED
      BY <2>1, <2>5, <2>8, <2>9
  <1>9. at[0] = base
    <2>1. 0 \in 0 .. n /\ 2 * 0 = 0 /\ 0 * m = 0 /\ 0 * 4 = 0
      BY <1>1
    <2>2. Smaller(0, L) = 0
      BY <1>1 DEF Smaller
    <2> QED
      BY <1>6, <2>1, <2>2
  <1>10. at[2 * n] = base + n * 4 + L
    <2>1. n \in 1 .. n /\ n \in 0 .. n
      BY <1>1
    <2> QED
      BY <1>6, <1>8, <2>1
  <1>11. DOMAIN at = 0 .. 2 * n
    BY <1>2
  <1> QED
    BY <1>1, <1>4, <1>5, <1>8, <1>9, <1>10, <1>11 DEF L, DescriptorWidth, InSegments

(* An odd place or the even one behind it.                                   *)
LEMMA OddOrEven ==
    ASSUME NEW n \in Nat, NEW k \in 1 .. 2 * n
    PROVE  \E j \in 1 .. n : k = 2 * j - 1 \/ k = 2 * j
  <1>1. PICK j : j = (k + 1) \div 2
    OBVIOUS
  <1>2. j \in 1 .. n
    BY <1>1, Halves
  <1>3. k = 2 * j - 1 \/ k = 2 * j
    BY <1>1
  <1> QED
    BY <1>2, <1>3

(* So does the plan of every record, ...                                     *)
LEMMA PlanAscends ==
    ASSUME framing \in Framings, NEW raw \in Seq(Byte), Len(raw) >= 1, NEW i, NEW base \in Nat,
           NEW em, em = EmissionOf(i, raw), NEW at, at = Plan(i, base, raw)
    PROVE  /\ em \in Seq(Chunk) /\ Len(em) \in Nat \ {0}
           /\ \A k \in 1 .. Len(em) : em[k] \in Chunk /\ em[k].bytes \in Seq(Byte) /\ Len(em[k].bytes) \in Nat
           /\ Ascends(em, at) /\ at[0] = base
  <1>1. em \in Seq(Chunk) /\ Len(em) \in Nat \ {0} /\ DOMAIN em = 1 .. Len(em)
    <2>1. em \in Seq(Chunk) /\ em # <<>>
      BY EmissionTyped
    <2> QED
      BY <2>1
  <1>2. \A k \in 1 .. Len(em) : em[k] \in Chunk /\ em[k].bytes \in Seq(Byte) /\ Len(em[k].bytes) \in Nat
    <2>1. \A k \in 1 .. Len(em) : em[k] \in Chunk
      BY <1>1
    <2> QED
      BY <2>1 DEF Chunk
  <1>3. CASE framing.how = "segmented"
    <2>1. PICK n : n = Len(Pieces(raw))
      OBVIOUS
    <2>2. /\ n \in Nat \ {0}
          /\ \A k \in 0 .. 2 * n : at[k] \in Nat
          /\ \A j, k \in 0 .. 2 * n : j <= k => at[j] <= at[k]
          /\ at[0] = base
          /\ \A j \in 1 .. n : /\ at[2 * j - 1] = at[2 * (j - 1)] + DescriptorWidth
                               /\ at[2 * j] = at[2 * j - 1] + Len(Pieces(raw)[j])
      <3>1. n \in Nat \ {0} /\ InSegments(at, base, raw, n)
        BY <1>3, <2>1, PlanOfSegments
      <3> QED
        BY <3>1 DEF InSegments
    <2>3. /\ Len(em) = 2 * n
          /\ \A j \in 1 .. n :
                 /\ em[2 * j - 1] = Frame(Word(Len(Pieces(raw)[j]) + DescriptorWidth, Code(j, n)))
                 /\ em[2 * j] = Data(Pieces(raw)[j])
      <3>1. Len(em) = 2 * n /\ WordsAndPieces(em, raw, n)
        BY <1>3, <2>1, SegmentEmission
      <3> QED
        BY <3>1 DEF WordsAndPieces
    <2>4. ASSUME NEW k \in 1 .. 2 * n PROVE at[k] = at[k - 1] + Len(em[k].bytes)
      <3>1. PICK j \in 1 .. n : k = 2 * j - 1 \/ k = 2 * j
        BY <2>2, OddOrEven
      <3>2. CASE k = 2 * j - 1
        <4>1. k - 1 = 2 * (j - 1)
          BY <2>2, <3>2
        <4>2. Len(em[k].bytes) = DescriptorWidth
          <5>1. em[k] = Frame(Word(Len(Pieces(raw)[j]) + DescriptorWidth, Code(j, n)))
            BY <2>3, <3>2
          <5>2. \A w, c : Len(Frame(Word(w, c)).bytes) = DescriptorWidth
            BY DEF Frame, Word, DescriptorWidth
          <5> QED
            BY <5>1, <5>2
        <4> QED
          BY <2>2, <3>2, <4>1, <4>2
      <3>3. CASE k = 2 * j
        <4>1. k - 1 = 2 * j - 1
          BY <2>2, <3>3
        <4>2. em[k].bytes = Pieces(raw)[j]
          <5>1. em[k] = Data(Pieces(raw)[j])
            BY <2>3, <3>3
          <5>2. Data(Pieces(raw)[j]).bytes = Pieces(raw)[j]
            BY DEF Data
          <5> QED
            BY <5>1, <5>2
        <4> QED
          BY <2>2, <3>3, <4>1, <4>2
      <3> QED
        BY <3>1, <3>2, <3>3
    <2> QED
      BY <1>1, <1>2, <2>2, <2>3, <2>4 DEF Ascends
  <1>4. CASE framing.how # "segmented"
    <2>1. framing.how \in How
      BY FramingsAdmitted DEF Admissible
    <2>2. Len(em) \in {1, 2}
      BY <1>4, <2>1 DEF EmissionOf, How
    <2>3. at = [k \in 0 .. Len(em) |-> base + (IF k = 0 THEN 0 ELSE Len(em[1].bytes)) + (IF k = 2 THEN Len(em[2].bytes) ELSE 0)]
      BY <1>4 DEF Plan
    <2>4. PICK l : l = Len(em[1].bytes)
      OBVIOUS
    <2>5. l \in Nat
      BY <1>1, <1>2, <2>4
    <2>6. at[0] = base /\ at[1] = base + l
      BY <1>1, <2>2, <2>3, <2>4, <2>5
    <2>7. CASE Len(em) = 1
      <3>1. \A k \in 0 .. 1 : k = 0 \/ k = 1
        OBVIOUS
      <3>2. \A k \in 0 .. 1 : at[k] \in Nat
        BY <2>5, <2>6, <3>1
      <3>3. \A k \in 1 .. 1 : at[k] = at[k - 1] + Len(em[k].bytes)
        <4>1. \A k \in 1 .. 1 : k = 1 /\ k - 1 = 0
          OBVIOUS
        <4> QED
          BY <2>4, <2>5, <2>6, <4>1
      <3>4. \A j, k \in 0 .. 1 : j <= k => at[j] <= at[k]
        BY <2>5, <2>6, <3>1
      <3> QED
        BY <1>1, <1>2, <2>6, <2>7, <3>2, <3>3, <3>4 DEF Ascends
    <2>8. CASE Len(em) = 2
      <3>1. PICK z : z = Len(em[2].bytes)
        OBVIOUS
      <3>2. z \in Nat /\ at[2] = base + l + z
        <4>1. 2 \in 1 .. Len(em) /\ 2 \in 0 .. Len(em)
          BY <2>8
        <4> QED
          BY <1>2, <2>3, <2>4, <3>1, <4>1
      <3>3. \A k \in 0 .. 2 : k = 0 \/ k = 1 \/ k = 2
        OBVIOUS
      <3>4. \A k \in 0 .. 2 : at[k] \in Nat
        BY <2>5, <2>6, <3>2, <3>3
      <3>5. \A k \in 1 .. 2 : at[k] = at[k - 1] + Len(em[k].bytes)
        <4>1. \A k \in 1 .. 2 : (k = 1 /\ k - 1 = 0) \/ (k = 2 /\ k - 1 = 1)
          OBVIOUS
        <4> QED
          BY <2>4, <2>5, <2>6, <3>1, <3>2, <4>1
      <3>6. \A j, k \in 0 .. 2 : j <= k => at[j] <= at[k]
        BY <2>5, <2>6, <3>2, <3>3
      <3> QED
        BY <1>1, <1>2, <2>6, <2>8, <3>4, <3>5, <3>6 DEF Ascends
    <2> QED
      BY <2>2, <2>7, <2>8
  <1> QED
    BY <1>3, <1>4

-----------------------------------------------------------------------------
(* Bytes that were put from a position on, as far as the file goes.          *)
Starts(at, bytes) == \A p \in 1 .. Len(bytes) : at + p <= Len(disk) => disk[at + p] = bytes[p]

(* The file ends in the middle of an emission, or with it.                   *)
Goes(em, at) ==
    /\ at[0] <= Len(disk) /\ Len(disk) <= at[Len(em)]
    /\ \A k \in 1 .. Len(em) : Starts(at[k - 1], em[k].bytes)

(* Some of the next write goes behind the others.                            *)
LEMMA PutGoes ==
    ASSUME disk \in Seq(Byte), damaged = 0, NEW em, em \in Seq(Chunk), NEW at, Ascends(em, at), Goes(em, at),
           NEW k \in 1 .. Len(em), Len(disk) = at[k - 1],
           NEW n \in 0 .. Len(em[k].bytes), Put(em[k], n)
    PROVE  /\ Goes(em, at)' /\ Len(disk') = at[k - 1] + n
           /\ n = Len(em[k].bytes) => Len(disk') = at[k]
  <1>1. PICK c : c = em[k]
    OBVIOUS
  <1>2. PICK l : l = Len(em)
    OBVIOUS
  <1>3. /\ c \in Chunk /\ l \in Nat /\ Len(disk) \in Nat
        /\ \A j \in 1 .. l : em[j] \in Chunk /\ Len(em[j].bytes) \in Nat
    <2>1. \A j \in 1 .. Len(em) : em[j] \in Chunk
      OBVIOUS
    <2>2. \A j \in 1 .. Len(em) : Len(em[j].bytes) \in Nat
      BY <2>1 DEF Chunk
    <2> QED
      BY <1>1, <1>2, <2>1, <2>2
  <1>4. /\ Len(disk') = Len(disk) + n
        /\ \A p \in 1 .. Len(disk) : disk'[p] = disk[p]
        /\ \A p \in 1 .. n : disk'[Len(disk) + p] = c.bytes[p]
    BY <1>1, <1>3, PutTyped
  <1>5. /\ k \in 1 .. l /\ k - 1 \in 0 .. l /\ k \in 0 .. l /\ l \in 0 .. l /\ 0 \in 0 .. l /\ k <= l
        /\ Len(em[k].bytes) \in Nat /\ n \in Nat /\ n <= Len(em[k].bytes)
    BY <1>2, <1>3
  <1>6. /\ \A j \in 0 .. l : at[j] \in Nat
        /\ \A j \in 1 .. l : at[j] = at[j - 1] + Len(em[j].bytes)
        /\ \A i, j \in 0 .. l : i <= j => at[i] <= at[j]
    BY <1>2 DEF Ascends
  <1>7. at[k] = at[k - 1] + Len(em[k].bytes) /\ at[k] <= at[l] /\ at[0] <= at[k - 1]
        /\ at[k] \in Nat /\ at[k - 1] \in Nat /\ at[l] \in Nat /\ at[0] \in Nat
    BY <1>3, <1>5, <1>6
  <1>8. Len(disk') = at[k - 1] + n /\ at[0] <= Len(disk') /\ Len(disk') <= at[l] /\ Len(disk') <= at[k] /\ Len(disk') \in Nat
    <2>1. PICK a, b, c1, d, x, y, z : a = at[k - 1] /\ b = at[k] /\ c1 = at[l] /\ d = at[0] /\ x = Len(disk) /\ y = Len(disk') /\ z = Len(em[k].bytes)
      OBVIOUS
    <2>2. y = x + n /\ x = a /\ b = a + z /\ b <= c1 /\ d <= a /\ n <= z /\ n \in Nat /\ a \in Nat /\ b \in Nat /\ c1 \in Nat /\ d \in Nat /\ x \in Nat /\ z \in Nat
      BY <1>3, <1>4, <1>5, <1>7, <2>1
    <2>3. y = a + n /\ d <= y /\ y <= c1 /\ y <= b /\ y \in Nat
      BY <2>2
    <2> QED
      BY <2>1, <2>3
  <1>9. ASSUME NEW j \in 1 .. l, NEW p \in 1 .. Len(em[j].bytes), at[j - 1] + p <= Len(disk')
        PROVE  disk'[at[j - 1] + p] = em[j].bytes[p]
    <2>1. j - 1 \in 0 .. l /\ j \in 0 .. l /\ at[j - 1] \in Nat /\ at[j] \in Nat /\ p \in Nat /\ p >= 1
      BY <1>3, <1>6
    <2>2. CASE at[j - 1] + p <= Len(disk)
      <3>1. disk[at[j - 1] + p] = em[j].bytes[p]
        BY <1>2, <1>9, <2>2 DEF Goes, Starts
      <3>2. at[j - 1] + p \in 1 .. Len(disk)
        BY <1>3, <2>1, <2>2
      <3> QED
        BY <1>4, <3>1, <3>2
    <2>3. CASE ~ (at[j - 1] + p <= Len(disk))
      <3>1. at[j] = at[j - 1] + Len(em[j].bytes) /\ Len(em[j].bytes) \in Nat
        BY <1>3, <1>6
      <3>2. PICK a, b, c1, d, x, y, z : a = at[j - 1] /\ b = at[j] /\ c1 = at[k - 1] /\ d = at[k] /\ x = Len(disk) /\ y = Len(disk') /\ z = Len(em[j].bytes)
        OBVIOUS
      <3>3. /\ a \in Nat /\ b \in Nat /\ c1 \in Nat /\ d \in Nat /\ x \in Nat /\ y \in Nat /\ z \in Nat /\ n \in Nat /\ p \in 1 .. z
            /\ b = a + z /\ x = c1 /\ y = c1 + n /\ y <= d /\ a + p <= y /\ ~ (a + p <= x)
        BY <1>3, <1>5, <1>7, <1>8, <1>9, <2>1, <2>3, <3>1, <3>2
      <3>4. j <= k - 1 => b <= c1
        BY <1>5, <1>6, <2>1, <3>2
      <3>5. k <= j - 1 => d <= a
        BY <1>5, <1>6, <2>1, <3>2
      <3>6. j = k
        <4>1. ~ (b <= c1) /\ ~ (d <= a)
          BY <3>3
        <4> QED
          BY <1>5, <3>4, <3>5, <4>1
      <3>7. a = c1
        BY <3>2, <3>6
      <3>8. p \in 1 .. n
        BY <3>3, <3>7
      <3>9. at[j - 1] = Len(disk) /\ em[j].bytes = c.bytes
        BY <1>1, <3>2, <3>3, <3>6, <3>7
      <3> QED
        BY <1>4, <3>8, <3>9
    <2> QED
      BY <2>2, <2>3
  <1> QED
    BY <1>2, <1>7, <1>8, <1>9 DEF Goes, Starts

(* A record was begun and not finished, and nothing was written behind it.   *)
Torn == ~ WroteOn /\ (chunks # <<>> \/ failures = 1)

(* Where the writes of a record end that is emitted from base on.            *)
Planned(em, at, base, raw) ==
    /\ Ascends(em, at) /\ at[0] = base
    /\ framing.how = "segmented" => InSegments(at, base, raw, Len(Pieces(raw)))

(* The file ends somewhere in the record in hand, which follows the last one *)
(* that was finished.                                                        *)
Tears(at) ==
    damaged = 0 /\ Torn =>
        /\ intact = Len(sent)
        /\ Takes(wstate, wcount, hand.record, hand.raw, hand.to) /\ wcount \in Int
        /\ Planned(EmissionOf(intact + 1, hand.raw), at, EndOf(intact), hand.raw)
        /\ Goes(EmissionOf(intact + 1, hand.raw), at)
        /\ chunks # <<>> =>
              \E k \in 0 .. Len(EmissionOf(intact + 1, hand.raw)) - 1 :
                  /\ chunks = SubSeq(EmissionOf(intact + 1, hand.raw), k + 1, Len(EmissionOf(intact + 1, hand.raw)))
                  /\ Len(disk) = at[k]

(* ... which begins where it is told to.                                     *)
LEMMA PlanIsPlanned ==
    ASSUME framing \in Framings, NEW raw \in Seq(Byte), Len(raw) >= 1, NEW i, NEW base \in Nat,
           NEW em, em = EmissionOf(i, raw), NEW at, at = Plan(i, base, raw)
    PROVE  Planned(em, at, base, raw)
  <1>1. Ascends(em, at) /\ at[0] = base
    BY PlanAscends
  <1>2. PICK n : n = Len(Pieces(raw))
    OBVIOUS
  <1>3. framing.how = "segmented" => InSegments(at, base, raw, n)
    BY <1>2, PlanOfSegments
  <1> QED
    BY <1>1, <1>2, <1>3 DEF Planned

(* What Tears depends on.                                                    *)
LEMMA TearsStays ==
    ASSUME UNCHANGED <<layout, framing, disk, damaged, wstate, wcount, hand, chunks, sent, ends, failures, intact>>, NEW at
    PROVE  Tears(at)' = Tears(at)
  <1>1. \A i, raw : EmissionOf(i, raw)' = EmissionOf(i, raw)
    BY DEF EmissionOf, Segmented, Pieces, Most
  <1>2. \A from, count, R, raw, to : Takes(from, count, R, raw, to)' = Takes(from, count, R, raw, to)
    BY DEF Takes, Leaving, Fits, Statable
  <1>3. \A i : EndOf(i)' = EndOf(i)
    BY DEF EndOf
  <1>4. \A em, base, raw : Planned(em, at, base, raw)' = Planned(em, at, base, raw)
    BY DEF Planned, Ascends, InSegments, Pieces, Most
  <1>5. \A em : Goes(em, at)' = Goes(em, at)
    BY DEF Goes, Starts
  <1>6. Torn' = Torn
    BY DEF Torn, WroteOn
  <1> QED
    BY <1>1, <1>2, <1>3, <1>4, <1>5, <1>6 DEF Tears

(* An emission that is begun.                                                *)
LEMMA TearsWrite ==
    ASSUME Typed, Typed', Write, damaged' = damaged, damaged = 0, NEW path, NEW lay, NEW now, Writ(path, lay, now)
    PROVE  \E at : Tears(at)'
  <1>1. /\ UNCHANGED <<layout, framing, disk, framed, sent, ends, intact, failures, wstate, wcount>>
        /\ chunks = <<>> /\ first' = FALSE
    BY DEF Write, config
  <1>2. /\ Takes(wstate, wcount, hand'.record, hand'.raw, hand'.to)
        /\ chunks' = Emission(hand'.raw)
        /\ hand' \in Held /\ Len(hand'.raw) >= 1
        /\ chunks' \in Seq(Chunk) /\ chunks' # <<>>
    BY WriteTakes
  <1>3. /\ framing \in Framings /\ failures \in Nat /\ intact \in Nat /\ Len(disk) \in Nat /\ hand'.raw \in Seq(Byte)
        /\ failures = 0 => intact = Len(sent)
    BY <1>2 DEF Typed, FileTyped, WriterTyped, Held
  <1>4. PICK raw, base : raw = hand'.raw /\ base = EndOf(intact)
    OBVIOUS
  <1>5. PICK at : at = Plan(intact + 1, base, raw)
    OBVIOUS
  <1>6. PICK em : em = EmissionOf(intact + 1, raw)
    OBVIOUS
  <1>7. CASE failures # 0
    <2>1. ~ Torn'
      BY <1>1, <1>2, <1>3, <1>7 DEF Torn, WroteOn
    <2>2. Tears(at)'
      BY <2>1 DEF Tears
    <2> QED
      BY <2>2
  <1>8. CASE failures = 0
    <2>1. /\ wstate = path[intact].state /\ wcount = path[intact].count /\ Len(disk) = EndOf(intact) /\ (first <=> intact = 0)
          /\ path[intact].count \in Int
      BY <1>1, <1>3, <1>8 DEF Writ, Underway, InPlace
    <2>2. chunks' = em
      <3>1. first <=> intact + 1 = 1
        BY <1>3, <2>1
      <3> QED
        BY <1>2, <1>4, <1>6, <3>1 DEF Emission, EmissionOf
    <2>3. /\ em \in Seq(Chunk) /\ Len(em) \in Nat \ {0} /\ em = SubSeq(em, 0 + 1, Len(em))
          /\ \A k \in 1 .. Len(em) : Len(em[k].bytes) \in Nat
      <3>1. em \in Seq(Chunk) /\ em # <<>>
        BY <1>2, <2>2
      <3>2. em = SubSeq(em, 0 + 1, Len(em))
        BY <3>1, SubSeqFull
      <3>3. \A k \in 1 .. Len(em) : em[k] \in Chunk
        BY <3>1
      <3> QED
        BY <3>1, <3>2, <3>3 DEF Chunk
    <2>4. raw \in Seq(Byte) /\ Len(raw) >= 1 /\ base \in Nat /\ Len(disk) = base
      BY <1>2, <1>3, <1>4, <2>1
    <2>5. Planned(em, at, base, raw)
      BY <1>3, <1>5, <1>6, <2>4, PlanIsPlanned
    <2>6. Goes(em, at)
      <3>1. at[0] = base /\ Ascends(em, at)
        BY <2>5 DEF Planned
      <3>2. ASSUME NEW k \in 1 .. Len(em), NEW p \in 1 .. Len(em[k].bytes), at[k - 1] + p <= Len(disk)
            PROVE  FALSE
        <4>1. k - 1 \in 0 .. Len(em) /\ 0 \in 0 .. Len(em) /\ 0 <= k - 1 /\ p \in Nat /\ p >= 1
          BY <2>3
        <4>2. at[k - 1] \in Nat /\ base <= at[k - 1]
          BY <3>1, <4>1 DEF Ascends
        <4> QED
          BY <2>4, <3>2, <4>1, <4>2
      <3>3. base <= at[Len(em)]
        <4>1. Len(em) \in 0 .. Len(em) /\ 0 \in 0 .. Len(em) /\ 0 <= Len(em)
          BY <2>3
        <4> QED
          BY <3>1, <4>1 DEF Ascends
      <3> QED
        BY <2>4, <3>1, <3>2, <3>3 DEF Goes, Starts
    <2>7. EmissionOf(intact + 1, hand.raw)' = em
      BY <1>1, <1>4, <1>6 DEF EmissionOf, Segmented, Pieces, Most
    <2>8. EndOf(intact)' = base
      BY <1>1, <1>4 DEF EndOf
    <2>9. Takes(wstate, wcount, hand.record, hand.raw, hand.to)'
      BY <1>1, <1>2 DEF Takes, Leaving, Fits, Statable
    <2>10. Planned(em, at, base, raw)' /\ Goes(em, at)'
      BY <1>1, <2>5, <2>6 DEF Planned, Ascends, InSegments, Pieces, Most, Goes, Starts
    <2>11. Planned(EmissionOf(intact + 1, hand.raw), at, EndOf(intact), hand.raw)' /\ Goes(EmissionOf(intact + 1, hand.raw), at)'
      BY <1>4, <2>7, <2>8, <2>10 DEF Planned, Goes
    <2>12. 0 \in 0 .. Len(em) - 1 /\ chunks' = SubSeq(em, 0 + 1, Len(em)) /\ Len(disk') = at[0]
      BY <1>1, <2>2, <2>3, <2>4, <2>5 DEF Planned
    <2>13. Tears(at)'
      BY <1>1, <1>3, <1>8, <2>1, <2>7, <2>9, <2>11, <2>12 DEF Tears
    <2> QED
      BY <2>13
  <1> QED
    BY <1>7, <1>8

(* The write of the record in hand that comes next.                          *)
LEMMA TornNext ==
    ASSUME Typed, damaged = 0, chunks # <<>>, failures = 0, NEW at, Tears(at),
           NEW em, em = EmissionOf(intact + 1, hand.raw)
    PROVE  /\ Torn /\ em \in Seq(Chunk) /\ Len(em) \in Nat \ {0} /\ Ascends(em, at) /\ Goes(em, at)
           /\ \E k \in 1 .. Len(em) :
                 /\ Head(chunks) = em[k] /\ Tail(chunks) = SubSeq(em, k + 1, Len(em))
                 /\ k = Len(em) <=> Len(chunks) = 1
                 /\ Len(disk) = at[k - 1]
  <1>1. Torn
    BY DEF Torn, WroteOn, Typed, WriterTyped
  <1>2. /\ Takes(wstate, wcount, hand.record, hand.raw, hand.to)
        /\ Planned(em, at, EndOf(intact), hand.raw)
        /\ Goes(em, at)
        /\ \E j \in 0 .. Len(em) - 1 : chunks = SubSeq(em, j + 1, Len(em)) /\ Len(disk) = at[j]
    BY <1>1 DEF Tears
  <1>3. layout \in Layouts /\ framing \in Framings
    BY DEF Typed, FileTyped
  <1>4. hand.raw \in Seq(Byte) /\ Len(hand.raw) >= 1
    BY <1>2, <1>3, TakenRecord
  <1>5. em \in Seq(Chunk) /\ Len(em) \in Nat \ {0}
    <2>1. em \in Seq(Chunk) /\ em # <<>>
      BY <1>3, <1>4, EmissionTyped
    <2> QED
      BY <2>1
  <1>6. PICK j \in 0 .. Len(em) - 1 : chunks = SubSeq(em, j + 1, Len(em)) /\ Len(disk) = at[j]
    BY <1>2
  <1>7. PICK k : k = j + 1
    OBVIOUS
  <1>8. /\ j \in Nat /\ k \in 1 .. Len(em) /\ k \in Nat /\ k - 1 = j /\ Len(em) \in k .. Len(em)
    BY <1>5, <1>7
  <1>9. chunks = SubSeq(em, k, Len(em))
    BY <1>6, <1>7
  <1>10. Head(SubSeq(em, k, Len(em))) = em[k] /\ Tail(SubSeq(em, k, Len(em))) = SubSeq(em, k + 1, Len(em))
    BY <1>5, <1>8, HeadTailOfSubSeq
  <1>11. Len(SubSeq(em, k, Len(em))) = Len(em) - k + 1
    <2> DEFINE m == Len(em)
    <2>1. k \in Int /\ m \in Int /\ k <= m /\ \A i \in k .. m : em[i] \in Chunk
      BY <1>5, <1>8
    <2> HIDE DEF m
    <2>2. Len(SubSeq(em, k, m)) = IF k <= m THEN m - k + 1 ELSE 0
      BY <2>1, SubSeqProperties
    <2> QED
      BY <2>1, <2>2 DEF m
  <1>12. k = Len(em) <=> Len(chunks) = 1
    BY <1>5, <1>8, <1>9, <1>11
  <1>13. Len(disk) = at[k - 1]
    BY <1>6, <1>8
  <1> QED
    BY <1>1, <1>2, <1>5, <1>8, <1>9, <1>10, <1>12, <1>13 DEF Planned

(* A write that goes through takes the file a write further, ...             *)
LEMMA TearsPut ==
    ASSUME Typed, Typed', PutChunk, damaged' = damaged, damaged = 0, NEW at, Tears(at)
    PROVE  Tears(at)'
  <1>1. /\ chunks # <<>> /\ Put(Head(chunks), Len(Head(chunks).bytes)) /\ chunks' = Tail(chunks)
        /\ UNCHANGED <<layout, framing, hand, failures>>
    BY DEF PutChunk, config
  <1>2. /\ disk \in Seq(Byte) /\ failures \in Nat /\ intact \in Nat /\ intact <= Len(sent) /\ Len(sent) \in Nat
        /\ sent \in Seq(Sent) /\ hand \in Held /\ chunks \in Seq(Chunk)
    BY <1>1 DEF Typed, FileTyped, WriterTyped
  <1>3. CASE failures # 0
    <2>1. intact' = intact
      BY <1>3 DEF PutChunk
    <2>2. Len(chunks) = 1 => Len(sent') = Len(sent) + 1
      <3>1. [record |-> hand.record, raw |-> hand.raw] \in Sent
        BY <1>2 DEF Sent, Held
      <3>2. Len(chunks) = 1 => sent' = Append(sent, [record |-> hand.record, raw |-> hand.raw])
        BY DEF PutChunk
      <3> QED
        BY <1>2, <3>1, <3>2, AppendProperties
    <2>3. Len(chunks) # 1 => chunks' # <<>>
      BY <1>1, <1>2, HeadAndTail
    <2>4. WroteOn'
      BY <1>1, <1>2, <1>3, <2>1, <2>2, <2>3 DEF WroteOn
    <2> QED
      BY <2>4 DEF Tears, Torn
  <1>4. CASE failures = 0 /\ Len(chunks) = 1
    <2>1. chunks' = <<>>
      BY <1>1, <1>2, <1>4, HeadAndTail
    <2> QED
      BY <1>1, <1>4, <2>1 DEF Tears, Torn
  <1>5. CASE failures = 0 /\ Len(chunks) # 1
    <2>1. PICK em : em = EmissionOf(intact + 1, hand.raw)
      OBVIOUS
    <2>2. /\ Torn /\ em \in Seq(Chunk) /\ Len(em) \in Nat \ {0} /\ Ascends(em, at) /\ Goes(em, at)
          /\ \E k \in 1 .. Len(em) :
                 /\ Head(chunks) = em[k] /\ Tail(chunks) = SubSeq(em, k + 1, Len(em))
                 /\ k = Len(em) <=> Len(chunks) = 1
                 /\ Len(disk) = at[k - 1]
      BY <1>1, <1>5, <2>1, TornNext
    <2>3. PICK k \in 1 .. Len(em) :
                 /\ Head(chunks) = em[k] /\ Tail(chunks) = SubSeq(em, k + 1, Len(em))
                 /\ k = Len(em) <=> Len(chunks) = 1
                 /\ Len(disk) = at[k - 1]
      BY <2>2
    <2>4. Len(em[k].bytes) \in Nat
      BY <1>1, <1>2, <2>3, HeadAndTail
    <2>5. PICK n : n = Len(em[k].bytes)
      OBVIOUS
    <2>6. n \in 0 .. Len(em[k].bytes) /\ Put(em[k], n)
      BY <1>1, <2>3, <2>4, <2>5
    <2>7. Goes(em, at)' /\ Len(disk') = at[k]
      BY <1>2, <2>2, <2>3, <2>5, <2>6, PutGoes
    <2>8. UNCHANGED <<wstate, wcount, sent, ends, intact>>
      BY <1>5 DEF PutChunk
    <2>9. /\ intact = Len(sent)
          /\ Takes(wstate, wcount, hand.record, hand.raw, hand.to) /\ wcount \in Int
          /\ Planned(em, at, EndOf(intact), hand.raw)
      BY <2>1, <2>2 DEF Tears
    <2>10. EmissionOf(intact + 1, hand.raw)' = em
      BY <1>1, <2>1, <2>8 DEF EmissionOf, Segmented, Pieces, Most
    <2>11. EndOf(intact)' = EndOf(intact)
      BY <2>8 DEF EndOf
    <2>12. Takes(wstate, wcount, hand.record, hand.raw, hand.to)'
      BY <1>1, <2>8, <2>9 DEF Takes, Leaving, Fits, Statable
    <2>13. Planned(em, at, EndOf(intact), hand.raw)'
      BY <1>1, <2>9, <2>11 DEF Planned, Ascends, InSegments, Pieces, Most
    <2>14. Planned(EmissionOf(intact + 1, hand.raw), at, EndOf(intact), hand.raw)' /\ Goes(EmissionOf(intact + 1, hand.raw), at)'
      BY <2>7, <2>10, <2>13 DEF Planned, Goes
    <2>15. k \in 0 .. Len(em) - 1 /\ chunks' = SubSeq(em, k + 1, Len(em))
      BY <1>1, <1>5, <2>2, <2>3
    <2> QED
      BY <2>7, <2>8, <2>9, <2>10, <2>12, <2>14, <2>15 DEF Tears
  <1> QED
    BY <1>3, <1>4, <1>5

(* ... one that fails takes it some of the way, and the file stays there     *)
(* unless the caller writes on.                                              *)
LEMMA TearsFails ==
    ASSUME Typed, Typed', PutFails, damaged' = damaged, damaged = 0, NEW at, Tears(at)
    PROVE  Tears(at)'
  <1>1. PICK n \in 0 .. Len(Head(chunks).bytes) : Put(Head(chunks), n)
    BY DEF PutFails
  <1>2. /\ chunks # <<>> /\ UNCHANGED <<layout, framing, hand, intact, sent, ends, wstate, wcount>>
        /\ failures' = failures + 1 /\ failures \in Nat /\ chunks' = <<>> /\ disk \in Seq(Byte)
    BY DEF PutFails, config, Typed, WriterTyped, FileTyped
  <1>3. CASE failures # 0
    BY <1>2, <1>3 DEF Tears, Torn, WroteOn
  <1>4. CASE failures = 0
    <2>1. PICK em : em = EmissionOf(intact + 1, hand.raw)
      OBVIOUS
    <2>2. /\ Torn /\ em \in Seq(Chunk) /\ Len(em) \in Nat \ {0} /\ Ascends(em, at) /\ Goes(em, at)
          /\ \E k \in 1 .. Len(em) : Head(chunks) = em[k] /\ Len(disk) = at[k - 1]
      BY <1>2, <1>4, <2>1, TornNext
    <2>3. PICK k \in 1 .. Len(em) : Head(chunks) = em[k] /\ Len(disk) = at[k - 1]
      BY <2>2
    <2>4. n \in 0 .. Len(em[k].bytes) /\ Put(em[k], n)
      BY <1>1, <2>3
    <2>5. Goes(em, at)'
      BY <1>2, <2>2, <2>3, <2>4, PutGoes
    <2>6. /\ intact = Len(sent)
          /\ Takes(wstate, wcount, hand.record, hand.raw, hand.to) /\ wcount \in Int
          /\ Planned(em, at, EndOf(intact), hand.raw)
      BY <2>1, <2>2 DEF Tears
    <2>7. EmissionOf(intact + 1, hand.raw)' = em
      BY <1>2, <2>1 DEF EmissionOf, Segmented, Pieces, Most
    <2>8. EndOf(intact)' = EndOf(intact)
      BY <1>2 DEF EndOf
    <2>9. Takes(wstate, wcount, hand.record, hand.raw, hand.to)'
      BY <1>2, <2>6 DEF Takes, Leaving, Fits, Statable
    <2>10. Planned(em, at, EndOf(intact), hand.raw)'
      BY <1>2, <2>6, <2>8 DEF Planned, Ascends, InSegments, Pieces, Most
    <2>11. Planned(EmissionOf(intact + 1, hand.raw), at, EndOf(intact), hand.raw)' /\ Goes(EmissionOf(intact + 1, hand.raw), at)'
      BY <2>5, <2>7, <2>10 DEF Planned, Goes
    <2> QED
      BY <1>2, <2>6, <2>7, <2>9, <2>11 DEF Tears
  <1> QED
    BY <1>3, <1>4

(* Every step of the writer.                                                 *)
LEMMA TearsWriting ==
    ASSUME Typed, Typed', Writing, NEW path, NEW lay, NEW now, Writ(path, lay, now), NEW at, Tears(at)
    PROVE  \E then : Tears(then)'
  <1>1. damaged' = damaged /\ damaged = 0
    BY DEF Writing, Write, PutChunk, PutFails, Close, Abandon, Typed, FileTyped
  <1>2. CASE Write
    BY <1>1, <1>2, TearsWrite
  <1>3. CASE PutChunk
    <2>1. Tears(at)'
      BY <1>1, <1>3, TearsPut
    <2> QED
      BY <2>1
  <1>4. CASE PutFails
    <2>1. Tears(at)'
      BY <1>1, <1>4, TearsFails
    <2> QED
      BY <2>1
  <1>5. CASE Close \/ Abandon
    <2>1. UNCHANGED <<layout, framing, disk, damaged, wstate, wcount, hand, chunks, sent, ends, failures, intact>>
      BY <1>1, <1>5 DEF Close, Abandon, config, writer
    <2>2. Tears(at)'
      BY <2>1, TearsStays
    <2> QED
      BY <2>2
  <1> QED
    BY <1>2, <1>3, <1>4, <1>5 DEF Writing

-----------------------------------------------------------------------------
(* What there is of it to read, framing by framing, and what a reader that   *)
(* comes to it makes of that: the bytes it finds are those that were put     *)
(* there, and it can only run out of them.                                   *)

(* What there is of a record, framing by framing.                            *)
LEMMA WordTorn ==
    ASSUME framing.how = "word", NEW raw \in Seq(Byte), NEW i, NEW base, NEW at,
           Planned(EmissionOf(i, raw), at, base, raw), Goes(EmissionOf(i, raw), at), Len(disk) \in Nat
    PROVE  /\ base \in Nat /\ base <= Len(disk) /\ Len(disk) <= base + DescriptorWidth + Len(raw)
           /\ Starts(base, Word(Len(raw) + DescriptorWidth, 0))
           /\ Starts(base + DescriptorWidth, raw)
  <1> DEFINE word == Word(Len(raw) + DescriptorWidth, 0)
             em == EmissionOf(i, raw)
  <1>1. em = <<Frame(word), Data(raw)>>
    BY DEF EmissionOf
  <1>2. /\ Len(em) = 2 /\ em[1].bytes = word /\ em[2].bytes = raw /\ Len(word) = DescriptorWidth
    BY <1>1 DEF Frame, Data, Word, DescriptorWidth
  <1>3. Ascends(em, at) /\ at[0] = base /\ Goes(em, at)
    BY DEF Planned
  <1> HIDE DEF em, word
  <1>4. /\ at[0] \in Nat /\ at[1] = at[0] + DescriptorWidth /\ at[2] = at[1] + Len(raw)
        /\ at[0] <= Len(disk) /\ Len(disk) <= at[2]
        /\ Starts(at[0], word) /\ Starts(at[1], raw)
    <2>1. 1 \in 1 .. 2 /\ 2 \in 1 .. 2 /\ 0 \in 0 .. 2 /\ 1 - 1 = 0 /\ 2 - 1 = 1
      OBVIOUS
    <2> QED
      BY <1>2, <1>3, <2>1 DEF Ascends, Goes
  <1> QED
    BY <1>3, <1>4 DEF word

(* ... with delimiters or nothing around the record,                         *)
LEMMA StreamTorn ==
    ASSUME framing \in Framings, Streamed, NEW raw \in Seq(Byte), NEW i, NEW base, NEW at,
           Planned(EmissionOf(i, raw), at, base, raw), Goes(EmissionOf(i, raw), at), Len(disk) \in Nat,
           NEW start, start = StartOf(i, base)
    PROVE  /\ base \in Nat /\ start \in Nat /\ base <= Len(disk)
           /\ framing.how = "separator" /\ i # 1 => Starts(base, framing.delimiter)
           /\ Starts(start, raw)
           /\ Trails => Starts(start + Len(raw), framing.delimiter)
           /\ Len(disk) <= IF Trails THEN start + Len(raw) + Len(framing.delimiter) ELSE start + Len(raw)
  <1> DEFINE em == EmissionOf(i, raw)
             del == framing.delimiter
  <1>1. del \in Seq(Byte) /\ Len(del) \in Nat /\ Len(raw) \in Nat
    BY FileTypes
  <1>2. Ascends(em, at) /\ at[0] = base /\ Goes(em, at)
    BY DEF Planned
  <1>3. CASE framing.how = "unframed" \/ (framing.how = "separator" /\ i = 1)
    <2>1. em = <<Data(raw)>>
      BY <1>3 DEF EmissionOf
    <2>2. Len(em) = 1 /\ em[1].bytes = raw
      BY <2>1 DEF Data
    <2> HIDE DEF em
    <2>3. at[0] \in Nat /\ at[1] = at[0] + Len(raw) /\ at[0] <= Len(disk) /\ Len(disk) <= at[1] /\ Starts(at[0], raw)
      <3>1. 1 \in 1 .. 1 /\ 0 \in 0 .. 1 /\ 1 - 1 = 0
        OBVIOUS
      <3> QED
        BY <1>2, <2>2, <3>1 DEF Ascends, Goes
    <2>4. start = base /\ ~ Trails
      BY <1>3 DEF StartOf, Trails
    <2> QED
      BY <1>2, <1>3, <2>3, <2>4
  <1>4. CASE framing.how = "separator" /\ i # 1
    <2>1. em = <<Frame(del), Data(raw)>>
      BY <1>4 DEF EmissionOf
    <2>2. Len(em) = 2 /\ em[1].bytes = del /\ em[2].bytes = raw
      BY <2>1 DEF Data, Frame
    <2> HIDE DEF em, del
    <2>3. /\ at[0] \in Nat /\ at[1] = at[0] + Len(del) /\ at[2] = at[1] + Len(raw)
          /\ at[0] <= Len(disk) /\ Len(disk) <= at[2]
          /\ Starts(at[0], del) /\ Starts(at[1], raw)
      <3>1. 1 \in 1 .. 2 /\ 2 \in 1 .. 2 /\ 0 \in 0 .. 2 /\ 1 - 1 = 0 /\ 2 - 1 = 1
        OBVIOUS
      <3> QED
        BY <1>2, <2>2, <3>1 DEF Ascends, Goes
    <2>4. start = base + Len(del) /\ ~ Trails
      BY <1>4 DEF StartOf, Trails, del
    <2>5. start = at[1] /\ base = at[0] /\ start \in Nat
      BY <1>1, <1>2, <2>3, <2>4
    <2> QED
      BY <1>4, <2>3, <2>4, <2>5 DEF del
  <1>5. CASE Trails
    <2>1. em = <<Data(raw), Frame(del)>>
      BY <1>5 DEF EmissionOf, Trails
    <2>2. Len(em) = 2 /\ em[1].bytes = raw /\ em[2].bytes = del
      BY <2>1 DEF Data, Frame
    <2> HIDE DEF em, del
    <2>3. /\ at[0] \in Nat /\ at[1] = at[0] + Len(raw) /\ at[2] = at[1] + Len(del)
          /\ at[0] <= Len(disk) /\ Len(disk) <= at[2]
          /\ Starts(at[0], raw) /\ Starts(at[1], del)
      <3>1. 1 \in 1 .. 2 /\ 2 \in 1 .. 2 /\ 0 \in 0 .. 2 /\ 1 - 1 = 0 /\ 2 - 1 = 1
        OBVIOUS
      <3> QED
        BY <1>2, <2>2, <3>1 DEF Ascends, Goes
    <2>4. start = base /\ base = at[0] /\ framing.how # "separator"
      BY <1>2, <1>5 DEF StartOf, Trails
    <2>5. Len(disk) <= start + Len(raw) + Len(del) /\ start + Len(raw) = at[1]
      BY <2>3, <2>4
    <2> QED
      BY <1>5, <2>3, <2>4, <2>5 DEF del
  <1> QED
    BY <1>3, <1>4, <1>5 DEF Streamed, Trails

(* ... and in segments.                                                      *)
LEMMA SegmentTorn ==
    ASSUME framing \in Framings, framing.how = "segmented",
           NEW raw \in Seq(Byte), Len(raw) >= 1, NEW i, NEW base, NEW at,
           Planned(EmissionOf(i, raw), at, base, raw), Goes(EmissionOf(i, raw), at), Len(disk) \in Nat,
           NEW n, n = Len(Pieces(raw)), NEW j \in 1 .. n
    PROVE  /\ n \in Nat \ {0} /\ at[0] = base /\ base \in Nat /\ base <= Len(disk)
           /\ at[2 * (j - 1)] \in Nat
           /\ at[2 * j] = at[2 * (j - 1)] + DescriptorWidth + Len(Pieces(raw)[j])
           /\ at[2 * j] <= at[2 * n] /\ at[2 * n] \in Nat /\ Len(disk) <= at[2 * n]
           /\ at[2 * n] = base + n * DescriptorWidth + Len(raw)
           /\ Starts(at[2 * (j - 1)], Word(Len(Pieces(raw)[j]) + DescriptorWidth, Code(j, n)))
           /\ Starts(at[2 * (j - 1)] + DescriptorWidth, Pieces(raw)[j])
  <1>1. PICK em : em = EmissionOf(i, raw)
    OBVIOUS
  <1>2. n \in Nat \ {0} /\ Len(em) = 2 * n /\ WordsAndPieces(em, raw, n)
    BY <1>1, SegmentEmission
  <1>3. Goes(em, at) /\ at[0] = base /\ InSegments(at, base, raw, n)
    BY <1>1 DEF Planned
  <1>4. /\ at[2 * (j - 1)] \in Nat /\ at[2 * j] \in Nat /\ at[2 * j] <= at[2 * n] /\ at[2 * n] \in Nat
        /\ at[2 * j - 1] = at[2 * (j - 1)] + DescriptorWidth
        /\ at[2 * j] = at[2 * j - 1] + Len(Pieces(raw)[j])
        /\ at[2 * n] = base + n * DescriptorWidth + Len(raw)
    <2>1. PICK a, b, c : a = 2 * (j - 1) /\ b = 2 * j /\ c = 2 * n
      OBVIOUS
    <2>2. a \in 0 .. c /\ b \in 0 .. c /\ c \in 0 .. c /\ b <= c
      BY <1>2, <2>1
    <2>3. at[a] \in Nat /\ at[b] \in Nat /\ at[b] <= at[c] /\ at[c] \in Nat
      BY <1>3, <2>1, <2>2 DEF InSegments
    <2> QED
      BY <1>3, <2>1, <2>3 DEF InSegments
  <1>5. base \in Nat /\ base <= Len(disk) /\ Len(disk) <= at[2 * n]
    <2>1. 0 \in 0 .. 2 * n
      BY <1>2
    <2> QED
      BY <1>2, <1>3, <2>1 DEF Goes, InSegments
  <1>6. Starts(at[2 * (j - 1)], em[2 * j - 1].bytes) /\ Starts(at[2 * j - 1], em[2 * j].bytes)
    <2>1. PICK a, b : a = 2 * j - 1 /\ b = 2 * j
      OBVIOUS
    <2>2. a \in 1 .. 2 * n /\ b \in 1 .. 2 * n /\ a - 1 = 2 * (j - 1) /\ b - 1 = a
      BY <1>2, <2>1
    <2>3. Starts(at[a - 1], em[a].bytes) /\ Starts(at[b - 1], em[b].bytes)
      BY <1>2, <1>3, <2>2 DEF Goes
    <2> QED
      BY <2>1, <2>2, <2>3
  <1>7. em[2 * j - 1] = Frame(Word(Len(Pieces(raw)[j]) + DescriptorWidth, Code(j, n))) /\ em[2 * j] = Data(Pieces(raw)[j])
    BY <1>2 DEF WordsAndPieces
  <1>8. \A b : Frame(b).bytes = b /\ Data(b).bytes = b
    BY DEF Frame, Data
  <1>9. /\ Starts(at[2 * (j - 1)], Word(Len(Pieces(raw)[j]) + DescriptorWidth, Code(j, n)))
        /\ Starts(at[2 * (j - 1)] + DescriptorWidth, Pieces(raw)[j])
    BY <1>4, <1>6, <1>7, <1>8
  <1>10. at[2 * j] = at[2 * (j - 1)] + DescriptorWidth + Len(Pieces(raw)[j])
    BY <1>4
  <1> QED
    BY <1>2, <1>3, <1>4, <1>5, <1>9, <1>10

-----------------------------------------------------------------------------
(* What the reader makes of what there is.                                   *)
LEMMA StartsHolds ==
    ASSUME NEW at \in Nat, NEW bytes \in Seq(Byte), Starts(at, bytes), Len(disk) \in Nat, at + Len(bytes) <= Len(disk)
    PROVE  Holds(at, bytes)
  <1>1. \A p \in 1 .. Len(bytes) : at + p <= Len(disk)
    OBVIOUS
  <1> QED
    BY <1>1 DEF Starts, Holds

(* A word that is there says what was put in it, however much of what it     *)
(* states is.                                                                *)
LEMMA WordFound ==
    ASSUME disk \in Seq(Byte), pos \in 0 .. Len(disk), damaged = 0,
           NEW n \in Nat, NEW code \in Byte, n <= MaxStated,
           Left >= DescriptorWidth, Starts(pos, Word(n, code))
    PROVE  Stated(Ahead(DescriptorWidth)) = n /\ Ahead(DescriptorWidth)[3] = code
  <1>1. /\ Word(n, code) \in Seq(Byte) /\ Len(Word(n, code)) = DescriptorWidth
        /\ Word(n, code)[3] = code /\ Stated(Word(n, code)) = n
    BY WordStates
  <1>2. PICK w : w = Word(n, code)
    OBVIOUS
  <1>3. w \in Seq(Byte) /\ Len(w) = DescriptorWidth /\ w[3] = code /\ Stated(w) = n /\ Starts(pos, w)
    BY <1>1, <1>2
  <1>4. pos \in Nat /\ Len(disk) \in Nat /\ pos + Len(w) <= Len(disk)
    BY <1>3 DEF Left, DescriptorWidth
  <1>5. Holds(pos, w)
    BY <1>3, <1>4, StartsHolds
  <1>6. damaged \notin pos + 1 .. pos + Len(w)
    BY <1>3, <1>4 DEF DescriptorWidth
  <1>7. Ahead(Len(w)) = w
    BY <1>3, <1>4, <1>5, <1>6, AheadHolds
  <1> QED
    BY <1>3, <1>7

(* Bytes that are all there are what is ahead.                               *)
LEMMA AheadStarts ==
    ASSUME disk \in Seq(Byte), pos \in 0 .. Len(disk), damaged = 0, NEW s \in Seq(Byte),
           pos + Len(s) <= Len(disk), Starts(pos, s)
    PROVE  Ahead(Len(s)) = s
  <1>1. pos \in Nat /\ Len(disk) \in Nat /\ Len(s) \in Nat
    OBVIOUS
  <1>2. Holds(pos, s)
    BY <1>1, StartsHolds
  <1>3. damaged \notin pos + 1 .. pos + Len(s)
    BY <1>1
  <1> QED
    BY <1>2, <1>3, AheadHolds

Undisturbed == damaged = 0 /\ ~ WroteOn

(* The reader is at the record that was not finished.                        *)
InTail == Len(got) = intact /\ phase \notin {"boundary", "over"}

(* Nothing of it is missing.                                                 *)
Full == Len(disk) - EndOf(intact) \in WholeTails

Came == Record(Len(got)) = [record |-> hand.record, raw |-> hand.raw]

TailGot ==
    /\ Len(got) <= intact + 1
    /\ Len(got) = intact + 1 =>
          /\ phase \in {"boundary", "over"} /\ Torn /\ Came /\ Full
          /\ phase = "boundary" => pos = Len(disk)

TailOn == InTail => Torn /\ rstate = wstate /\ rcount = wcount

TailLeads(at) ==
    InTail /\ phase = "leading" =>
        /\ framing.how # "segmented" => pos = EndOf(intact) /\ data = <<>>
        /\ framing.how = "separator" => (rfirst <=> intact = 0)
        /\ framing.how = "segmented" =>
              \E k \in 0 .. Len(Pieces(hand.raw)) - 1 :
                  /\ pos = at[2 * k]
                  /\ Len(data) = InFirst(k)
                  /\ \A p \in 1 .. Len(data) : data[p] = hand.raw[p]

TailSelects ==
    InTail /\ phase \in {"selecting", "admitting"} =>
        /\ Bounded(framing) => pos = Len(disk) /\ data = hand.raw /\ Full
        /\ ~ Bounded(framing) => pos = StartOf(intact + 1, EndOf(intact))

TailLooks ==
    InTail /\ phase = "selecting" =>
        /\ Bounded(framing) => look = data
        /\ ~ Bounded(framing) =>
              /\ short = (Len(disk) - pos < Lookahead(layout))
              /\ \A q \in 1 .. Len(look) : pos + q <= Len(disk) /\ look[q] = disk[pos + q]
              /\ \A q \in 1 .. Lookahead(layout) : pos + q <= Len(disk) => q <= Len(look)

TailAdmits == InTail /\ phase \in {"admitting", "trailing"} => taken.record = hand.record

TailFinishes ==
    InTail /\ phase = "trailing" =>
        /\ taken.raw = hand.raw
        /\ Bounded(framing) => pos = Len(disk) /\ Full
        /\ ~ Bounded(framing) => pos = StartOf(intact + 1, EndOf(intact)) + Len(hand.raw)

(* A read is over with an input that is cut short, or at the end of the last *)
(* record there is.                                                          *)
TailOver ==
    phase = "over" =>
        /\ said \in {"cut", "eof"}
        /\ said = "eof" => \/ Len(got) = intact + 1
                           \/ Len(got) = intact /\ Len(disk) = EndOf(intact)

Meets(at) ==
    Undisturbed =>
        /\ TailGot /\ TailOn /\ TailLeads(at) /\ TailSelects /\ TailLooks
        /\ TailAdmits /\ TailFinishes /\ TailOver

(* A reader that has not begun has found no end.                             *)
LEMMA TailFromStart ==
    ASSUME Typed, ReaderInit, NEW at
    PROVE  Meets(at)
  <1>1. Len(got) = 0 /\ phase = "boundary" /\ intact \in Nat
    BY DEF ReaderInit, Typed, WriterTyped
  <1>2. Len(got) <= intact + 1 /\ Len(got) # intact + 1
    BY <1>1
  <1>3. TailGot
    BY <1>2 DEF TailGot
  <1>4. ~ InTail
    BY <1>1 DEF InTail
  <1> QED
    BY <1>1, <1>3, <1>4 DEF Meets, TailOn, TailLeads, TailSelects, TailLooks, TailAdmits, TailFinishes, TailOver

(* What reading leaves as it is, of the record in hand.                      *)
LEMMA ReadingLeaves ==
    ASSUME Reading
    PROVE  /\ UNCHANGED <<layout, framing, disk, damaged, wstate, wcount, hand, sent, intact>>
           /\ Undisturbed' = Undisturbed /\ Torn' = Torn /\ Full' = Full
           /\ \A i : EndOf(i)' = EndOf(i)
           /\ \A i, b : StartOf(i, b)' = StartOf(i, b)
           /\ \A raw : Pieces(raw)' = Pieces(raw)
           /\ \A k : InFirst(k)' = InFirst(k)
           /\ Lookahead(layout)' = Lookahead(layout)
  <1>1. UNCHANGED <<layout, framing, disk, damaged, wstate, wcount, hand, chunks, sent, ends, failures, intact>>
    BY DEF Reading, config, writer
  <1>2. \A i : EndOf(i)' = EndOf(i)
    BY <1>1 DEF EndOf
  <1>3. \A raw : Pieces(raw)' = Pieces(raw)
    BY <1>1 DEF Pieces, Most
  <1>4. Undisturbed' = Undisturbed /\ Torn' = Torn
    BY <1>1 DEF Undisturbed, Torn, WroteOn
  <1>5. Full' = Full
    BY <1>1, <1>2, <1>3 DEF Full, WholeTails
  <1>6. \A i, b : StartOf(i, b)' = StartOf(i, b)
    BY <1>1 DEF StartOf
  <1>7. \A k : InFirst(k)' = InFirst(k)
    BY <1>1 DEF InFirst, Most
  <1>8. Lookahead(layout)' = Lookahead(layout)
    BY <1>1 DEF Lookahead
  <1> QED
    BY <1>1, <1>2, <1>3, <1>4, <1>5, <1>6, <1>7, <1>8

(* A read hands back one record or none.                                     *)
LEMMA ReadingGets ==
    ASSUME Typed, Reading
    PROVE  \/ got' = got
           \/ phase = "trailing" /\ phase' = "boundary" /\ Len(got') = Len(got) + 1
  <1>1. CASE EndOfInput
    BY <1>1 DEF EndOfInput, Ends
  <1>2. CASE AtRecord
    BY <1>2 DEF AtRecord
  <1>3. CASE LeadingWord
    BY <1>3 DEF LeadingWord, BadWord, Ends, Bounds
  <1>4. CASE LeadingSegment
    BY <1>4 DEF LeadingSegment, BadWord, Ends, Bounds
  <1>5. CASE LeadingNothing
    BY <1>5 DEF LeadingNothing, Window
  <1>6. CASE LeadingSeparator
    BY <1>6 DEF LeadingSeparator, NoDelimiter, Ends, Window
  <1>7. CASE Undescribed
    BY <1>7 DEF Undescribed, Ends
  <1>8. CASE Select
    BY <1>8 DEF Select, Ends
  <1>9. CASE AdmitBounded
    BY <1>9 DEF AdmitBounded, Ends, Admitted
  <1>10. CASE AdmitStreamed
    BY <1>10 DEF AdmitStreamed, Ends, Admitted
  <1>11. CASE Trailing
    <2>1. CASE Terminated /\ NoDelimiter
      BY <2>1 DEF NoDelimiter, Ends
    <2>2. CASE got' = Append(got, [record |-> taken.record, raw |-> taken.raw, at |-> taken.at]) /\ phase' = "boundary"
      <3>1. PICK x : x = [record |-> taken.record, raw |-> taken.raw, at |-> taken.at]
        OBVIOUS
      <3>2. got \in Seq(Got)
        BY DEF Typed, ReaderTyped
      <3>3. Len(Append(got, x)) = Len(got) + 1
        BY <3>2
      <3> QED
        BY <1>11, <2>2, <3>1, <3>3 DEF Trailing
    <2> QED
      BY <1>11, <2>1, <2>2 DEF Trailing
  <1> QED
    BY <1>1, <1>2, <1>3, <1>4, <1>5, <1>6, <1>7, <1>8, <1>9, <1>10, <1>11 DEF Reading, Next

(* Before the record in hand nothing ends.                                   *)
LEMMA TailBefore ==
    ASSUME Typed, Typed', Reading, NEW path, NEW lay, Follows(path, lay)', Undisturbed, Len(got) < intact, NEW at
    PROVE  Meets(at)'
  <1>1. /\ Len(got) \in Nat /\ intact \in Nat /\ intact' = intact /\ damaged' = 0 /\ got' \in Seq(Got)
    BY ReadingLeaves DEF Typed, ReaderTyped, WriterTyped, Undisturbed
  <1>2. CASE got' = got
    <2>1. phase' # "over"
      <3> SUFFICES ASSUME phase' = "over" PROVE FALSE
        OBVIOUS
      <3>1. Nth' \notin Sound'
        BY DEF Follows, Finds
      <3>2. Sound' = 1 .. intact
        BY <1>1 DEF Sound
      <3>3. Nth' = Len(got) + 1
        BY <1>2 DEF Nth
      <3> QED
        BY <1>1, <3>1, <3>2, <3>3
    <2>2. ~ InTail' /\ Len(got') < intact'
      BY <1>1, <1>2 DEF InTail
    <2>3. Len(got') <= intact' + 1 /\ Len(got') # intact' + 1
      BY <1>1, <1>2
    <2>4. TailGot'
      BY <2>3 DEF TailGot
    <2> QED
      BY <2>1, <2>2, <2>4 DEF Meets, TailOn, TailLeads, TailSelects, TailLooks, TailAdmits, TailFinishes, TailOver
  <1>3. CASE phase' = "boundary" /\ Len(got') = Len(got) + 1
    <2>1. ~ InTail'
      BY <1>3 DEF InTail
    <2>2. Len(got') <= intact' + 1 /\ Len(got') # intact' + 1
      BY <1>1, <1>3
    <2>3. TailGot'
      BY <2>2 DEF TailGot
    <2> QED
      BY <1>3, <2>1, <2>3 DEF Meets, TailOn, TailLeads, TailSelects, TailLooks, TailAdmits, TailFinishes, TailOver
  <1> QED
    BY <1>2, <1>3, ReadingGets

(* Behind the record in hand there is nothing to read.                       *)
LEMMA TailBehind ==
    ASSUME Typed, Reading, Undisturbed, NEW at, Meets(at), Len(got) = intact + 1
    PROVE  Meets(at)'
  <1>1. /\ phase \in {"boundary", "over"} /\ Torn /\ Came /\ Full /\ (phase = "boundary" => pos = Len(disk))
        /\ Len(got) \in Nat /\ intact \in Nat /\ Len(disk) \in Nat
    BY DEF Meets, TailGot, Typed, WriterTyped, ReaderTyped, FileTyped
  <1>2. EndOfInput
    <2>1. ~ AtRecord
      <3>1. phase = "boundary" => Left = 0
        BY <1>1 DEF Left
      <3> QED
        BY <3>1 DEF AtRecord
    <2>2. ~ LeadingWord /\ ~ LeadingSegment /\ ~ LeadingNothing /\ ~ LeadingSeparator
      BY <1>1 DEF LeadingWord, LeadingSegment, LeadingNothing, LeadingSeparator, Leading
    <2>3. ~ Undescribed /\ ~ Select /\ ~ AdmitBounded /\ ~ AdmitStreamed /\ ~ Trailing
      BY <1>1, Zenon DEF Undescribed, Select, AdmitBounded, AdmitStreamed, Trailing
    <2> QED
      BY <2>1, <2>2, <2>3 DEF Reading, Next
  <1>3. UNCHANGED got /\ phase' = "over" /\ said' \in {"eof", "cut"}
    BY <1>2 DEF EndOfInput, Ends
  <1>4. intact' = intact /\ hand' = hand /\ Torn' /\ Full'
    BY <1>1, ReadingLeaves
  <1>5. Came'
    BY <1>1, <1>3, <1>4 DEF Came, Record
  <1>6. TailGot'
    BY <1>1, <1>3, <1>4, <1>5 DEF TailGot
  <1>7. ~ InTail' /\ TailOver'
    BY <1>3, <1>4 DEF InTail, TailOver
  <1> QED
    BY <1>6, <1>7 DEF Meets, TailOn, TailLeads, TailSelects, TailLooks, TailAdmits, TailFinishes

(* The record in hand, of which there is some.                               *)
LEMMA TornRecord ==
    ASSUME Typed, Undisturbed, Torn, NEW at, Tears(at),
           NEW raw, raw = hand.raw, NEW base, base = EndOf(intact)
    PROVE  /\ layout \in Layouts /\ framing \in Framings /\ damaged = 0
           /\ disk \in Seq(Byte) /\ Len(disk) \in Nat /\ pos \in 0 .. Len(disk)
           /\ intact \in Nat /\ intact = Len(sent)
           /\ raw \in Seq(Byte) /\ Len(raw) >= 1 /\ Len(raw) \in Nat
           /\ Takes(wstate, wcount, hand.record, raw, hand.to)
           /\ Planned(EmissionOf(intact + 1, raw), at, base, raw)
           /\ Goes(EmissionOf(intact + 1, raw), at)
           /\ Statable(raw)
  <1>1. /\ layout \in Layouts /\ framing \in Framings /\ damaged = 0
        /\ disk \in Seq(Byte) /\ Len(disk) \in Nat /\ pos \in 0 .. Len(disk) /\ intact \in Nat
    BY DEF Undisturbed, Typed, FileTyped, WriterTyped, ReaderTyped
  <1>2. /\ intact = Len(sent)
        /\ Takes(wstate, wcount, hand.record, raw, hand.to)
        /\ Planned(EmissionOf(intact + 1, raw), at, base, raw)
        /\ Goes(EmissionOf(intact + 1, raw), at)
    BY <1>1 DEF Tears
  <1>3. raw \in Seq(Byte) /\ Len(raw) >= 1
    BY <1>1, <1>2, TakenRecord
  <1>4. Statable(raw)
    BY <1>2 DEF Takes
  <1>5. Len(raw) \in Nat
    BY <1>3
  <1> QED
    BY <1>1, <1>2, <1>3, <1>4, <1>5

(* Saying that the file is cut short is never wrong here.                    *)
LEMMA TailStops ==
    ASSUME Typed, Reading, NEW at, InTail, Ends("cut")
    PROVE  Meets(at)'
  <1>1. UNCHANGED <<got, intact>> /\ phase' = "over" /\ said' = "cut" /\ Len(got) = intact /\ intact \in Nat
    BY ReadingLeaves DEF Ends, InTail, Typed, WriterTyped
  <1>2. TailGot'
    <2>1. Len(got') <= intact' + 1 /\ Len(got') # intact' + 1
      BY <1>1
    <2> QED
      BY <2>1 DEF TailGot
  <1>3. ~ InTail' /\ TailOver'
    BY <1>1 DEF InTail, TailOver
  <1> QED
    BY <1>2, <1>3 DEF Meets, TailOn, TailLeads, TailSelects, TailLooks, TailAdmits, TailFinishes

(* A step inside the record stays inside it.                                 *)
LEMMA TailWithin ==
    ASSUME Typed, Reading, NEW at, Undisturbed, Meets(at), InTail,
           UNCHANGED <<rstate, rcount, got>>, phase' \notin {"boundary", "over"}
    PROVE  InTail' /\ Torn /\ TailGot' /\ TailOn' /\ TailOver'
  <1>1. Len(got) = intact /\ intact \in Nat /\ Torn /\ rstate = wstate /\ rcount = wcount
    BY DEF InTail, Meets, TailOn, Typed, WriterTyped
  <1>2. UNCHANGED <<intact, wstate, wcount>> /\ Torn'
    BY <1>1, ReadingLeaves
  <1>3. InTail'
    BY <1>1, <1>2 DEF InTail
  <1>4. Len(got') <= intact' + 1 /\ Len(got') # intact' + 1
    BY <1>1, <1>2
  <1> QED
    BY <1>1, <1>2, <1>3, <1>4 DEF TailGot, TailOn, TailOver

(* Where the reader is when it comes to the record in hand.                  *)
LEMMA TailReached ==
    ASSUME Typed, NEW path, NEW lay, NEW now, Writ(path, lay, now), Follows(path, lay),
           Undisturbed, phase = "boundary", Len(got) = intact
    PROVE  /\ pos = EndOf(intact) /\ rstate = wstate /\ rcount = wcount /\ intact \in Nat
           /\ framing.how = "separator" => (rfirst <=> intact = 0)
           /\ Torn \/ Len(disk) = EndOf(intact)
  <1>1. damaged = 0 /\ intact \in Nat /\ failures \in Nat
    BY DEF Undisturbed, Typed, WriterTyped
  <1>2. Len(got) \in {0} \cup InStep /\ Len(got) \in {0} \cup Sound
    BY <1>1 DEF InStep, Sound
  <1>3. pos = EndOf(Len(got)) /\ OnPath(path, Len(got)) /\ Separates
    BY <1>2 DEF Follows, Between
  <1>4. wstate = path[intact].state /\ wcount = path[intact].count
    BY DEF Writ, Underway, Undisturbed
  <1>5. Torn \/ Len(disk) = EndOf(intact)
    <2>1. failures = 0 \/ failures = 1
      BY <1>1 DEF Undisturbed, WroteOn
    <2>2. ~ Torn => failures = 0 /\ chunks = <<>>
      BY <2>1 DEF Torn, Undisturbed
    <2> QED
      BY <2>2 DEF Writ, Underway
  <1> QED
    BY <1>1, <1>3, <1>4, <1>5 DEF OnPath, Separates

(* The input ends where the last record did, ...                             *)
LEMMA TailEndOfInput ==
    ASSUME Typed, Reading, NEW path, NEW lay, NEW now, Writ(path, lay, now), Follows(path, lay), NEW at,
           Undisturbed, Len(got) = intact, EndOfInput
    PROVE  Meets(at)'
  <1>1. phase = "boundary" /\ Left = 0 /\ UNCHANGED got /\ phase' = "over" /\ said' \in {"eof", "cut"}
    BY DEF EndOfInput, Ends
  <1>2. pos = EndOf(intact) /\ intact \in Nat
    BY <1>1, TailReached
  <1>3. Len(disk) = EndOf(intact)
    <2>1. pos \in Nat /\ Len(disk) \in Nat
      BY DEF Typed, FileTyped, ReaderTyped
    <2> QED
      BY <1>1, <1>2, <2>1 DEF Left
  <1>4. Len(disk') = EndOf(intact)' /\ intact' = intact
    BY <1>3, ReadingLeaves
  <1>5. Len(got') <= intact' + 1 /\ Len(got') # intact' + 1 /\ Len(got') = intact'
    BY <1>1, <1>2, <1>4
  <1>6. TailGot' /\ TailOver' /\ ~ InTail'
    BY <1>1, <1>4, <1>5 DEF TailGot, TailOver, InTail
  <1> QED
    BY <1>6 DEF Meets, TailOn, TailLeads, TailSelects, TailLooks, TailAdmits, TailFinishes

(* ... or there is more of it, and that is of the record in hand.            *)
LEMMA TailAtRecord ==
    ASSUME Typed, Reading, NEW path, NEW lay, NEW now, Writ(path, lay, now), Follows(path, lay), NEW at, Tears(at),
           Undisturbed, Len(got) = intact, AtRecord
    PROVE  Meets(at)'
  <1>1. /\ phase = "boundary" /\ Left > 0 /\ UNCHANGED <<pos, rstate, rcount, rfirst, got>>
        /\ phase' = "leading" /\ data' = <<>>
    BY DEF AtRecord
  <1>2. /\ pos = EndOf(intact) /\ rstate = wstate /\ rcount = wcount /\ intact \in Nat
        /\ framing.how = "separator" => (rfirst <=> intact = 0)
        /\ Torn \/ Len(disk) = EndOf(intact)
    BY <1>1, TailReached
  <1>3. Torn
    <2>1. pos \in Nat /\ Len(disk) \in Nat /\ Len(disk) # pos
      BY <1>1 DEF Typed, FileTyped, ReaderTyped, Left
    <2> QED
      BY <1>2, <2>1
  <1>4. /\ UNCHANGED <<intact, framing, wstate, wcount, hand>> /\ Torn' /\ EndOf(intact)' = EndOf(intact)
        /\ \A raw : Pieces(raw)' = Pieces(raw)
        /\ \A k : InFirst(k)' = InFirst(k)
    BY <1>3, ReadingLeaves
  <1>5. InTail' /\ Len(got') <= intact' + 1 /\ Len(got') # intact' + 1
    BY <1>1, <1>2, <1>4 DEF InTail
  <1>6. TailGot' /\ TailOn' /\ TailOver'
    BY <1>1, <1>2, <1>4, <1>5 DEF TailGot, TailOn, TailOver
  <1>7. TailLeads(at)'
    <2>1. ASSUME framing.how = "segmented"
          PROVE  \E k \in 0 .. Len(Pieces(hand.raw)) - 1 :
                    /\ pos = at[2 * k] /\ Len(data') = InFirst(k)
                    /\ \A p \in 1 .. Len(data') : data'[p] = hand.raw[p]
      <3>1. PICK raw, base, n : raw = hand.raw /\ base = EndOf(intact) /\ n = Len(Pieces(raw))
        OBVIOUS
      <3>2. /\ framing \in Framings /\ raw \in Seq(Byte) /\ Len(raw) >= 1
            /\ Planned(EmissionOf(intact + 1, raw), at, base, raw)
        BY <1>3, <3>1, TornRecord
      <3>3. n \in Nat \ {0} /\ at[0] = base
        BY <2>1, <3>1, <3>2, PiecesCover DEF Planned
      <3>4. InFirst(0) = 0
        BY <2>1, <3>2, MostTyped DEF InFirst
      <3>5. 0 \in 0 .. n - 1 /\ 2 * 0 = 0 /\ Len(data') = 0
        BY <1>1, <3>3
      <3> QED
        BY <1>2, <3>1, <3>3, <3>4, <3>5
    <2> QED
      BY <1>1, <1>2, <1>4, <2>1 DEF TailLeads
  <1> QED
    BY <1>1, <1>6, <1>7 DEF Meets, TailSelects, TailLooks, TailAdmits, TailFinishes

(* Where lengths are stated, the bytes of a record are all there or the word *)
(* in front of them states more than there is.                               *)
LEMMA TailLeadingWord ==
    ASSUME Typed, Reading, NEW at, Tears(at), Undisturbed, Meets(at), InTail, LeadingWord
    PROVE  Meets(at)'
  <1>1. phase = "leading" /\ framing.how = "word" /\ Bounded(framing)
    BY DEF LeadingWord, Leading, Bounded
  <1>2. Torn /\ pos = EndOf(intact) /\ data = <<>>
    BY <1>1 DEF Meets, TailOn, TailLeads
  <1>3. PICK raw, base : raw = hand.raw /\ base = EndOf(intact)
    OBVIOUS
  <1>4. /\ layout \in Layouts /\ framing \in Framings /\ damaged = 0
        /\ disk \in Seq(Byte) /\ Len(disk) \in Nat /\ pos \in 0 .. Len(disk)
        /\ raw \in Seq(Byte) /\ Len(raw) >= 1 /\ Len(raw) \in Nat
        /\ Planned(EmissionOf(intact + 1, raw), at, base, raw)
        /\ Goes(EmissionOf(intact + 1, raw), at)
        /\ Statable(raw)
    BY <1>2, <1>3, TornRecord
  <1>5. PICK n : n = Len(raw) + DescriptorWidth
    OBVIOUS
  <1>6. n \in Nat /\ n >= DescriptorWidth /\ n <= MaxStated /\ n = Len(raw) + 4
    BY <1>1, <1>4, <1>5 DEF Statable, DescriptorWidth
  <1>7. /\ base \in Nat /\ base <= Len(disk) /\ Len(disk) <= base + DescriptorWidth + Len(raw)
        /\ Starts(base, Word(n, 0)) /\ Starts(base + DescriptorWidth, raw)
    BY <1>1, <1>4, <1>5, WordTorn
  <1>8. Left >= DescriptorWidth => Stated(Ahead(DescriptorWidth)) = n
    BY <1>2, <1>3, <1>4, <1>6, <1>7, SmallBytes, WordFound
  <1>9. CASE BadWord
    <2>1. CASE Left < DescriptorWidth /\ Ends("cut")
      BY <2>1, TailStops
    <2>2. CASE /\ Left >= DescriptorWidth
               /\ \/ n < DescriptorWidth /\ Ends("disagrees")
                  \/ n >= DescriptorWidth /\ n > Left /\ Ends("cut")
      <3>1. ~ (n < DescriptorWidth)
        BY <1>6 DEF DescriptorWidth
      <3> QED
        BY <2>2, <3>1, TailStops
    <2>3. \/ Left < DescriptorWidth /\ Ends("cut")
          \/ /\ Left >= DescriptorWidth
             /\ \/ n < DescriptorWidth /\ Ends("disagrees")
                \/ n >= DescriptorWidth /\ n > Left /\ Ends("cut")
      BY <1>8, <1>9 DEF BadWord
    <2> QED
      BY <2>1, <2>2, <2>3
  <1>10. CASE /\ GoodWord
              /\ data' = Filled
              /\ pos' = pos + Stated(Ahead(DescriptorWidth))
              /\ Bounds(Filled)
    <2>1. Stated(Ahead(DescriptorWidth)) = n /\ n <= Left
      BY <1>8, <1>10 DEF GoodWord
    <2>2. /\ Filled \in Seq(Byte) /\ Len(Filled) = Len(data) + (n - DescriptorWidth)
          /\ \A p \in 1 .. n - DescriptorWidth : Filled[Len(data) + p] = disk[pos + DescriptorWidth + p]
      BY <1>10, <2>1, FilledIs
    <2>3. /\ Len(disk) = base + 4 + Len(raw) /\ pos' = Len(disk)
          /\ Len(Filled) = Len(raw) /\ Len(data) = 0 /\ n - DescriptorWidth = Len(raw)
      <3>1. PICK l, size : l = Len(raw) /\ size = Len(disk)
        OBVIOUS
      <3>2. l \in Nat /\ size \in Nat /\ base \in Nat /\ pos = base /\ size <= base + 4 + l /\ n = l + 4 /\ n <= size - base
        BY <1>2, <1>3, <1>4, <1>6, <1>7, <2>1, <3>1 DEF Left, DescriptorWidth
      <3>3. size = base + 4 + l /\ base + n = size
        BY <3>2
      <3>4. Len(data) = 0
        BY <1>2
      <3> QED
        BY <1>6, <1>10, <2>1, <2>2, <3>1, <3>2, <3>3, <3>4 DEF DescriptorWidth
    <2>4. \A p \in 1 .. Len(raw) : Filled[p] = raw[p]
      <3> SUFFICES ASSUME NEW p \in 1 .. Len(raw) PROVE Filled[p] = raw[p]
        OBVIOUS
      <3>1. Filled[Len(data) + p] = disk[pos + DescriptorWidth + p] /\ Len(data) + p = p
        BY <2>2, <2>3
      <3>2. base + DescriptorWidth + p <= Len(disk)
        BY <1>4, <1>7, <2>3 DEF DescriptorWidth
      <3>3. disk[base + DescriptorWidth + p] = raw[p]
        BY <1>7, <3>2 DEF Starts
      <3> QED
        BY <1>2, <1>3, <3>1, <3>3
    <2>5. Filled = raw
      BY <1>4, <2>2, <2>3, <2>4, SameBytes
    <2>6. Full
      <3>1. Len(disk) - EndOf(intact) = DescriptorWidth + Len(hand.raw)
        BY <1>3, <1>4, <1>7, <2>3 DEF DescriptorWidth
      <3> QED
        BY <1>1, <3>1 DEF Full, WholeTails
    <2>7. UNCHANGED <<rstate, rcount, got>> /\ phase' = "selecting" /\ look' = Filled
      BY <1>10 DEF Bounds
    <2>8. UNCHANGED <<framing, disk, hand>> /\ Full'
      BY <2>6, ReadingLeaves
    <2>9. InTail' /\ TailGot' /\ TailOn' /\ TailOver'
      BY <2>7, TailWithin
    <2>10. TailSelects' /\ TailLooks'
      BY <1>1, <1>3, <1>10, <2>3, <2>5, <2>7, <2>8 DEF TailSelects, TailLooks, Bounded
    <2> QED
      BY <2>7, <2>9, <2>10 DEF Meets, TailLeads, TailAdmits, TailFinishes
  <1> QED
    BY <1>9, <1>10 DEF LeadingWord

(* A word that is cut, or that states more than there is, cuts the record.   *)
LEMMA CutWord ==
    ASSUME Typed, Reading, NEW at, InTail, BadWord,
           NEW n \in Nat, n >= DescriptorWidth, Left >= DescriptorWidth => Stated(Ahead(DescriptorWidth)) = n
    PROVE  Meets(at)'
  <1>1. CASE Left < DescriptorWidth /\ Ends("cut")
    BY <1>1, TailStops
  <1>2. CASE /\ Left >= DescriptorWidth
             /\ \/ n < DescriptorWidth /\ Ends("disagrees")
                \/ n >= DescriptorWidth /\ n > Left /\ Ends("cut")
    <2>1. ~ (n < DescriptorWidth)
      BY DEF DescriptorWidth
    <2> QED
      BY <1>2, <2>1, TailStops
  <1>3. \/ Left < DescriptorWidth /\ Ends("cut")
        \/ /\ Left >= DescriptorWidth
           /\ \/ n < DescriptorWidth /\ Ends("disagrees")
              \/ n >= DescriptorWidth /\ n > Left /\ Ends("cut")
    BY DEF BadWord
  <1> QED
    BY <1>1, <1>2, <1>3

(* What a reader that is at segment j finds of it.                           *)
LEMMA SegmentFound ==
    ASSUME Typed, SegmentsStatable, framing.how = "segmented", damaged = 0,
           NEW raw \in Seq(Byte), Len(raw) >= 1, NEW i, NEW base, NEW at,
           Planned(EmissionOf(i, raw), at, base, raw), Goes(EmissionOf(i, raw), at),
           NEW n, n = Len(Pieces(raw)), NEW j \in 1 .. n, pos = at[2 * (j - 1)], Len(data) = InFirst(j - 1)
    PROVE  LET m == Len(Pieces(raw)[j]) + DescriptorWidth
           IN  /\ m \in Nat /\ m >= DescriptorWidth
               /\ Left >= DescriptorWidth => Stated(Ahead(DescriptorWidth)) = m /\ Ahead(DescriptorWidth)[3] = Code(j, n)
               /\ pos + m = at[2 * j]
               /\ data = <<>> <=> j = 1
  <1>1. framing \in Framings /\ disk \in Seq(Byte) /\ pos \in 0 .. Len(disk) /\ Len(disk) \in Nat /\ data \in Seq(Byte)
    BY DEF Typed, FileTyped, ReaderTyped
  <1>2. n \in Nat \ {0} /\ j \in Nat \ {0} /\ j <= n
    BY <1>1, SegmentTorn
  <1>3. PICK piece : piece = Pieces(raw)[j]
    OBVIOUS
  <1>4. PICK m : m = Len(piece) + DescriptorWidth
    OBVIOUS
  <1>5. Most \in Nat \ {0} /\ framing.segment = Most + DescriptorWidth
    BY <1>1, MostTyped
  <1>6. piece \in Seq(Byte) /\ Len(piece) \in 1 .. Most
    BY <1>1, <1>3, PiecesCover
  <1>7. /\ pos \in Nat
        /\ at[2 * j] = pos + DescriptorWidth + Len(piece)
        /\ Starts(pos, Word(m, Code(j, n)))
    <2>1. /\ at[2 * (j - 1)] \in Nat
          /\ at[2 * j] = at[2 * (j - 1)] + DescriptorWidth + Len(Pieces(raw)[j])
          /\ Starts(at[2 * (j - 1)], Word(Len(Pieces(raw)[j]) + DescriptorWidth, Code(j, n)))
      BY <1>1, SegmentTorn
    <2> QED
      BY <1>3, <1>4, <2>1
  <1>8. Code(j, n) \in Byte
    BY SmallBytes DEF Code
  <1>9. m \in Nat /\ m >= DescriptorWidth /\ m <= MaxStated /\ pos + m = at[2 * j]
    <2>1. PICK l, most, last : l = Len(piece) /\ most = Most /\ last = at[2 * j]
      OBVIOUS
    <2>2. l \in Nat /\ most \in Nat /\ l <= most /\ m = l + 4 /\ most + 4 <= MaxStated /\ last = pos + 4 + l
      BY <1>4, <1>5, <1>6, <1>7, <2>1, TwoBytes DEF SegmentsStatable, DescriptorWidth
    <2>3. pos \in Nat
      BY <1>7
    <2>4. m \in Nat /\ 4 <= m /\ m <= MaxStated /\ pos + m = last
      BY <2>2, <2>3, WordAndPiece, Zenon
    <2> QED
      BY <2>1, <2>4 DEF DescriptorWidth
  <1>10. Left >= DescriptorWidth => Stated(Ahead(DescriptorWidth)) = m /\ Ahead(DescriptorWidth)[3] = Code(j, n)
    BY <1>1, <1>7, <1>8, <1>9, WordFound
  <1>11. data = <<>> <=> j = 1
    <2>1. data = <<>> <=> Len(data) = 0
      BY <1>1
    <2>2. PICK a, b : a = j - 1 /\ b = Most
      OBVIOUS
    <2>3. a \in Nat /\ b \in Nat \ {0} /\ Len(data) = a * b
      BY <1>2, <1>5, <2>2 DEF InFirst
    <2>4. a * b = 0 <=> a = 0
      BY <2>3
    <2> QED
      BY <1>2, <2>1, <2>2, <2>3, <2>4
  <1> QED
    BY <1>3, <1>4, <1>9, <1>10, <1>11

(* A segment of which nothing is missing adds its piece to the record.       *)
LEMMA SegmentAdded ==
    ASSUME Typed, GoodWord, NEW raw, NEW piece \in Seq(Byte), NEW m, m = Len(piece) + DescriptorWidth,
           Stated(Ahead(DescriptorWidth)) = m, Starts(pos + DescriptorWidth, piece),
           \A p \in 1 .. Len(data) : data[p] = raw[p],
           \A p \in 1 .. Len(piece) : piece[p] = raw[Len(data) + p]
    PROVE  /\ Filled \in Seq(Byte) /\ Len(Filled) = Len(data) + Len(piece)
           /\ \A p \in 1 .. Len(Filled) : Filled[p] = raw[p]
           /\ pos + m <= Len(disk)
  <1>1. PICK l, s, size : l = Len(piece) /\ s = Len(data) /\ size = Len(disk)
    OBVIOUS
  <1>2. l \in Nat /\ s \in Nat /\ size \in Nat /\ pos \in 0 .. size
    BY <1>1 DEF Typed, FileTyped, ReaderTyped
  <1>3. m = l + 4 /\ m - DescriptorWidth = l
    BY <1>1, <1>2 DEF DescriptorWidth
  <1>4. pos + m <= size
    BY <1>1, <1>2, <1>3 DEF GoodWord, Left
  <1>5. /\ Filled \in Seq(Byte)
        /\ Len(Filled) = Len(data) + (m - DescriptorWidth)
        /\ \A p \in 1 .. Len(data) : Filled[p] = data[p]
        /\ \A p \in 1 .. m - DescriptorWidth : Filled[Len(data) + p] = disk[pos + DescriptorWidth + p]
    BY FilledIs
  <1>6. PICK t : t = Filled
    OBVIOUS
  <1>7. /\ t \in Seq(Byte) /\ Len(t) = s + l
        /\ \A p \in 1 .. s : t[p] = raw[p]
        /\ \A p \in 1 .. l : t[s + p] = disk[pos + DescriptorWidth + p]
    BY <1>1, <1>3, <1>5, <1>6
  <1>8. \A p \in 1 .. l : t[s + p] = raw[s + p]
    <2> SUFFICES ASSUME NEW p \in 1 .. l PROVE t[s + p] = raw[s + p]
      OBVIOUS
    <2>1. pos + DescriptorWidth + p <= Len(disk)
      BY <1>1, <1>2, <1>3, <1>4 DEF DescriptorWidth
    <2>2. disk[pos + DescriptorWidth + p] = piece[p]
      BY <1>1, <2>1 DEF Starts
    <2> QED
      BY <1>1, <1>7, <2>2
  <1>9. \A p \in 1 .. Len(t) : t[p] = raw[p]
    <2> SUFFICES ASSUME NEW p \in 1 .. s + l PROVE t[p] = raw[p]
      BY <1>7
    <2>1. CASE p <= s
      BY <1>2, <1>7, <2>1
    <2>2. CASE p > s
      <3>1. PICK q : q = p - s
        OBVIOUS
      <3>2. q \in 1 .. l /\ s + q = p
        BY <1>2, <2>2, <3>1
      <3> QED
        BY <1>8, <3>2
    <2> QED
      BY <1>2, <2>1, <2>2
  <1> QED
    BY <1>1, <1>4, <1>6, <1>7, <1>9

(* Where a piece of a record is from, and where its segment ends.            *)
LEMMA SegmentEnds ==
    ASSUME framing \in Framings, framing.how = "segmented", Len(disk) \in Nat,
           NEW raw \in Seq(Byte), Len(raw) >= 1, NEW i, NEW base, NEW at,
           Planned(EmissionOf(i, raw), at, base, raw), Goes(EmissionOf(i, raw), at),
           NEW n, n = Len(Pieces(raw)), NEW j \in 1 .. n
    PROVE  LET piece == Pieces(raw)[j]
           IN
           /\ piece \in Seq(Byte)
           /\ \A p \in 1 .. Len(piece) : piece[p] = raw[InFirst(j - 1) + p]
           /\ InFirst(j - 1) + Len(piece) = IF j = n THEN Len(raw) ELSE InFirst(j)
           /\ Starts(at[2 * (j - 1)] + DescriptorWidth, piece)
           /\ base \in Nat /\ Len(disk) <= at[2 * n]
  <1>1. /\ n \in Nat \ {0} /\ base \in Nat /\ Len(disk) <= at[2 * n]
        /\ Starts(at[2 * (j - 1)] + DescriptorWidth, Pieces(raw)[j])
    <2>1. n \in Nat \ {0} /\ base \in Nat /\ Len(disk) <= at[2 * n]
      BY SegmentTorn
    <2>2. Starts(at[2 * (j - 1)] + DescriptorWidth, Pieces(raw)[j])
      BY SegmentTorn
    <2> QED
      BY <2>1, <2>2
  <1>2. PICK piece, s, most : piece = Pieces(raw)[j] /\ s = (j - 1) * Most /\ most = j * Most
    OBVIOUS
  <1>3. /\ piece \in Seq(Byte)
        /\ most = s + Most
        /\ j < n => Len(piece) = Most
        /\ j = n => s + Len(piece) = Len(raw)
        /\ \A p \in 1 .. Len(piece) : piece[p] = raw[s + p]
    BY <1>2, PiecesCover
  <1>4. j = n \/ j < n
    BY <1>1
  <1>5. s + Len(piece) = IF j = n THEN Len(raw) ELSE most
    BY <1>3, <1>4
  <1> QED
    BY <1>1, <1>2, <1>3, <1>5 DEF InFirst

(* A segment that is all there is the one that was written, and its word     *)
(* states more than there is of one that is not.                             *)
LEMMA TailLeadingSegment ==
    ASSUME Typed, Reading, SegmentsStatable, NEW at, Tears(at), Undisturbed, Meets(at), InTail, LeadingSegment
    PROVE  Meets(at)'
  <1>1. phase = "leading" /\ framing.how = "segmented" /\ Bounded(framing)
    BY DEF LeadingSegment, Leading, Bounded
  <1>2. /\ Torn
        /\ \E k \in 0 .. Len(Pieces(hand.raw)) - 1 :
                  /\ pos = at[2 * k]
                  /\ Len(data) = InFirst(k)
                  /\ \A p \in 1 .. Len(data) : data[p] = hand.raw[p]
    BY <1>1 DEF Meets, TailOn, TailLeads
  <1>3. PICK raw, base, n : raw = hand.raw /\ base = EndOf(intact) /\ n = Len(Pieces(raw))
    OBVIOUS
  <1>4. /\ layout \in Layouts /\ framing \in Framings /\ damaged = 0
        /\ raw \in Seq(Byte) /\ Len(raw) >= 1 /\ Len(raw) \in Nat
        /\ Planned(EmissionOf(intact + 1, raw), at, base, raw)
        /\ Goes(EmissionOf(intact + 1, raw), at)
    BY <1>2, <1>3, TornRecord
  <1>5. n \in Nat \ {0}
    BY <1>1, <1>3, <1>4, PiecesCover
  <1>6. \E j \in 1 .. n : pos = at[2 * (j - 1)] /\ Len(data) = InFirst(j - 1)
    <2>1. PICK k \in 0 .. n - 1 : pos = at[2 * k] /\ Len(data) = InFirst(k)
      BY <1>2, <1>3
    <2>2. PICK j : j = k + 1
      OBVIOUS
    <2>3. j \in 1 .. n /\ j - 1 = k
      BY <1>5, <2>2
    <2> QED
      BY <2>1, <2>3
  <1>7. PICK j \in 1 .. n : pos = at[2 * (j - 1)] /\ Len(data) = InFirst(j - 1)
    BY <1>6
  <1>8. \A p \in 1 .. Len(data) : data[p] = raw[p]
    BY <1>2, <1>3
  <1>9. PICK m, code : m = Len(Pieces(raw)[j]) + DescriptorWidth /\ code = Ahead(DescriptorWidth)[3]
    OBVIOUS
  <1>10. /\ m \in Nat /\ m >= DescriptorWidth
         /\ Left >= DescriptorWidth => Stated(Ahead(DescriptorWidth)) = m /\ code = Code(j, n)
         /\ pos + m = at[2 * j]
         /\ data = <<>> <=> j = 1
    BY <1>1, <1>3, <1>4, <1>7, <1>9, SegmentFound
  <1>11. CASE BadWord
    BY <1>10, <1>11, CutWord
  <1>12. CASE GoodWord /\ (code \notin 0 .. 3 \/ (data # <<>>) = Opens(code))
    <2>1. code = Code(j, n) /\ (data = <<>> <=> j = 1)
      BY <1>10, <1>12 DEF GoodWord
    <2>2. Code(j, n) \in 0 .. 3 /\ (Opens(Code(j, n)) <=> j = 1)
      BY <1>5 DEF Code, Opens
    <2> QED
      BY <1>12, <2>1, <2>2 DEF Opens
  <1>13. ASSUME GoodWord, data' = Filled, pos' = pos + Stated(Ahead(DescriptorWidth))
         PROVE  /\ data' \in Seq(Byte) /\ Len(data') = IF j = n THEN Len(raw) ELSE InFirst(j)
                /\ \A p \in 1 .. Len(data') : data'[p] = raw[p]
                /\ code = Code(j, n) /\ pos' = at[2 * j]
                /\ j = n => pos' = Len(disk) /\ Len(disk) - base = n * DescriptorWidth + Len(raw)
    <2>1. Stated(Ahead(DescriptorWidth)) = m /\ code = Code(j, n)
      BY <1>10, <1>13 DEF GoodWord
    <2>2. PICK piece : piece = Pieces(raw)[j]
      OBVIOUS
    <2>3. Len(disk) \in Nat
      BY DEF Typed, FileTyped
    <2>4. /\ piece \in Seq(Byte)
          /\ \A p \in 1 .. Len(piece) : piece[p] = raw[InFirst(j - 1) + p]
          /\ InFirst(j - 1) + Len(piece) = IF j = n THEN Len(raw) ELSE InFirst(j)
          /\ Starts(at[2 * (j - 1)] + DescriptorWidth, piece)
          /\ base \in Nat /\ Len(disk) <= at[2 * n]
      <3>1. framing \in Framings /\ framing.how = "segmented" /\ raw \in Seq(Byte) /\ Len(raw) >= 1 /\ n = Len(Pieces(raw))
        BY <1>1, <1>3, <1>4
      <3>2. Pieces(raw)[j] \in Seq(Byte)
        BY <1>4, <2>3, <3>1, SegmentEnds
      <3>3. \A p \in 1 .. Len(Pieces(raw)[j]) : Pieces(raw)[j][p] = raw[InFirst(j - 1) + p]
        BY <1>4, <2>3, <3>1, SegmentEnds
      <3>4. InFirst(j - 1) + Len(Pieces(raw)[j]) = IF j = n THEN Len(raw) ELSE InFirst(j)
        BY <1>4, <2>3, <3>1, SegmentEnds
      <3>5. Starts(at[2 * (j - 1)] + DescriptorWidth, Pieces(raw)[j])
        BY <1>4, <2>3, <3>1, SegmentEnds
      <3>6. base \in Nat /\ Len(disk) <= at[2 * n]
        BY <1>4, <2>3, <3>1, SegmentEnds
      <3> QED
        BY <2>2, <3>2, <3>3, <3>4, <3>5, <3>6
    <2>5. \A p \in 1 .. Len(piece) : piece[p] = raw[Len(data) + p]
      BY <1>7, <2>4
    <2>6. /\ Filled \in Seq(Byte) /\ Len(Filled) = Len(data) + Len(piece)
          /\ \A p \in 1 .. Len(Filled) : Filled[p] = raw[p]
          /\ pos + m <= Len(disk)
      <3>1. m = Len(piece) + DescriptorWidth /\ Starts(pos + DescriptorWidth, piece)
        BY <1>7, <1>9, <2>2, <2>4
      <3> QED
        BY <1>8, <1>13, <2>1, <2>4, <2>5, <3>1, SegmentAdded
    <2>7. ASSUME j = n PROVE pos + m = Len(disk) /\ Len(disk) - base = n * DescriptorWidth + Len(raw)
      <3>1. PICK k, size, last, z : k = n * DescriptorWidth /\ size = Len(disk) /\ last = pos + m /\ z = Len(raw)
        OBVIOUS
      <3>2. last = base + k + z /\ last <= size /\ size <= last
        <4>1. at[2 * n] = base + n * DescriptorWidth + Len(raw)
          BY <1>1, <1>3, <1>4 DEF Planned, InSegments
        <4> QED
          BY <1>10, <2>4, <2>6, <2>7, <3>1, <4>1
      <3>3. base \in Nat /\ k \in Nat /\ z \in Nat /\ size \in Nat
        BY <1>4, <1>5, <2>3, <2>4, <3>1 DEF DescriptorWidth
      <3>4. last = size /\ size - base = k + z
        BY <3>2, <3>3
      <3> QED
        BY <3>1, <3>4
    <2> QED
      BY <1>7, <1>10, <1>13, <2>1, <2>4, <2>6, <2>7
  <1>14. CASE GoodWord /\ data' = Filled /\ pos' = pos + Stated(Ahead(DescriptorWidth)) /\ Closes(code) /\ Bounds(Filled)
    <2>1. j = n
      BY <1>5, <1>13, <1>14 DEF Closes, Code
    <2>2. data' = raw /\ pos' = Len(disk) /\ Len(disk) - base = n * DescriptorWidth + Len(raw)
      <3>1. data' \in Seq(Byte) /\ Len(data') = Len(raw) /\ \A p \in 1 .. Len(raw) : data'[p] = raw[p]
        BY <1>13, <1>14, <2>1
      <3>2. data' = raw
        BY <1>4, <3>1, SameBytes
      <3> QED
        BY <1>13, <1>14, <2>1, <3>2
    <2>3. Full
      BY <1>1, <1>3, <2>2 DEF Full, WholeTails
    <2>4. UNCHANGED <<rstate, rcount, got>> /\ phase' = "selecting" /\ look' = data'
      BY <1>14 DEF Bounds
    <2>5. UNCHANGED <<framing, disk, hand>> /\ Full'
      BY <2>3, ReadingLeaves
    <2>6. InTail' /\ TailGot' /\ TailOn' /\ TailOver'
      BY <2>4, TailWithin
    <2>7. TailSelects' /\ TailLooks'
      BY <1>1, <1>3, <2>2, <2>4, <2>5 DEF TailSelects, TailLooks, Bounded
    <2> QED
      BY <2>4, <2>6, <2>7 DEF Meets, TailLeads, TailAdmits, TailFinishes
  <1>15. CASE /\ GoodWord /\ data' = Filled /\ pos' = pos + Stated(Ahead(DescriptorWidth)) /\ ~ Closes(code)
              /\ UNCHANGED <<phase, look, rstate, rcount, rfirst, short, taken, got, said>>
    <2>1. j # n
      BY <1>13, <1>15 DEF Closes, Code
    <2>2. /\ UNCHANGED <<framing, intact, hand>>
          /\ \A r : Pieces(r)' = Pieces(r)
          /\ \A k : InFirst(k)' = InFirst(k)
      BY ReadingLeaves
    <2>3. InTail' /\ TailGot' /\ TailOn' /\ TailOver'
      BY <1>1, <1>15, TailWithin
    <2>4. j \in 0 .. n - 1 /\ pos' = at[2 * j] /\ Len(data') = InFirst(j) /\ \A p \in 1 .. Len(data') : data'[p] = raw[p]
      BY <1>5, <1>13, <1>15, <2>1
    <2>5. TailLeads(at)'
      BY <1>1, <1>3, <2>2, <2>4 DEF TailLeads
    <2> QED
      BY <1>1, <1>15, <2>3, <2>5 DEF Meets, TailSelects, TailLooks, TailAdmits, TailFinishes
  <1>16. \/ BadWord
         \/ GoodWord /\ (code \notin 0 .. 3 \/ (data # <<>>) = Opens(code))
         \/ GoodWord /\ data' = Filled /\ pos' = pos + Stated(Ahead(DescriptorWidth)) /\ Closes(code) /\ Bounds(Filled)
         \/ /\ GoodWord /\ data' = Filled /\ pos' = pos + Stated(Ahead(DescriptorWidth)) /\ ~ Closes(code)
            /\ UNCHANGED <<phase, look, rstate, rcount, rfirst, short, taken, got, said>>
    BY <1>9 DEF LeadingSegment
  <1> QED
    BY <1>11, <1>12, <1>14, <1>15, <1>16

(* A window holds what there is, and no more.                                *)
LEMMA WindowEnds ==
    ASSUME Typed, disk # <<>>, NEW at \in 0 .. Len(disk), Window(at)
    PROVE  \A q \in 1 .. Len(look') : at + q <= Len(disk) /\ look'[q] = disk[at + q]
  <1> DEFINE L == Lookahead(layout)
             lo == at + 1
             hi == IF at + L < Len(disk) THEN at + L ELSE Len(disk)
  <1>1. disk \in Seq(Byte) /\ layout \in Layouts /\ Len(disk) \in Nat /\ at \in Nat /\ at <= Len(disk)
    BY DEF Typed, FileTyped
  <1>2. DOMAIN layout.transitions # {}
    BY DEF Typed, WriterTyped
  <1>3. L \in Nat
    BY <1>1, <1>2, LookaheadReaches
  <1>4. look' = SubSeq(disk, lo, hi)
    BY DEF Window
  <1> HIDE DEF L
  <1>5. /\ lo \in Int /\ hi \in Int /\ \A p \in lo .. hi : disk[p] \in Byte
        /\ \A q \in 1 .. hi - lo + 1 : at + q <= Len(disk) /\ lo + q - 1 = at + q
        /\ ~ (lo <= hi) => hi - lo + 1 = 0
    BY <1>1, <1>3
  <1> HIDE DEF lo, hi
  <1>6. /\ Len(SubSeq(disk, lo, hi)) = IF lo <= hi THEN hi - lo + 1 ELSE 0
        /\ \A p \in 1 .. hi - lo + 1 : SubSeq(disk, lo, hi)[p] = disk[lo + p - 1]
    BY <1>5, SubSeqProperties
  <1>7. Len(look') = hi - lo + 1
    BY <1>4, <1>5, <1>6
  <1> QED
    BY <1>4, <1>5, <1>6, <1>7

(* A window on to the record in hand.                                        *)
LEMMA TailWindow ==
    ASSUME Typed, Reading, NEW at, Undisturbed, Meets(at), InTail,
           phase = "leading", ~ Bounded(framing), NEW from \in 0 .. Len(disk), Window(from),
           from = StartOf(intact + 1, EndOf(intact))
    PROVE  Meets(at)'
  <1>1. disk # <<>>
    BY DEF Typed, ReaderTyped
  <1>2. /\ phase' = "selecting" /\ pos' = from /\ UNCHANGED <<rstate, rcount, got>>
        /\ short' = (Len(disk) - from < Lookahead(layout))
    BY DEF Window
  <1>3. /\ \A q \in 1 .. Len(look') : from + q <= Len(disk) /\ look'[q] = disk[from + q]
        /\ \A q \in 1 .. Lookahead(layout) : from + q <= Len(disk) => q <= Len(look')
    BY <1>1, WindowIs, WindowEnds
  <1>4. /\ UNCHANGED <<framing, disk, intact, hand>> /\ Lookahead(layout)' = Lookahead(layout)
        /\ StartOf(intact + 1, EndOf(intact))' = StartOf(intact + 1, EndOf(intact))
    BY ReadingLeaves
  <1>5. InTail' /\ TailGot' /\ TailOn' /\ TailOver'
    BY <1>2, TailWithin
  <1>6. TailSelects'
    BY <1>2, <1>4 DEF TailSelects, Bounded
  <1>7. TailLooks'
    BY <1>2, <1>3, <1>4 DEF TailLooks, Bounded
  <1> QED
    BY <1>2, <1>5, <1>6, <1>7 DEF Meets, TailLeads, TailAdmits, TailFinishes

(* Nothing stands in front of the record, ...                                *)
LEMMA TailLeadingNothing ==
    ASSUME Typed, Reading, NEW at, Undisturbed, Meets(at), InTail, LeadingNothing
    PROVE  Meets(at)'
  <1>1. phase = "leading" /\ ~ Bounded(framing) /\ framing.how \notin {"separator", "segmented"} /\ Window(pos)
    BY DEF LeadingNothing, Bounded
  <1>2. pos \in 0 .. Len(disk)
    BY DEF Typed, ReaderTyped
  <1>3. pos = EndOf(intact)
    BY <1>1 DEF Meets, TailLeads
  <1>4. pos = StartOf(intact + 1, EndOf(intact))
    BY <1>1, <1>3 DEF StartOf
  <1> QED
    BY <1>1, <1>2, <1>4, TailWindow

(* ... or as much as there is of a delimiter.                                *)
LEMMA TailLeadingSeparator ==
    ASSUME Typed, Reading, NEW at, Tears(at), Undisturbed, Meets(at), InTail, LeadingSeparator
    PROVE  Meets(at)'
  <1>1. phase = "leading" /\ ~ Bounded(framing) /\ framing.how = "separator" /\ Streamed
    BY DEF LeadingSeparator, Leading, Bounded, Streamed
  <1>2. Torn /\ pos = EndOf(intact) /\ (rfirst <=> intact = 0)
    BY <1>1 DEF Meets, TailOn, TailLeads
  <1>3. PICK raw, base, del : raw = hand.raw /\ base = EndOf(intact) /\ del = framing.delimiter
    OBVIOUS
  <1>4. /\ framing \in Framings /\ damaged = 0 /\ intact \in Nat
        /\ disk \in Seq(Byte) /\ Len(disk) \in Nat /\ pos \in 0 .. Len(disk)
        /\ raw \in Seq(Byte)
        /\ Planned(EmissionOf(intact + 1, raw), at, base, raw)
        /\ Goes(EmissionOf(intact + 1, raw), at)
    BY <1>2, <1>3, TornRecord
  <1>5. del \in Seq(Byte) /\ Len(del) \in Nat
    BY <1>3, <1>4, FileTypes
  <1>6. ASSUME ~ rfirst
        PROVE  /\ StartOf(intact + 1, EndOf(intact)) = pos + Len(del)
               /\ Left >= Len(del) => DelimiterHere
    <2>1. intact + 1 # 1
      BY <1>2, <1>4, <1>6
    <2>2. Starts(base, del)
      BY <1>1, <1>3, <1>4, <2>1, StreamTorn
    <2>3. StartOf(intact + 1, EndOf(intact)) = pos + Len(del)
      BY <1>1, <1>2, <1>3, <2>1 DEF StartOf
    <2>4. ASSUME Left >= Len(del) PROVE DelimiterHere
      <3>1. pos + Len(del) <= Len(disk)
        BY <1>4, <1>5, <2>4 DEF Left
      <3>2. Ahead(Len(del)) = del
        BY <1>2, <1>3, <1>4, <1>5, <2>2, <3>1, AheadStarts
      <3> QED
        BY <1>3, <3>2 DEF DelimiterHere
    <2> QED
      BY <2>3, <2>4
  <1>7. CASE rfirst /\ Window(pos)
    <2>1. intact + 1 = 1
      BY <1>2, <1>7
    <2>2. pos = StartOf(intact + 1, EndOf(intact))
      BY <1>2, <2>1 DEF StartOf
    <2> QED
      BY <1>1, <1>4, <1>7, <2>2, TailWindow
  <1>8. CASE ~ rfirst /\ NoDelimiter
    <2>1. ~ (Left >= Len(del))
      BY <1>6, <1>8 DEF NoDelimiter
    <2>2. Left < Len(del)
      BY <1>4, <1>5, <2>1 DEF Left
    <2>3. Ends("cut")
      BY <1>3, <1>8, <2>2 DEF NoDelimiter
    <2> QED
      BY <2>3, TailStops
  <1>9. CASE Ends("cut")
    BY <1>9, TailStops
  <1>10. CASE ~ rfirst /\ Left > Len(del) /\ Window(pos + Len(del))
    <2>1. pos + Len(del) \in 0 .. Len(disk)
      BY <1>4, <1>5, <1>10 DEF Left
    <2> QED
      BY <1>1, <1>6, <1>10, <2>1, TailWindow
  <1> QED
    BY <1>3, <1>7, <1>8, <1>9, <1>10 DEF LeadingSeparator

(* Where the length of the record in hand is not stated.                     *)
LEMMA TailStream ==
    ASSUME Typed, Undisturbed, Torn, NEW at, Tears(at), ~ Bounded(framing),
           NEW raw, raw = hand.raw, NEW start, start = StartOf(intact + 1, EndOf(intact))
    PROVE  /\ Streamed /\ start \in Nat /\ Starts(start, raw)
           /\ Trails => Starts(start + Len(raw), framing.delimiter)
           /\ Len(disk) <= IF Trails THEN start + Len(raw) + Len(framing.delimiter) ELSE start + Len(raw)
  <1>1. PICK base : base = EndOf(intact)
    OBVIOUS
  <1>2. /\ framing \in Framings /\ Len(disk) \in Nat /\ raw \in Seq(Byte)
        /\ Planned(EmissionOf(intact + 1, raw), at, base, raw)
        /\ Goes(EmissionOf(intact + 1, raw), at)
    BY <1>1, TornRecord
  <1>3. Streamed
    BY <1>2, FramingsAdmitted DEF Admissible, How, Bounded, Streamed
  <1>4. start \in Nat /\ Starts(start, raw)
    BY <1>1, <1>2, <1>3, StreamTorn
  <1>5. Trails => Starts(start + Len(raw), framing.delimiter)
    BY <1>1, <1>2, <1>3, StreamTorn
  <1>6. Len(disk) <= IF Trails THEN start + Len(raw) + Len(framing.delimiter) ELSE start + Len(raw)
    BY <1>1, <1>2, <1>3, StreamTorn
  <1> QED
    BY <1>3, <1>4, <1>5, <1>6

(* What the predicates of the state see of the record in hand: nothing that  *)
(* is not there, and all of what it matches unless the input ran out.        *)
LEMMA TailSees ==
    ASSUME Typed, Undisturbed, NEW at, Tears(at), Meets(at), InTail, phase = "selecting",
           NEW S, Form[S].at \in Nat, Form[S].at <= Len(hand.raw), Form[S].at <= Lookahead(layout)
    PROVE  /\ Matches(S, look) => Matches(S, hand.raw)
           /\ (Bounded(framing) \/ ~ short) /\ Matches(S, hand.raw) => Matches(S, look)
  <1>1. Torn
    BY DEF Meets, TailOn
  <1>2. CASE Bounded(framing)
    <2>1. look = hand.raw
      BY <1>2 DEF Meets, TailSelects, TailLooks
    <2> QED
      BY <2>1
  <1>3. CASE ~ Bounded(framing)
    <2>1. PICK raw, start, q, reach : /\ raw = hand.raw /\ start = StartOf(intact + 1, EndOf(intact))
                                      /\ q = Form[S].at /\ reach = Lookahead(layout)
      OBVIOUS
    <2>2. start \in Nat /\ Starts(start, raw)
      BY <1>1, <1>3, <2>1, TailStream
    <2>3. raw \in Seq(Byte) /\ Len(raw) \in Nat /\ Len(disk) \in Nat /\ layout \in Layouts
      BY <1>1, <2>1, TornRecord
    <2>4. /\ pos = start /\ short = (Len(disk) - start < reach)
          /\ \A p \in 1 .. Len(look) : start + p <= Len(disk) /\ look[p] = disk[start + p]
          /\ \A p \in 1 .. reach : start + p <= Len(disk) => p <= Len(look)
      BY <1>3, <2>1 DEF Meets, TailSelects, TailLooks
    <2>5. look \in Seq(Byte) /\ DOMAIN layout.transitions # {}
      BY DEF Typed, ReaderTyped, WriterTyped
    <2>6. reach \in Nat
      BY <2>1, <2>3, <2>5, LookaheadReaches
    <2>7. CASE q = 0
      BY <2>1, <2>7 DEF Matches
    <2>8. CASE q # 0
      <3>1. q \in 1 .. Len(raw) /\ q \in 1 .. reach
        BY <2>1, <2>3, <2>6, <2>8
      <3>2. Len(look) \in Nat
        BY <2>5
      <3>3. q <= Len(look) => look[q] = raw[q]
        <4> SUFFICES ASSUME q <= Len(look) PROVE look[q] = raw[q]
          OBVIOUS
        <4>1. q \in 1 .. Len(look)
          BY <3>1, <3>2
        <4>2. start + q <= Len(disk) /\ look[q] = disk[start + q]
          BY <2>4, <4>1
        <4> QED
          BY <2>2, <3>1, <4>2 DEF Starts
      <3>4. ~ short => q <= Len(look)
        <4> SUFFICES ASSUME ~ short PROVE q <= Len(look)
          OBVIOUS
        <4>1. ~ (Len(disk) - start < reach)
          BY <2>4
        <4>2. start + q <= Len(disk)
          BY <2>2, <2>3, <2>6, <3>1, <4>1
        <4> QED
          BY <2>4, <3>1, <4>2
      <3>5. q <= Len(raw)
        BY <3>1
      <3>6. Matches(S, look) <=> q <= Len(look) /\ look[q] = Form[S].tag
        BY <2>1, <2>8 DEF Matches
      <3>7. Matches(S, raw) <=> raw[q] = Form[S].tag
        BY <2>1, <2>8, <3>5 DEF Matches
      <3> QED
        BY <1>3, <2>1, <3>3, <3>4, <3>6, <3>7
    <2> QED
      BY <2>7, <2>8
  <1> QED
    BY <1>2, <1>3

(* Of the transitions of the state none but its own is selected, and none    *)
(* only if the input ran out.                                                *)
LEMMA TailOwn ==
    ASSUME Typed, Undisturbed, NEW at, Tears(at), Meets(at), InTail, phase = "selecting"
    PROVE  /\ \A i \in Matching : layout.transitions[i].record = hand.record /\ Sized(layout.transitions[i].record)
           /\ Matching = {} => short
  <1>1. Torn /\ rstate = wstate /\ rcount = wcount
    BY DEF Meets, TailOn
  <1>2. PICK raw, R : raw = hand.raw /\ R = hand.record
    OBVIOUS
  <1>3. layout \in Layouts /\ Takes(wstate, wcount, R, raw, hand.to)
    BY <1>1, <1>2, TornRecord
  <1>4. /\ Form[R].table => wcount \in Form[R].least .. Form[R].most
        /\ \A j \in Leaving(layout, rstate) :
              /\ Form[layout.transitions[j].record].at \in Nat
              /\ Form[layout.transitions[j].record].at <= Len(raw)
              /\ Matches(layout.transitions[j].record, raw) => layout.transitions[j].record = R
    BY <1>1, <1>3, TakenRecord
  <1>5. ASSUME NEW j \in Leaving(layout, rstate)
        PROVE  /\ Matches(layout.transitions[j].record, look) => Matches(layout.transitions[j].record, raw)
               /\ (Bounded(framing) \/ ~ short) /\ Matches(layout.transitions[j].record, raw)
                     => Matches(layout.transitions[j].record, look)
    <2>1. Form[layout.transitions[j].record].at <= Lookahead(layout)
      BY <1>3, LookaheadReaches DEF Leaving
    <2> QED
      BY <1>2, <1>4, <2>1, TailSees
  <1>6. PICK i \in Leaving(layout, rstate) : layout.transitions[i].record = R
    BY <1>1, <1>3 DEF Takes
  <1>7. Matches(R, raw)
    BY <1>3 DEF Takes
  <1>8. Bounded(framing) \/ ~ short => i \in Matching
    BY <1>5, <1>6, <1>7 DEF Matching
  <1>9. Sized(R)
    BY <1>1, <1>4 DEF Sized
  <1>10. Matching = {} => short
    BY <1>8
  <1> QED
    BY <1>2, <1>4, <1>5, <1>9, <1>10 DEF Matching

(* That nothing matches is for want of bytes, ...                            *)
LEMMA TailUndescribed ==
    ASSUME Typed, Reading, NEW at, Tears(at), Undisturbed, Meets(at), InTail, Undescribed
    PROVE  Meets(at)'
  <1>1. phase = "selecting" /\ Matching = {} /\ Ends(IF short THEN "cut" ELSE "undescribed")
    BY DEF Undescribed
  <1>2. short
    BY <1>1, TailOwn
  <1>3. Ends("cut")
    BY <1>1, <1>2
  <1> QED
    BY <1>3, TailStops

(* ... and what does match is the record's own transition.                   *)
LEMMA TailSelect ==
    ASSUME Typed, Reading, NEW at, Tears(at), Undisturbed, Meets(at), InTail, Select
    PROVE  Meets(at)'
  <1>1. phase = "selecting"
    BY DEF Select
  <1>2. PICK i \in Matching :
          IF Sized(layout.transitions[i].record)
            THEN /\ taken' = [taken EXCEPT !.record = layout.transitions[i].record, !.to = layout.transitions[i].to]
                 /\ phase' = "admitting"
                 /\ UNCHANGED <<pos, rstate, rcount, rfirst, look, short, data, got, said>>
            ELSE Ends("count")
    BY Zenon DEF Select
  <1>3. layout.transitions[i].record = hand.record /\ Sized(layout.transitions[i].record)
    BY <1>1, TailOwn
  <1>4. /\ taken' = [taken EXCEPT !.record = layout.transitions[i].record, !.to = layout.transitions[i].to]
        /\ phase' = "admitting"
        /\ UNCHANGED <<pos, rstate, rcount, rfirst, look, short, data, got, said>>
    BY <1>2, <1>3
  <1>5. /\ UNCHANGED <<framing, disk, intact, hand>> /\ Full' = Full
        /\ StartOf(intact + 1, EndOf(intact))' = StartOf(intact + 1, EndOf(intact))
    BY ReadingLeaves
  <1>6. taken'.record = hand.record
    BY <1>3, <1>4 DEF Typed, ReaderTyped, Taken
  <1>7. InTail' /\ TailGot' /\ TailOn' /\ TailOver'
    BY <1>4, TailWithin
  <1>8. TailSelects'
    BY <1>1, <1>4, <1>5 DEF Meets, TailSelects, Bounded
  <1>9. TailAdmits'
    BY <1>5, <1>6 DEF TailAdmits
  <1> QED
    BY <1>4, <1>7, <1>8, <1>9 DEF Meets, TailLeads, TailLooks, TailFinishes

(* What is admitted is the whole record.                                     *)
LEMMA TailAdmitted ==
    ASSUME Typed, Reading, NEW at, Undisturbed, Meets(at), InTail, phase = "admitting",
           NEW end, Admitted(hand.raw, end),
           Bounded(framing) => end = pos,
           ~ Bounded(framing) => end = StartOf(intact + 1, EndOf(intact)) + Len(hand.raw)
    PROVE  Meets(at)'
  <1>1. /\ taken' = [taken EXCEPT !.raw = hand.raw] /\ pos' = end /\ phase' = "trailing"
        /\ UNCHANGED <<rstate, rcount, rfirst, look, short, data, got, said>>
    BY DEF Admitted
  <1>2. /\ UNCHANGED <<framing, disk, intact, hand>> /\ Full' = Full
        /\ StartOf(intact + 1, EndOf(intact))' = StartOf(intact + 1, EndOf(intact))
    BY ReadingLeaves
  <1>3. taken'.raw = hand.raw /\ taken'.record = taken.record
    BY <1>1 DEF Typed, ReaderTyped, Taken
  <1>4. InTail' /\ TailGot' /\ TailOn' /\ TailOver'
    BY <1>1, TailWithin
  <1>5. TailAdmits'
    BY <1>2, <1>3 DEF Meets, TailAdmits
  <1>6. TailFinishes'
    <2>1. Bounded(framing) => pos = Len(disk) /\ Full
      BY DEF Meets, TailSelects
    <2> QED
      BY <1>1, <1>2, <1>3, <2>1 DEF TailFinishes, Bounded
  <1> QED
    BY <1>1, <1>4, <1>5, <1>6 DEF Meets, TailLeads, TailSelects, TailLooks

(* What the reader wants of it is what there was to be written.              *)
LEMMA TailWants ==
    ASSUME Typed, Undisturbed, NEW at, Tears(at), Meets(at), InTail, phase = "admitting"
    PROVE  Wanted = Len(hand.raw) /\ Decodes(taken.record, hand.raw)
  <1>1. Torn /\ rcount = wcount /\ taken.record = hand.record
    BY DEF Meets, TailOn, TailAdmits
  <1>2. PICK raw, R : raw = hand.raw /\ R = hand.record
    OBVIOUS
  <1>3. layout \in Layouts /\ Takes(wstate, wcount, R, raw, hand.to)
    BY <1>1, <1>2, TornRecord
  <1>4. Decodes(R, raw) /\ Len(raw) = Extent(R, wcount)
    BY <1>3, TakenRecord
  <1> QED
    BY <1>1, <1>2, <1>4 DEF Wanted

(* The frame holds it, ...                                                   *)
LEMMA TailAdmitBounded ==
    ASSUME Typed, Reading, NEW at, Tears(at), Undisturbed, Meets(at), InTail, AdmitBounded
    PROVE  Meets(at)'
  <1>1. phase = "admitting" /\ Bounded(framing)
    BY DEF AdmitBounded
  <1>2. data = hand.raw /\ Torn
    BY <1>1 DEF Meets, TailSelects, TailOn
  <1>3. Wanted = Len(data) /\ Decodes(taken.record, data)
    BY <1>1, <1>2, TailWants
  <1>4. data \in Seq(Byte) /\ Len(data) \in Nat
    BY DEF Typed, ReaderTyped
  <1>5. SubSeq(data, 1, Len(data)) = data
    BY <1>4, DrawnFrom
  <1>6. PICK w, raw : w = Wanted /\ raw = SubSeq(data, 1, Wanted)
    OBVIOUS
  <1>7. raw = data /\ w = Len(data)
    BY <1>3, <1>5, <1>6
  <1>8. \/ Len(data) < w /\ Ends("disagrees")
        \/ ~ Decodes(taken.record, raw) /\ Ends("malformed")
        \/ Len(data) # w /\ Ends("disagrees")
        \/ Admitted(raw, pos)
    BY <1>6 DEF AdmitBounded, Agrees
  <1>9. ~ (Len(data) < w)
    BY <1>4, <1>7
  <1>10. Admitted(hand.raw, pos)
    BY <1>2, <1>3, <1>7, <1>8, <1>9
  <1> QED
    BY <1>1, <1>10, TailAdmitted

(* ... or the bytes that are left do, or they run out.                       *)
LEMMA TailAdmitStreamed ==
    ASSUME Typed, Reading, NEW at, Tears(at), Undisturbed, Meets(at), InTail, AdmitStreamed
    PROVE  Meets(at)'
  <1>1. phase = "admitting" /\ ~ Bounded(framing)
    BY DEF AdmitStreamed
  <1>2. PICK raw, start, w : raw = hand.raw /\ start = StartOf(intact + 1, EndOf(intact)) /\ w = Wanted
    OBVIOUS
  <1>3. pos = start /\ Torn
    BY <1>1, <1>2 DEF Meets, TailSelects, TailOn
  <1>4. w = Len(raw) /\ Decodes(taken.record, raw)
    BY <1>1, <1>2, TailWants
  <1>5. start \in Nat /\ Starts(start, raw)
    BY <1>1, <1>2, <1>3, TailStream
  <1>6. /\ disk \in Seq(Byte) /\ Len(disk) \in Nat /\ pos \in 0 .. Len(disk) /\ damaged = 0
        /\ raw \in Seq(Byte) /\ Len(raw) \in Nat
    BY <1>2, <1>3, TornRecord
  <1>7. Left = Len(disk) - pos
    BY DEF Left
  <1>8. ~ (Left < w) => Ahead(w) = raw
    <2> SUFFICES ASSUME ~ (Left < w) PROVE Ahead(w) = raw
      OBVIOUS
    <2>1. pos + Len(raw) <= Len(disk)
      BY <1>4, <1>6, <1>7
    <2>2. Ahead(Len(raw)) = raw
      BY <1>3, <1>5, <1>6, <2>1, AheadStarts
    <2> QED
      BY <1>4, <2>2
  <1>9. Left >= w => ~ (Left < w)
    BY <1>4, <1>6, <1>7
  <1>10. \/ Left < w /\ Ends("cut")
         \/ Left >= w /\ ~ Decodes(taken.record, Ahead(w)) /\ Ends("malformed")
         \/ Left >= w /\ Admitted(Ahead(w), pos + w)
    BY <1>2 DEF AdmitStreamed
  <1>11. CASE Ends("cut")
    BY <1>11, TailStops
  <1>12. CASE Left >= w /\ Admitted(Ahead(w), pos + w)
    <2>1. PICK end : end = pos + w
      OBVIOUS
    <2>2. Admitted(hand.raw, end)
      BY <1>2, <1>8, <1>9, <1>12, <2>1
    <2>3. end = StartOf(intact + 1, EndOf(intact)) + Len(hand.raw)
      BY <1>2, <1>3, <1>4, <2>1
    <2> QED
      BY <1>1, <2>2, <2>3, TailAdmitted
  <1> QED
    BY <1>4, <1>8, <1>9, <1>10, <1>11, <1>12

(* Behind the record in hand there is the rest of its framing, or none.      *)
LEMMA TailTrailing ==
    ASSUME Typed, Reading, NEW at, Tears(at), Undisturbed, Meets(at), InTail, Trailing
    PROVE  Meets(at)'
  <1>1. phase = "trailing"
    BY DEF Trailing
  <1>2. Torn /\ taken.record = hand.record /\ taken.raw = hand.raw /\ Len(got) = intact
    BY <1>1 DEF Meets, TailOn, TailAdmits, TailFinishes, InTail
  <1>3. PICK raw, start, del, l, n : /\ raw = hand.raw /\ start = StartOf(intact + 1, EndOf(intact))
                                     /\ del = framing.delimiter /\ l = Len(del) /\ n = Len(raw)
    OBVIOUS
  <1>4. /\ disk \in Seq(Byte) /\ Len(disk) \in Nat /\ pos \in 0 .. Len(disk) /\ damaged = 0
        /\ framing \in Framings /\ raw \in Seq(Byte) /\ n \in Nat /\ intact \in Nat /\ intact = Len(sent)
    BY <1>2, <1>3, TornRecord
  <1>5. del \in Seq(Byte) /\ l \in Nat
    BY <1>3, <1>4, FileTypes
  <1>6. Left = Len(disk) - pos
    BY DEF Left
  <1>7. PICK after : after = IF Terminated THEN pos + Len(framing.delimiter) ELSE pos
    OBVIOUS
  <1>8. CASE Terminated /\ NoDelimiter
    <2>1. Trails /\ ~ Bounded(framing)
      BY <1>8 DEF Terminated, Trails, Bounded
    <2>2. pos = start + n /\ Starts(start + n, del)
      <3>1. pos = start + n
        BY <1>1, <1>3, <2>1 DEF Meets, TailFinishes
      <3>2. Starts(start + Len(raw), del)
        BY <1>2, <1>3, <2>1, TailStream
      <3> QED
        BY <1>3, <3>1, <3>2
    <2>3. ASSUME ~ (Left < l) PROVE DelimiterHere
      <3>1. pos + Len(del) <= Len(disk)
        BY <1>3, <1>4, <1>5, <1>6, <2>3
      <3>2. Ahead(Len(del)) = del
        BY <1>4, <1>5, <2>2, <3>1, AheadStarts
      <3> QED
        BY <1>3, <3>2 DEF DelimiterHere
    <2>4. Ends("cut")
      BY <1>3, <1>8, <2>3 DEF NoDelimiter
    <2> QED
      BY <2>4, TailStops
  <1>9. CASE /\ Terminated => DelimiterHere
             /\ pos' = after
             /\ got' = Append(got, [record |-> taken.record, raw |-> taken.raw, at |-> taken.at])
             /\ phase' = "boundary"
    <2>1. Len(got') = intact + 1 /\ got'[intact + 1].record = hand.record /\ got'[intact + 1].raw = hand.raw
      <3>1. PICK g : g = [record |-> taken.record, raw |-> taken.raw, at |-> taken.at]
        OBVIOUS
      <3>2. g \in Got /\ got \in Seq(Got)
        BY <1>1, <3>1 DEF Typed, ReaderTyped, Taken, Got
      <3>3. /\ Len(Append(got, g)) = Len(got) + 1
            /\ Append(got, g)[Len(got) + 1] = g
        BY <3>2, AppendProperties
      <3>4. g.record = hand.record /\ g.raw = hand.raw
        BY <1>2, <3>1
      <3> QED
        BY <1>2, <1>9, <3>1, <3>3, <3>4
    <2>2. after = Len(disk) /\ Full
      <3>1. CASE Bounded(framing)
        <4>1. ~ Terminated
          BY <3>1 DEF Bounded, Terminated
        <4> QED
          BY <1>1, <1>7, <3>1, <4>1 DEF Meets, TailFinishes
      <3>2. CASE ~ Bounded(framing)
        <4>1. pos = start + n
          BY <1>1, <1>3, <3>2 DEF Meets, TailFinishes
        <4>2. Streamed /\ start \in Nat
          BY <1>2, <1>3, <3>2, TailStream
        <4>3. Len(disk) <= IF Trails THEN start + n + l ELSE start + n
          <5>1. Len(disk) <= IF Trails THEN start + Len(raw) + Len(framing.delimiter) ELSE start + Len(raw)
            BY <1>2, <1>3, <3>2, TailStream
          <5> QED
            BY <1>3, <5>1
        <4>4. PICK base : base = EndOf(intact)
          OBVIOUS
        <4>5. base \in Nat
          <5>1. /\ Planned(EmissionOf(intact + 1, raw), at, base, raw)
                /\ Goes(EmissionOf(intact + 1, raw), at)
            BY <1>2, <1>3, <4>4, TornRecord
          <5> QED
            BY <1>3, <1>4, <4>2, <4>4, <5>1, StreamTorn
        <4>6. CASE ~ Trails
          <5>1. Len(disk) = start + n /\ pos = Len(disk)
            BY <1>4, <4>1, <4>2, <4>3, <4>6
          <5>2. ~ Terminated
            BY <4>6 DEF Terminated, Trails
          <5>3. Full
            <6>1. CASE framing.how = "unframed"
              <7>1. start = base
                BY <1>3, <4>4, <6>1 DEF StartOf
              <7>2. Len(disk) - base = n
                BY <1>4, <4>5, <5>1, <7>1
              <7> QED
                BY <1>3, <4>4, <6>1, <7>2 DEF Full, WholeTails
            <6>2. CASE framing.how = "separator"
              <7>1. start = IF intact = 0 THEN base ELSE base + l
                BY <1>3, <1>4, <4>4, <6>2 DEF StartOf
              <7>2. Len(disk) - base = IF intact = 0 THEN n ELSE l + n
                BY <1>4, <1>5, <4>5, <5>1, <7>1
              <7>3. intact = 0 <=> sent = <<>>
                BY <1>4 DEF Typed, WriterTyped
              <7> QED
                BY <1>3, <4>4, <6>2, <7>2, <7>3 DEF Full, WholeTails
            <6> QED
              BY <4>2, <4>6, <6>1, <6>2 DEF Streamed, Trails
          <5> QED
            BY <1>7, <5>1, <5>2, <5>3
        <4>7. CASE Trails
          <5>1. start = base
            BY <1>3, <4>4, <4>7 DEF StartOf, Trails
          <5>2. CASE Terminated
            <6>1. DelimiterHere
              BY <1>9, <5>2
            <6>2. Left >= l
              <7>1. Len(Ahead(l)) = IF l < Left THEN l ELSE Left
                BY <1>4, <1>5, AheadIs
              <7>2. Ahead(l) = del
                BY <1>3, <6>1 DEF DelimiterHere
              <7>3. Len(Ahead(l)) = l
                BY <1>3, <7>2
              <7> QED
                BY <1>4, <1>5, <1>6, <7>1, <7>3
            <6>3. Len(disk) = pos + l /\ Len(disk) - base = n + l
              BY <1>4, <1>5, <1>6, <4>1, <4>2, <4>3, <4>7, <5>1, <6>2
            <6>4. Full
              BY <1>3, <4>4, <4>7, <6>3 DEF Full, WholeTails, Trails
            <6> QED
              BY <1>3, <1>7, <5>2, <6>3, <6>4
          <5>3. CASE ~ Terminated
            <6>1. framing.how = "optional" /\ Left = 0
              BY <4>7, <5>3 DEF Terminated, Trails, NoneNeeded
            <6>2. Len(disk) = pos /\ Len(disk) - base = n
              BY <1>4, <1>6, <4>1, <4>2, <5>1, <6>1
            <6>3. Full
              BY <1>3, <4>4, <6>1, <6>2 DEF Full, WholeTails
            <6> QED
              BY <1>7, <5>3, <6>2, <6>3
          <5> QED
            BY <5>2, <5>3
        <4> QED
          BY <4>6, <4>7
      <3> QED
        BY <3>1, <3>2
    <2>3. UNCHANGED <<intact, hand, disk>> /\ Full' /\ Torn'
      BY <1>2, <2>2, ReadingLeaves
    <2>4. Len(got') = intact' + 1 /\ Len(got') <= intact' + 1
      BY <1>4, <2>1, <2>3
    <2>5. Came'
      BY <2>1, <2>3 DEF Came, Record
    <2>6. TailGot'
      BY <1>9, <2>2, <2>3, <2>4, <2>5 DEF TailGot
    <2> QED
      BY <1>9, <2>6 DEF Meets, TailOn, TailLeads, TailSelects, TailLooks, TailAdmits, TailFinishes, TailOver, InTail
  <1> QED
    BY <1>7, <1>8, <1>9 DEF Trailing

(* Every step of the reader.                                                 *)
LEMMA TailReading ==
    ASSUME Typed, Typed', Reading, SegmentsStatable, NEW path, NEW lay, NEW now, Writ(path, lay, now),
           Follows(path, lay), Follows(path, lay)', NEW at, Tears(at), Meets(at)
    PROVE  Meets(at)'
  <1>1. CASE ~ Undisturbed
    BY <1>1, ReadingLeaves DEF Meets
  <1>2. CASE Undisturbed
    <2>1. Len(got) \in Nat /\ intact \in Nat /\ Len(got) <= intact + 1
      BY <1>2 DEF Meets, TailGot, Typed, WriterTyped, ReaderTyped
    <2>2. CASE Len(got) < intact
      BY <1>2, <2>2, TailBefore
    <2>3. CASE Len(got) = intact + 1
      BY <1>2, <2>3, TailBehind
    <2>4. CASE Len(got) = intact
      <3>1. phase \notin {"boundary", "over"} => InTail
        BY <2>4 DEF InTail
      <3>2. CASE EndOfInput
        BY <1>2, <2>4, <3>2, TailEndOfInput
      <3>3. CASE AtRecord
        BY <1>2, <2>4, <3>3, TailAtRecord
      <3>4. CASE LeadingWord
        <4>1. InTail
          BY <3>1, <3>4 DEF LeadingWord, Leading
        <4> QED
          BY <1>2, <3>4, <4>1, TailLeadingWord
      <3>5. CASE LeadingSegment
        <4>1. InTail
          BY <3>1, <3>5 DEF LeadingSegment, Leading
        <4> QED
          BY <1>2, <3>5, <4>1, TailLeadingSegment
      <3>6. CASE LeadingNothing
        <4>1. InTail
          BY <3>1, <3>6 DEF LeadingNothing
        <4> QED
          BY <1>2, <3>6, <4>1, TailLeadingNothing
      <3>7. CASE LeadingSeparator
        <4>1. InTail
          BY <3>1, <3>7 DEF LeadingSeparator, Leading
        <4> QED
          BY <1>2, <3>7, <4>1, TailLeadingSeparator
      <3>8. CASE Undescribed
        <4>1. InTail
          BY <3>1, <3>8 DEF Undescribed
        <4> QED
          BY <1>2, <3>8, <4>1, TailUndescribed
      <3>9. CASE Select
        <4>1. InTail
          BY <3>1, <3>9 DEF Select
        <4> QED
          BY <1>2, <3>9, <4>1, TailSelect
      <3>10. CASE AdmitBounded
        <4>1. InTail
          BY <3>1, <3>10 DEF AdmitBounded
        <4> QED
          BY <1>2, <3>10, <4>1, TailAdmitBounded
      <3>11. CASE AdmitStreamed
        <4>1. InTail
          BY <3>1, <3>11 DEF AdmitStreamed
        <4> QED
          BY <1>2, <3>11, <4>1, TailAdmitStreamed
      <3>12. CASE Trailing
        <4>1. InTail
          BY <3>1, <3>12 DEF Trailing
        <4> QED
          BY <1>2, <3>12, <4>1, TailTrailing
      <3> QED
        BY <3>2, <3>3, <3>4, <3>5, <3>6, <3>7, <3>8, <3>9, <3>10, <3>11, <3>12 DEF Reading, Next
    <2> QED
      BY <2>1, <2>2, <2>3, <2>4
  <1> QED
    BY <1>1, <1>2

(* TailFromStart of the state that follows.                                  *)
LEMMA TailFromStartNext ==
    ASSUME NEW at
    PROVE  (Typed /\ ReaderInit => Meets(at))'
  <1>1. Typed /\ ReaderInit => Meets(at)
    BY TailFromStart
  <1> QED
    BY <1>1, PTL

(* What Meets depends on.                                                    *)
LEMMA MeetsStays ==
    ASSUME UNCHANGED <<config, disk, ended, writer, reader, damaged>>, NEW at, Meets(at)
    PROVE  Meets(at)'
  <1>1. UNCHANGED <<layout, framing, disk, damaged, wstate, wcount, hand, chunks, sent, ends, failures, intact,
                    pos, phase, rstate, rcount, rfirst, look, short, data, taken, got, said>>
    BY DEF config, writer, reader
  <1>2. /\ \A i : EndOf(i)' = EndOf(i)
        /\ \A i, b : StartOf(i, b)' = StartOf(i, b)
        /\ \A raw : Pieces(raw)' = Pieces(raw)
        /\ \A k : InFirst(k)' = InFirst(k)
        /\ Lookahead(layout)' = Lookahead(layout)
    BY <1>1 DEF EndOf, StartOf, Pieces, Most, InFirst, Lookahead
  <1>3. Undisturbed' = Undisturbed /\ Torn' = Torn /\ InTail' = InTail /\ Came' = Came
    BY <1>1 DEF Undisturbed, Torn, WroteOn, InTail, Came, Record
  <1>4. Full' = Full
    BY <1>1, <1>2 DEF Full, WholeTails
  <1>5. TailGot' = TailGot /\ TailOn' = TailOn /\ TailLeads(at)' = TailLeads(at)
    BY <1>1, <1>2, <1>3, <1>4 DEF TailGot, TailOn, TailLeads
  <1>6. TailSelects' = TailSelects /\ TailLooks' = TailLooks
    BY <1>1, <1>2, <1>3, <1>4 DEF TailSelects, TailLooks, Bounded
  <1>7. TailAdmits' = TailAdmits /\ TailFinishes' = TailFinishes /\ TailOver' = TailOver
    BY <1>1, <1>2, <1>3, <1>4 DEF TailAdmits, TailFinishes, TailOver, Bounded
  <1> QED
    BY <1>3, <1>5, <1>6, <1>7 DEF Meets

-----------------------------------------------------------------------------
(* The invariant, and what follows from it.                                  *)

ReadsBack ==
    \E path, lay, now, at :
        /\ Writ(path, lay, now) /\ Tears(at)
        /\ SegmentsStatable => Follows(path, lay) /\ Meets(at)

IInv == Typed /\ ReadsBack

(* The invariant holds at the start, ...                                     *)
LEMMA ReadsBackInit == FramedInit => IInv
  <1> SUFFICES ASSUME FramedInit PROVE IInv
    OBVIOUS
  <1>1. Typed
    BY TypedInit
  <1>2. PICK path, lay, now : Writ(path, lay, now)
    BY <1>1, WritInit
  <1>3. Follows(path, lay)
    BY <1>1, <1>2, FollowsFromStart DEF Writ, FramedInit
  <1>4. PICK at : at = 0
    OBVIOUS
  <1>5. Tears(at)
    BY DEF Tears, Torn, FramedInit, WriterInit
  <1>6. Meets(at)
    BY <1>1, TailFromStart DEF FramedInit
  <1> QED
    BY <1>1, <1>2, <1>3, <1>5, <1>6 DEF IInv, ReadsBack

(* ... every step keeps it, ...                                              *)
LEMMA ReadsBackNext == IInv /\ [FramedNext]_fileVars => IInv'
  <1> SUFFICES ASSUME IInv, [FramedNext]_fileVars PROVE IInv'
    OBVIOUS
  <1>1. Typed /\ ReadsBack
    BY DEF IInv
  <1>2. PICK path, lay, now, at :
            /\ Writ(path, lay, now) /\ Tears(at)
            /\ SegmentsStatable => Follows(path, lay) /\ Meets(at)
    BY <1>1 DEF ReadsBack
  <1>3. CASE Writing
    <2>1. Typed'
      BY <1>1, <1>3, TypedWriting
    <2>2. \E way, places, then : Writ(way, places, then)'
      BY <1>1, <1>2, <1>3, <2>1, WritWriting
    <2>3. PICK way, places, then : Writ(way, places, then)'
      BY <2>2
    <2>4. ReaderInit'
      <3>1. ended = "open"
        BY <1>3 DEF Writing, Write, PutChunk, PutFails, Close, Abandon
      <3>2. ReaderInit /\ UNCHANGED <<reader, layout>>
        BY <1>1, <1>3, <3>1 DEF Typed, FileTyped, Writing, Write, PutChunk, PutFails, Close, Abandon, config
      <3> QED
        BY <3>2 DEF ReaderInit, reader
    <2>5. Follows(way, places)'
      BY <2>1, <2>3, <2>4, FollowsFromStartNext DEF Writ
    <2>6. \E ahead : Tears(ahead)'
      BY <1>1, <1>2, <1>3, <2>1, TearsWriting
    <2>7. PICK ahead : Tears(ahead)'
      BY <2>6
    <2>8. Meets(ahead)'
      BY <2>1, <2>4, TailFromStartNext
    <2> QED
      BY <2>1, <2>3, <2>5, <2>7, <2>8 DEF IInv, ReadsBack
  <1>4. CASE Damage
    <2>1. Typed'
      BY <1>1, <1>4, TypedDamage
    <2>2. Writ(path, lay, now)'
      BY <1>1, <1>2, <1>4, <2>1, WritDamage
    <2>3. SegmentsStatable' = SegmentsStatable
      BY <1>4 DEF SegmentsStatable, Damage, config
    <2>4. SegmentsStatable => Follows(path, lay)'
      BY <1>1, <1>2, <1>4, <2>1, FollowsDamage
    <2>5. damaged' # 0
      BY <1>1, <1>4 DEF Damage, Typed, FileTyped
    <2>6. Tears(at)' /\ Meets(at)'
      BY <2>5 DEF Tears, Meets, Undisturbed
    <2> QED
      BY <2>1, <2>2, <2>3, <2>4, <2>6 DEF IInv, ReadsBack
  <1>5. CASE Reading
    <2>1. Typed'
      BY <1>1, <1>5, TypedReading
    <2>2. Writ(path, lay, now)'
      BY <1>2, <1>5, WritReading DEF Reading
    <2>3. SegmentsStatable' = SegmentsStatable
      BY <1>5 DEF SegmentsStatable, Reading, config
    <2>4. SegmentsStatable => Follows(path, lay)'
      BY <1>1, <1>2, <1>5, FollowsReading
    <2>5. Tears(at)'
      BY <1>2, <1>5, TearsStays DEF Reading, config, writer
    <2>6. SegmentsStatable => Meets(at)'
      BY <1>1, <1>2, <1>5, <2>1, <2>4, TailReading
    <2> QED
      BY <2>1, <2>2, <2>3, <2>4, <2>5, <2>6 DEF IInv, ReadsBack
  <1>6. CASE UNCHANGED fileVars
    <2>1. UNCHANGED <<config, disk, ended, writer, reader, damaged>>
      BY <1>6 DEF fileVars
    <2>2. UNCHANGED <<layout, framing, disk, damaged, wstate, wcount, first, hand, chunks, sent, ends, framed, failures, intact,
                      pos, phase, rstate, rcount, rfirst, look, short, data, taken, got, said>>
      BY <2>1 DEF config, writer, reader
    <2>3. Typed'
      BY <1>1, <2>1, <2>2 DEF Typed, FileTyped, WriterTyped, ReaderTyped, ReaderInit, Sized
    <2>4. Writ(path, lay, now)'
      BY <1>2, <2>1, WritReading
    <2>5. SegmentsStatable' = SegmentsStatable
      BY <2>2 DEF SegmentsStatable
    <2>6. SegmentsStatable => Follows(path, lay)'
      <3> SUFFICES ASSUME SegmentsStatable PROVE Follows(path, lay)'
        OBVIOUS
      <3>1. Follows(path, lay)
        BY <1>2
      <3>2. /\ InStep' = InStep /\ Sound' = Sound /\ Clean' = Clean /\ Nth' = Nth
            /\ \A i : EndOf(i)' = EndOf(i)
            /\ \A i, b : StartOf(i, b)' = StartOf(i, b)
            /\ \A raw : Pieces(raw)' = Pieces(raw)
            /\ Most' = Most
        BY <2>1, <2>2 DEF InStep, Sound, Clean, Nth, EndOf, StartOf, Pieces, Most
      <3>3. Handed' /\ Between(path)' /\ Begun(path)'
        BY <2>2, <3>1, <3>2 DEF Follows, Handed, Record, Between, Begun, OnPath, Separates
      <3>4. Leads(lay)'
        BY <2>2, <3>1, <3>2 DEF Follows, Leads, Separates
      <3>5. Selects' /\ Looks'
        BY <2>2, <3>1, <3>2 DEF Follows, Selects, Looks
      <3>6. Admits(path)' /\ Finishes(path)' /\ Opened' /\ Finds'
        BY <2>2, <3>1, <3>2 DEF Follows, Admits, Finishes, Opened, Finds
      <3> QED
        BY <3>3, <3>4, <3>5, <3>6 DEF Follows
    <2>7. Tears(at)'
      BY <1>2, <2>2, TearsStays
    <2>8. SegmentsStatable => Meets(at)'
      BY <1>2, <2>1, MeetsStays
    <2> QED
      BY <2>3, <2>4, <2>5, <2>6, <2>7, <2>8 DEF IInv, ReadsBack
  <1> QED
    BY <1>3, <1>4, <1>5, <1>6 DEF FramedNext

(* ... and so it holds of every behaviour.                                   *)
LEMMA ReadsBackAlways == FramedSpec => []IInv
  BY ReadsBackInit, ReadsBackNext, PTL DEF FramedSpec

(* The records that came to no harm are the first ones.                      *)
LEMMA SoundFirst ==
    ASSUME Typed, NEW path, NEW lay, InPlace(path, lay), NEW j \in Sound, NEW i \in Nat \ {0}, i <= j
    PROVE  i \in Sound
  <1>1. j \in 1 .. intact /\ intact \in Nat /\ damaged \in Nat
    BY DEF Sound, Typed, FileTyped, WriterTyped
  <1>2. i \in 1 .. intact /\ i \in 0 .. intact /\ j \in 0 .. intact /\ j # 0
    BY <1>1
  <1>3. EndOf(i) <= EndOf(j) /\ EndOf(i) \in Nat /\ EndOf(j) \in Nat
    BY <1>2 DEF InPlace
  <1>4. ends[i] <= ends[j] /\ ends[i] \in Nat /\ ends[j] \in Nat
    BY <1>2, <1>3 DEF EndOf
  <1>5. ends[j] < damaged => ends[i] < damaged
    BY <1>1, <1>4
  <1> QED
    BY <1>2, <1>5 DEF Sound

(* Writing what is read back: the records written before anything went wrong *)
(* come back as they were written, and a file that was closed comes back     *)
(* whole, whatever the layout, the framing, the records, the writes that     *)
(* fail and the byte that is damaged (emit in writer.go, next in reader.go). *)
THEOREM ReadBackAsWritten == FramedSpec => []WrittenIsReadBack
  <1>1. IInv => WrittenIsReadBack
    <2> SUFFICES ASSUME IInv, SegmentsStatable
                 PROVE  /\ \A i \in Sound \cap DOMAIN got : Record(i) = sent[i]
                        /\ Over => Sound \subseteq DOMAIN got
                        /\ Over /\ ended = "closed" /\ damaged = 0 /\ failures = 0
                              => said = "eof" /\ Len(got) = Len(sent)
      BY DEF WrittenIsReadBack
    <2>1. Typed /\ \E path, lay, now : Writ(path, lay, now) /\ Follows(path, lay)
      BY DEF IInv, ReadsBack
    <2>2. PICK path, lay, now : Writ(path, lay, now) /\ Follows(path, lay)
      BY <2>1
    <2>3. /\ got \in Seq(Got) /\ Len(got) \in Nat /\ DOMAIN got = 1 .. Len(got) /\ intact \in Nat
          /\ failures = 0 => intact = Len(sent)
      BY <2>1 DEF Typed, WriterTyped, ReaderTyped
    <2>4. \A i \in Sound \cap DOMAIN got : Record(i) = sent[i]
      BY <2>2, SoundInStep DEF Follows, Handed
    <2>5. ASSUME Over PROVE Sound \subseteq DOMAIN got
      <3>1. Nth \notin Sound
        BY <2>2, <2>5 DEF Over, Follows, Finds
      <3> SUFFICES ASSUME NEW j \in Sound, j \notin DOMAIN got PROVE FALSE
        OBVIOUS
      <3>2. j \in 1 .. intact
        BY DEF Sound
      <3>3. Nth \in Nat \ {0} /\ Nth <= j
        BY <2>3, <3>2 DEF Nth
      <3> QED
        BY <2>1, <2>2, <3>1, <3>3, SoundFirst DEF Writ
    <2>6. ASSUME Over, ended = "closed", damaged = 0, failures = 0
          PROVE  said = "eof" /\ Len(got) = Len(sent)
      <3>1. Clean
        BY <2>6 DEF Clean
      <3>2. Len(got) <= intact /\ (Len(got) = intact => said = "eof")
        BY <2>2, <2>6, <3>1 DEF Over, Follows, Finds
      <3>3. Sound = 1 .. intact
        BY <2>6 DEF Sound
      <3>4. Len(got) = intact
        <4>1. intact = 0 \/ intact \in Sound
          BY <2>3, <3>3
        <4>2. intact = 0 \/ intact \in 1 .. Len(got)
          BY <2>3, <2>5, <2>6, <4>1
        <4> QED
          <5>1. PICK n : n = Len(got)
            BY Zenon
          <5>2. n \in Nat /\ intact \in Nat /\ n <= intact /\ (intact = 0 \/ intact \in 1 .. n)
            BY <2>3, <3>2, <4>2, <5>1, Zenon
          <5> QED
            BY <5>1, <5>2
      <3> QED
        BY <2>3, <2>6, <3>2, <3>4
    <2> QED
      BY <2>4, <2>5, <2>6
  <1> QED
    BY <1>1, ReadsBackAlways, PTL

(* Where the framing states lengths, a changed byte of a record moves no     *)
(* other record: each comes out of the frame it was put in and fills it      *)
(* (admit in reader.go).                                                     *)
THEOREM DamageKept == FramedSpec => []DamageStaysInItsRecord
  <1>1. IInv => DamageStaysInItsRecord
    <2> SUFFICES ASSUME IInv, SegmentsStatable, Bounded(framing), failures = 0, damaged \notin framed,
                        NEW i \in DOMAIN got \cap DOMAIN sent
                 PROVE  got[i].at = EndOf(i - 1) /\ Len(got[i].raw) = Len(sent[i].raw)
      BY DEF DamageStaysInItsRecord
    <2>1. Typed /\ \E path, lay, now : Writ(path, lay, now) /\ Follows(path, lay)
      BY DEF IInv, ReadsBack
    <2>2. Handed
      BY <2>1 DEF Follows
    <2>3. intact = Len(sent) /\ DOMAIN sent = 1 .. Len(sent)
      BY <2>1 DEF Typed, WriterTyped
    <2>4. i \in InStep
      BY <2>3 DEF InStep
    <2> QED
      BY <2>2, <2>4 DEF Handed
  <1> QED
    BY <1>1, ReadsBackAlways, PTL


(* Writing cut short is told: of a file that was left in the middle of a     *)
(* record the reader says that it is cut short and nothing else, whichever   *)
(* step of Next meets its end, and says that it is complete only where       *)
(* nothing of the record in hand is missing, which then comes back as it was *)
(* written (EndOfInput, leading, admit and trailing in reader.go).           *)
THEOREM CutShortIsTold == FramedSpec => []CutShortIsSaid
  <1>1. IInv => CutShortIsSaid
    <2> DEFINE tail == Len(disk) - EndOf(Len(sent))
               all  == [i \in DOMAIN got |-> Record(i)]
               last == [record |-> hand.record, raw |-> hand.raw]
    <2> SUFFICES ASSUME IInv, SegmentsStatable, Over, damaged = 0, ~ WroteOn
                 PROVE  /\ said \in Faults => said = "cut"
                        /\ said = "eof" => \/ tail = 0 /\ all = sent
                                           \/ tail \in WholeTails /\ all = Append(sent, last)
      BY DEF CutShortIsSaid
    <2>1. Typed /\ \E path, lay, now, at : Writ(path, lay, now) /\ Tears(at) /\ Follows(path, lay) /\ Meets(at)
      BY DEF IInv, ReadsBack
    <2>2. PICK path, lay, now, at : Writ(path, lay, now) /\ Tears(at) /\ Follows(path, lay) /\ Meets(at)
      BY <2>1
    <2>3. phase = "over" /\ TailGot /\ TailOver
      BY <2>2 DEF Over, Undisturbed, Meets
    <2>4. said \in Faults => said = "cut"
      BY <2>3 DEF TailOver, Faults
    <2>5. /\ got \in Seq(Got) /\ Len(got) \in Nat /\ DOMAIN got = 1 .. Len(got) /\ intact \in Nat
          /\ sent \in Seq(Sent) /\ Len(sent) \in Nat /\ intact <= Len(sent) /\ failures \in Nat
          /\ failures = 0 => intact = Len(sent)
      <3>1. got \in Seq(Got) /\ Len(got) \in Nat /\ DOMAIN got = 1 .. Len(got)
        BY <2>1 DEF Typed, ReaderTyped
      <3> QED
        BY <2>1, <3>1 DEF Typed, WriterTyped
    <2>6. intact = Len(sent)
      BY <2>5 DEF WroteOn
    <2>7. Sound = 1 .. intact
      BY DEF Sound
    <2> HIDE DEF last
    <2>8. \A i \in 1 .. intact : i \in DOMAIN got => Record(i) = sent[i]
      BY <2>2, <2>7, SoundInStep DEF Follows, Handed
    <2>9. CASE said = "eof" /\ Len(got) = intact /\ Len(disk) = EndOf(intact)
      <3>1. tail = 0
        <4>1. Len(disk) \in Nat
          BY <2>1 DEF Typed, FileTyped
        <4> QED
          BY <2>6, <2>9, <4>1
      <3>2. all = sent
        <4>1. DOMAIN got = 1 .. Len(sent) /\ \A i \in 1 .. Len(sent) : Record(i) = sent[i]
          BY <2>5, <2>6, <2>8, <2>9
        <4>2. sent = [i \in 1 .. Len(sent) |-> sent[i]]
          BY <2>5
        <4> QED
          BY <4>1, <4>2
      <3> HIDE DEF tail, all
      <3> QED
        BY <2>4, <3>1, <3>2
    <2>10. CASE said = "eof" /\ Len(got) = intact + 1
      <3>1. Came /\ Full /\ Torn
        BY <2>3, <2>10 DEF TailGot
      <3>2. tail \in WholeTails
        BY <2>6, <3>1 DEF Full
      <3>3. all = Append(sent, last)
        <4>1. PICK n, end : n = Len(sent) /\ end = last
          OBVIOUS
        <4>2. end \in Sent
          <5>1. layout \in Layouts /\ Takes(wstate, wcount, hand.record, hand.raw, hand.to)
            BY <2>1, <2>2, <3>1, TornRecord DEF Undisturbed
          <5> QED
            BY <4>1, <5>1, TakenRecord DEF last, Sent
        <4>3. PICK ext : ext = Append(sent, end)
          OBVIOUS
        <4>4. /\ ext \in Seq(Sent) /\ Len(ext) = n + 1
              /\ \A i \in 1 .. n : ext[i] = sent[i]
              /\ ext[n + 1] = end
          BY <2>5, <4>1, <4>2, <4>3, AppendProperties
        <4>5. ext = [i \in 1 .. n + 1 |-> ext[i]]
          BY <4>4
        <4>6. n \in Nat /\ DOMAIN got = 1 .. n + 1 /\ Record(n + 1) = end
          BY <2>5, <2>6, <2>10, <3>1, <4>1 DEF Came, last
        <4>7. \A i \in 1 .. n + 1 : Record(i) = ext[i]
          <5> SUFFICES ASSUME NEW i \in 1 .. n + 1 PROVE Record(i) = ext[i]
            OBVIOUS
          <5>1. CASE i = n + 1
            BY <4>4, <4>6, <5>1
          <5>2. CASE i # n + 1
            <6>1. i \in 1 .. n /\ i \in DOMAIN got
              BY <4>6, <5>2
            <6> QED
              BY <2>6, <2>8, <4>1, <4>4, <6>1
          <5> QED
            BY <5>1, <5>2
        <4> QED
          BY <4>1, <4>3, <4>5, <4>6, <4>7
      <3> QED
        BY <2>4, <3>2, <3>3
    <2> QED
      BY <2>3, <2>4, <2>9, <2>10 DEF TailOver
  <1> QED
    BY <1>1, ReadsBackAlways, PTL

=============================================================================
