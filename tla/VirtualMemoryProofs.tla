------------------------- MODULE VirtualMemoryProofs -------------------------
(***************************************************************************)
(* Facts about the operators of VirtualMemory, for every size of word and  *)
(* every list of regions: word arithmetic, the lookup of an address, the   *)
(* permission check and the effect of a store.                             *)
(***************************************************************************)
EXTENDS VirtualMemory, WellFoundedInduction, TLAPS

-----------------------------------------------------------------------------
(***************************************************************************)
(* Arithmetic.                                                             *)
(***************************************************************************)

\* WordSize and WordModulus are positive numbers.
LEMMA WordTypes == /\ WordSize \in Nat /\ WordSize > 0
                   /\ WordModulus \in Nat /\ WordModulus > WordSize
  BY MemoryAssumption

\* A remainder by WordSize is a remainder, and determines the multiple.
LEMMA DivisionFacts ==
  ASSUME NEW a \in Int
  PROVE  /\ a \div WordSize \in Int
         /\ a % WordSize \in 0 .. WordSize - 1
         /\ a = WordSize * (a \div WordSize) + (a % WordSize)
  BY WordTypes

\* The decomposition into a multiple of WordSize and a remainder is unique.
LEMMA RemainderUnique ==
  ASSUME NEW q \in Int, NEW r \in 0 .. WordSize - 1
  PROVE  (WordSize * q + r) % WordSize = r
  BY WordTypes

\* Multiplying by WordSize distributes and is monotone.
LEMMA MultiplesOfWordSize ==
  ASSUME NEW p \in Int, NEW q \in Int
  PROVE  /\ WordSize * p + WordSize * q = WordSize * (p + q)
         /\ WordSize * p - WordSize * q = WordSize * (p - q)
         /\ WordSize * (p + 1) = WordSize * p + WordSize
         /\ p <= q => WordSize * p <= WordSize * q
         /\ WordSize * p \in Int
<1> DEFINE w == WordSize
<1>1. w \in Nat
  BY WordTypes
<1> HIDE DEF w
<1>2. w * p + w * q = w * (p + q) /\ w * p - w * q = w * (p - q)
  BY <1>1
<1>3. w * (p + 1) = w * p + w /\ w * p \in Int
  BY <1>1
<1>4. ASSUME p <= q PROVE w * p <= w * q
  <2>1. w * (q - p) >= 0
    BY <1>1, <1>4
  <2>2. w * (q - p) = w * q - w * p
    BY <1>1
  <2>3. QED
    BY <1>1, <2>1, <2>2
<1>5. QED
  BY <1>2, <1>3, <1>4 DEF w

\* Word-aligned quantities are closed under sums and differences.
LEMMA AlignedSums ==
  ASSUME NEW a \in Int, NEW b \in Int,
         a % WordSize = 0, b % WordSize = 0
  PROVE  (a + b) % WordSize = 0 /\ (a - b) % WordSize = 0
<1> DEFINE p == a \div WordSize
           q == b \div WordSize
<1>1. p \in Int /\ q \in Int /\ a = WordSize * p /\ b = WordSize * q
  BY DivisionFacts, WordTypes
<1> HIDE DEF p, q
<1>2. a + b = WordSize * (p + q) + 0 /\ a - b = WordSize * (p - q) + 0
  BY <1>1, MultiplesOfWordSize, WordTypes
<1>3. 0 \in 0 .. WordSize - 1 /\ p + q \in Int /\ p - q \in Int
  BY <1>1, WordTypes
<1>4. QED
  BY <1>2, <1>3, RemainderUnique, WordTypes

\* Between two word-aligned quantities there is at least a word.
LEMMA AlignedGap ==
  ASSUME NEW a \in Int, NEW b \in Int,
         a % WordSize = 0, b % WordSize = 0, a < b
  PROVE  a + WordSize <= b
<1> DEFINE p == a \div WordSize
           q == b \div WordSize
<1>1. p \in Int /\ q \in Int /\ a = WordSize * p /\ b = WordSize * q
  BY DivisionFacts, WordTypes
<1> HIDE DEF p, q
<1>2. p + 1 <= q
  <2>1. SUFFICES ASSUME q <= p PROVE FALSE
    BY <1>1
  <2>2. WordSize * q <= WordSize * p
    BY <1>1, <2>1, MultiplesOfWordSize, WordTypes
  <2>3. QED
    BY <1>1, <2>2
<1>3. WordSize * (p + 1) <= WordSize * q
  BY <1>1, <1>2, MultiplesOfWordSize, WordTypes
<1>4. QED
  BY <1>1, <1>3, MultiplesOfWordSize, WordTypes

\* WordSize is a multiple of itself.
LEMMA WordSizeAligned == WordSize % WordSize = 0
<1>1. WordSize = WordSize * 1 + 0 /\ 0 \in 0 .. WordSize - 1
  BY WordTypes
<1>2. QED
  BY <1>1, RemainderUnique

\* Sums and differences of words are words.
LEMMA WordArithmetic ==
  ASSUME NEW a \in Word, NEW b \in Word
  PROVE  Add(a, b) \in Word /\ Sub(a, b) \in Word
  BY WordTypes DEF Add, Sub, Word

\* Unless its addition wraps, RoundUp yields the least multiple of WordSize
\* that is not below the size.
LEMMA RoundUpBounds ==
  ASSUME NEW size \in Word
  PROVE  /\ RoundUp(size) \in Word
         /\ RoundUp(size) % WordSize = 0
         /\ RoundUp(size) >= size =>
              \A bound \in Int : bound >= size /\ bound % WordSize = 0
                                   => RoundUp(size) <= bound
<1> DEFINE sum == Add(size, WordSize - 1)
           r   == sum % WordSize
           k   == sum \div WordSize
<1>1. sum \in Word
  <2>1. WordSize - 1 \in Word
    BY WordTypes DEF Word
  <2>2. QED
    BY <2>1, WordArithmetic
<1>2. RoundUp(size) = sum - r
  BY DEF RoundUp
<1>6. sum = size + WordSize - 1 \/ sum = size + WordSize - 1 - WordModulus
  BY WordTypes DEF Add, Word
<1> HIDE DEF sum
<1>3. r \in 0 .. WordSize - 1 /\ k \in Int /\ sum = WordSize * k + r
  <2>1. sum \in Int
    BY <1>1, WordTypes DEF Word
  <2>2. QED
    BY <2>1, DivisionFacts
<1> HIDE DEF r, k
<1>4. RoundUp(size) = WordSize * k + 0 /\ RoundUp(size) \in Int
  BY <1>2, <1>3, MultiplesOfWordSize, WordTypes
<1>5. RoundUp(size) % WordSize = 0
  <2>1. 0 \in 0 .. WordSize - 1
    BY WordTypes
  <2>2. QED
    BY <1>3, <1>4, <2>1, RemainderUnique
<1>7. RoundUp(size) \in Int /\ RoundUp(size) <= sum
  BY <1>1, <1>2, <1>3, WordTypes DEF Word
<1>8. RoundUp(size) \in Word
  <2>1. SUFFICES ASSUME RoundUp(size) < 0 PROVE FALSE
    BY <1>1, <1>7, WordTypes DEF Word
  <2>2. RoundUp(size) + WordSize <= 0
    <3>1. 0 % WordSize = 0
      <4>1. 0 = WordSize * 0 + 0 /\ 0 \in 0 .. WordSize - 1
        BY WordTypes
      <4>2. QED
        BY <4>1, RemainderUnique
    <3>2. \A b \in Int : b % WordSize = 0 /\ RoundUp(size) < b
                            => RoundUp(size) + WordSize <= b
      BY <1>5, <1>7, AlignedGap
    <3>3. QED
      BY <2>1, <3>1, <3>2
  <2>3. QED
    BY <1>1, <1>2, <1>3, <2>2, WordTypes DEF Word
<1>9. ASSUME RoundUp(size) >= size, NEW bound \in Int,
             bound >= size, bound % WordSize = 0
      PROVE  RoundUp(size) <= bound
  <2>1. SUFFICES ASSUME bound < RoundUp(size) PROVE FALSE
    BY <1>7
  <2>2. bound + WordSize <= RoundUp(size)
    BY <1>5, <1>7, <1>9, <2>1, AlignedGap, WordTypes
  <2>3. sum <= size + WordSize - 1
    BY <1>6, WordTypes DEF Word
  <2>4. QED
    BY <1>1, <1>7, <1>9, <2>2, <2>3, WordTypes DEF Word
<1>10. QED
  BY <1>5, <1>8, <1>9

-----------------------------------------------------------------------------
(***************************************************************************)
(* The lookup of an address.                                               *)
(***************************************************************************)

\* A non-empty set of numbers has a least element.
LEMMA LeastNumber ==
  ASSUME NEW S, S \subseteq Nat, S # {}
  PROVE  \E x \in S : \A y \in S : x <= y
<1>1. PICK x \in S : \A y \in S : ~(<<y, x>> \in OpToRel(<, Nat))
  BY NatLessThanWellFounded, WFMin
<1>2. ASSUME NEW y \in S PROVE x <= y
  <2>1. SUFFICES ASSUME y < x PROVE FALSE
    OBVIOUS
  <2>2. <<y, x>> \in Nat \X Nat /\ <<y, x>>[1] < <<y, x>>[2]
    BY <2>1
  <2>3. <<y, x>> \in OpToRel(<, Nat)
    BY <2>2, Zenon DEF OpToRel
  <2>4. QED
    BY <1>1, <2>3
<1>3. QED
  BY <1>2

\* regionAt() yields a region that contains the address whenever it yields one,
\* and yields one whenever some region contains the address.
LEMMA RegionAtFacts ==
  ASSUME NEW n \in Nat, NEW regions, DOMAIN regions = 1 .. n, NEW address
  PROVE  LET i == regionAt(regions, address) IN
         /\ i # NoRegion => i \in 1 .. n /\ Contains(regions[i], address)
         /\ (\E j \in 1 .. n : Contains(regions[j], address)) => i # NoRegion
<1> DEFINE Holding == {j \in 1 .. n : Contains(regions[j], address)}
           First(j) == /\ Contains(regions[j], address)
                       /\ \A k \in 1 .. j - 1 : ~Contains(regions[k], address)
<1>1. CASE Holding = {}
  <2>1. regionAt(regions, address) = NoRegion
    BY <1>1 DEF regionAt
  <2>2. QED
    BY <1>1, <2>1
<1>2. CASE Holding # {}
  <2>1. PICK x \in Holding : \A y \in Holding : x <= y
    <3>1. Holding \subseteq Nat
      OBVIOUS
    <3> HIDE DEF Holding
    <3>2. QED
      BY <1>2, <3>1, LeastNumber
  <2>2. x \in 1 .. n /\ First(x)
    <3>1. ASSUME NEW k \in 1 .. x - 1, Contains(regions[k], address)
          PROVE  FALSE
      <4>1. k \in Holding
        BY <2>1, <3>1
      <4>2. QED
        BY <2>1, <4>1
    <3>2. QED
      BY <2>1, <3>1
  <2>3. regionAt(regions, address) = CHOOSE j \in 1 .. n : First(j)
    BY <1>2 DEF regionAt
  <2>4. /\ regionAt(regions, address) \in 1 .. n
        /\ Contains(regions[regionAt(regions, address)], address)
    BY <2>2, <2>3
  <2>5. QED
    BY <2>4 DEF NoRegion
<1>3. QED
  BY <1>1, <1>2

-----------------------------------------------------------------------------
(***************************************************************************)
(* Accesses.                                                               *)
(***************************************************************************)

\* The fields of a region of a well-formed list.
LEMMA RegionTypes ==
  ASSUME NEW regions, WellFormed(regions), NEW j \in DOMAIN regions
  PROVE  /\ regions[j] \in Region
         /\ regions[j].base \in Nat
         /\ regions[j].size \in Nat /\ regions[j].size > 0
         /\ regions[j].base + regions[j].size < WordModulus
         /\ regions[j].permissions \subseteq Permission
         /\ regions[j].data \in Seq(Byte)
         /\ Len(regions[j].data) = regions[j].size
<1>1. regions[j] \in Region
  BY DEF WellFormed
<1>2. /\ regions[j].base \in Word /\ regions[j].size \in Word
      /\ regions[j].permissions \subseteq Permission
      /\ regions[j].data \in Seq(Byte)
  BY <1>1 DEF Region
<1>3. regions[j].base \in Nat /\ regions[j].size \in Nat
  BY <1>2, WordTypes DEF Word
<1>4. QED
  BY <1>1, <1>2, <1>3 DEF WellFormed

\* The names of failed accesses are not "Ok".
LEMMA DeniedFails ==
  ASSUME NEW needed \in Permission
  PROVE  Denied(needed) \in {"ReadDenied", "WriteDenied", "ExecuteDenied"}
  BY DEF Denied, Permission

\* An access that checkAccess() lets through lies in one region that has the
\* permission asked for; one it refuses has one of the five errors.
LEMMA CheckedAccess ==
  ASSUME NEW regions, WellFormed(regions), NEW address \in Word,
         NEW size \in Nat, NEW needed \in Permission
  PROVE  LET check == checkAccess(regions, address, size, needed)
             i     == regionAt(regions, address)
         IN  /\ check \in AccessErrors \cup {"Ok"}
             /\ check = "Ok" => /\ i \in DOMAIN regions
                                /\ regions[i].base <= address
                                /\ address - regions[i].base + size <= regions[i].size
                                /\ needed \in regions[i].permissions
<1> DEFINE i == regionAt(regions, address)
<1>1. Len(regions) \in Nat /\ DOMAIN regions = 1 .. Len(regions)
  BY DEF WellFormed
<1>2. i # NoRegion => i \in DOMAIN regions /\ Contains(regions[i], address)
  BY <1>1, RegionAtFacts
<1>3. i \in DOMAIN regions => regions[i].base \in Int /\ regions[i].size \in Int
  BY RegionTypes
<1>4. address \in Int
  BY WordTypes DEF Word
<1> HIDE DEF i
<1>5. checkAccess(regions, address, size, needed) =
        IF i = NoRegion THEN "Unmapped"
        ELSE IF size > regions[i].size - (address - regions[i].base)
          THEN "CrossesRegionEnd"
        ELSE IF needed \notin regions[i].permissions THEN Denied(needed)
        ELSE "Ok"
  BY DEF checkAccess, i
<1>6. checkAccess(regions, address, size, needed) \in AccessErrors \cup {"Ok"}
  BY <1>5, DeniedFails DEF AccessErrors
<1>7. ASSUME checkAccess(regions, address, size, needed) = "Ok"
      PROVE  /\ i # NoRegion /\ needed \in regions[i].permissions
             /\ ~(size > regions[i].size - (address - regions[i].base))
  BY <1>5, <1>7, DeniedFails
<1>8. QED
  BY <1>2, <1>3, <1>4, <1>6, <1>7 DEF Contains, i

\* The bytes read by such an access are bytes.
LEMMA BytesAtType ==
  ASSUME NEW regions, WellFormed(regions), NEW address \in Word,
         NEW size \in Nat, NEW needed \in Permission,
         checkAccess(regions, address, size, needed) = "Ok"
  PROVE  BytesAt(regions, address, size) \in [1 .. size -> Byte]
<1> DEFINE i == regionAt(regions, address)
<1>1. /\ i \in DOMAIN regions /\ regions[i].base <= address
      /\ address - regions[i].base + size <= regions[i].size
  BY CheckedAccess
<1> HIDE DEF i
<1>2. /\ regions[i].data \in Seq(Byte) /\ Len(regions[i].data) = regions[i].size
      /\ regions[i].base \in Int /\ regions[i].size \in Int /\ address \in Int
  BY <1>1, RegionTypes, WordTypes DEF Word
<1>3. ASSUME NEW k \in 1 .. size
      PROVE  regions[i].data[address - regions[i].base + k] \in Byte
  BY <1>1, <1>2
<1>4. QED
  BY <1>3 DEF BytesAt, i

\* The word read by such an access is a word.
LEMMA WordAtType ==
  ASSUME NEW regions, WellFormed(regions), NEW address \in Word,
         NEW needed \in Permission,
         checkAccess(regions, address, WordSize, needed) = "Ok"
  PROVE  WordAt(regions, address) \in Word
  BY BytesAtType, WordTypes, MemoryAssumption DEF WordAt

\* How regions may change once they are mapped: the bytes of those that may be
\* written change, and nothing else does.
Evolves(old, new) ==
  /\ WellFormed(new)
  /\ Len(new) = Len(old)
  /\ \A i \in 1 .. Len(old) :
       /\ new[i].name = old[i].name
       /\ new[i].base = old[i].base
       /\ new[i].size = old[i].size
       /\ new[i].permissions = old[i].permissions
       /\ "Write" \notin old[i].permissions => new[i].data = old[i].data

\* A store that checkAccess() let through changes regions only in that way.
LEMMA StoredEvolves ==
  ASSUME NEW regions, WellFormed(regions), NEW address \in Word,
         NEW n \in Nat, NEW bytes \in [1 .. n -> Byte],
         checkAccess(regions, address, n, "Write") = "Ok"
  PROVE  Evolves(regions, Stored(regions, address, bytes))
<1> DEFINE i      == regionAt(regions, address)
           offset == address - regions[i].base
           Data   == [k \in 1 .. regions[i].size |->
                        IF k > offset /\ k - offset <= Len(bytes)
                          THEN bytes[k - offset] ELSE regions[i].data[k]]
           new    == Stored(regions, address, bytes)
<1>1. /\ i \in DOMAIN regions /\ regions[i].base <= address
      /\ offset + n <= regions[i].size
      /\ "Write" \in regions[i].permissions
  BY CheckedAccess DEF Permission
<1>2. new = [regions EXCEPT ![i].data = Data]
  BY DEF Stored
<1>3. Len(bytes) = n
  OBVIOUS
<1> HIDE DEF i, new
<1>4. /\ regions[i] \in Region /\ regions[i].size \in Nat /\ offset \in Int
      /\ regions[i].data \in Seq(Byte) /\ Len(regions[i].data) = regions[i].size
  BY <1>1, RegionTypes, WordTypes DEF Word
<1>5. Data \in [1 .. regions[i].size -> Byte]
  BY <1>3, <1>4
<1> HIDE DEF offset
<1>6. Data \in Seq(Byte) /\ Len(Data) = regions[i].size
  BY <1>4, <1>5
<1> HIDE DEF Data
<1>7. Len(regions) \in Nat /\ DOMAIN regions = 1 .. Len(regions)
  BY DEF WellFormed
<1>8. new[i] = [regions[i] EXCEPT !.data = Data]
  BY <1>1, <1>2
<1>9. \A j \in DOMAIN regions : j # i => new[j] = regions[j]
  BY <1>1, <1>2
<1>10. new[i] \in Region
  BY <1>4, <1>6, <1>8 DEF Region
<1>11. DOMAIN new = 1 .. Len(regions)
  BY <1>2, <1>7
<1>12. new \in Seq(Region) /\ Len(new) = Len(regions)
  <2>1. \A j \in 1 .. Len(regions) : new[j] \in Region
    BY <1>7, <1>9, <1>10 DEF WellFormed
  <2>2. new = [j \in 1 .. Len(regions) |-> new[j]]
    BY <1>2, <1>7
  <2>3. QED
    BY <1>7, <2>1, <2>2
<1>13. ASSUME NEW j \in 1 .. Len(regions)
       PROVE  /\ new[j].name = regions[j].name
              /\ new[j].base = regions[j].base
              /\ new[j].size = regions[j].size
              /\ new[j].permissions = regions[j].permissions
              /\ Len(new[j].data) = regions[j].size
              /\ "Write" \notin regions[j].permissions
                   => new[j].data = regions[j].data
  <2>1. CASE j = i
    BY <1>1, <1>4, <1>6, <1>8, <2>1 DEF Region
  <2>2. CASE j # i
    BY <1>7, <1>9, <2>2 DEF WellFormed
  <2>3. QED
    BY <2>1, <2>2
<1>14. WellFormed(new)
  BY <1>7, <1>11, <1>12, <1>13 DEF WellFormed
<1>15. QED
  BY <1>12, <1>13, <1>14 DEF Evolves, new

=============================================================================
