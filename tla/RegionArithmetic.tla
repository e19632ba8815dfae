-------------------------- MODULE RegionArithmetic --------------------------
(***************************************************************************)
(* What the proofs need to know about the masks and shifts of helpers.rs:  *)
(* positions grow without bound, the index counter wraps at a multiple of  *)
(* the buffer length, the buffer length is a multiple of the region size,  *)
(* and cell and region of a position survive each of these reductions.     *)
(***************************************************************************)
EXTENDS Integers, TLAPS

\* Division with remainder, as the source's shift and mask pair performs it.
LEMMA DivMod ==
  ASSUME NEW a \in Nat, NEW m \in Nat \ {0}
  PROVE  /\ a \div m \in Nat
         /\ a % m \in 0 .. (m - 1)
         /\ a = m * (a \div m) + (a % m)
  OBVIOUS

\* Multiples of the region size are a whole region apart.
LEMMA MultiplesApart ==
  ASSUME NEW x \in Int, NEW y \in Int, NEW m \in Nat \ {0}, x < y
  PROVE  m * x + m <= m * y
<1>1. PICK d \in Nat : y = x + 1 + d
  <2>1. y - x - 1 \in Nat
    OBVIOUS
  <2>. QED
    BY <2>1
<1>2. m * y = m * x + m + m * d
  BY <1>1
<1>3. m * d >= 0
  OBVIOUS
<1>. QED
  BY <1>2, <1>3

\* Quotient and remainder are unique: what identifies a region and an offset.
LEMMA DivModUnique ==
  ASSUME NEW m \in Nat \ {0}, NEW q \in Nat, NEW r \in 0 .. (m - 1),
         NEW a \in Nat, a = m * q + r
  PROVE  a \div m = q /\ a % m = r
<1>1. /\ a = m * (a \div m) + (a % m)
      /\ a % m \in 0 .. (m - 1)
      /\ a \div m \in Nat
  BY DivMod
<1>2. ~ (q < a \div m)
  <2>. SUFFICES ASSUME q < a \div m PROVE FALSE
    OBVIOUS
  <2>1. m * q + m <= m * (a \div m)
    BY <1>1, MultiplesApart
  <2>. QED
    BY <2>1, <1>1
<1>3. ~ (a \div m < q)
  <2>. SUFFICES ASSUME a \div m < q PROVE FALSE
    OBVIOUS
  <2>1. m * (a \div m) + m <= m * q
    BY <1>1, MultiplesApart
  <2>. QED
    BY <2>1, <1>1
<1>4. a \div m = q
  BY <1>1, <1>2, <1>3
<1>. QED
  BY <1>1, <1>4

\* A mask leaves what is below it alone.
LEMMA SmallMod ==
  ASSUME NEW m \in Nat \ {0}, NEW a \in 0 .. (m - 1)
  PROVE  a % m = a
<1>1. a = m * 0 + a
  OBVIOUS
<1>. QED
  BY <1>1, DivModUnique

\* Reducing by a multiple first changes nothing: slot_index of a wrapped index.
LEMMA ModOfMod ==
  ASSUME NEW n \in Nat \ {0}, NEW k \in Nat \ {0}, NEW p \in Nat
  PROVE  (p % (k * n)) % n = p % n
<1>1. k * n \in Nat \ {0}
  OBVIOUS
<1>2. PICK im \in Nat \ {0} : im = k * n
  BY <1>1
<1>3. PICK Q \in Nat, x \in Nat : Q = p \div im /\ x = p % im /\ p = im * Q + x
  BY DivMod
<1>4. PICK y \in Nat, z \in 0 .. (n - 1) : z = x % n /\ x = n * y + z
  BY DivMod
<1>5. im * Q = n * (k * Q)
  BY <1>2
<1>6. PICK u \in Nat : u = k * Q
  OBVIOUS
<1>7. p = n * u + n * y + z
  BY <1>3, <1>4, <1>5, <1>6
<1>8. p = n * (u + y) + z
  BY <1>7
<1>9. p % n = z
  BY <1>8, DivModUnique
<1>. QED
  BY <1>2, <1>3, <1>4, <1>9

\* The region of a cell is the global region, round the buffer; and a cell is
\* the first of its region exactly if the position is the first of a region.
LEMMA RegionOfCell ==
  ASSUME NEW rc \in Nat \ {0}, NEW rs \in Nat \ {0}, NEW p \in Nat
  PROVE  /\ (p % (rc * rs)) \div rs = (p \div rs) % rc
         /\ (p % (rc * rs)) % rs = p % rs
<1>1. PICK g \in Nat, o \in 0 .. (rs - 1) :
        g = p \div rs /\ o = p % rs /\ p = rs * g + o
  BY DivMod
<1>2. PICK q \in Nat, r \in 0 .. (rc - 1) :
        q = g \div rc /\ r = g % rc /\ g = rc * q + r
  BY DivMod
<1>3. rs * g = (rc * rs) * q + rs * r
  <2>1. PICK u \in Nat : u = rc * q
    OBVIOUS
  <2>2. rs * (u + r) = rs * u + rs * r
    OBVIOUS
  <2>3. rs * u = (rc * rs) * q
    BY <2>1
  <2>. QED
    BY <2>1, <2>2, <2>3, <1>2
<1>4. PICK n \in Nat \ {0} : n = rc * rs
  OBVIOUS
<1>5. PICK c \in Nat : c = rs * r + o
  OBVIOUS
<1>6. c < n
  <2>1. rs * r + rs <= rs * rc
    BY MultiplesApart
  <2>2. rs * rc = n
    BY <1>4
  <2>. QED
    BY <2>1, <2>2, <1>5
<1>7. p = n * q + c
  BY <1>1, <1>3, <1>4, <1>5
<1>8. p % n = c
  BY <1>6, <1>7, DivModUnique
<1>9. c \div rs = r /\ c % rs = o
  BY <1>5, DivModUnique
<1>. QED
  BY <1>1, <1>2, <1>4, <1>8, <1>9

\* Positions less than m apart, and not the same, differ modulo m.
LEMMA DistinctMod ==
  ASSUME NEW m \in Nat \ {0}, NEW a \in Nat, NEW b \in Nat,
         a < b, b - a < m
  PROVE  a % m # b % m
<1>. SUFFICES ASSUME a % m = b % m PROVE FALSE
  OBVIOUS
<1>1. PICK x \in Nat, r \in 0 .. (m - 1) : a = m * x + r /\ r = a % m
  BY DivMod
<1>2. PICK y \in Nat : b = m * y + r
  BY DivMod, <1>1
<1>3. CASE x < y
  <2>1. m * x + m <= m * y
    BY <1>3, MultiplesApart
  <2>. QED
    BY <2>1, <1>1, <1>2
<1>4. CASE y < x
  <2>1. m * y + m <= m * x
    BY <1>4, MultiplesApart
  <2>. QED
    BY <2>1, <1>1, <1>2
<1>5. CASE x = y
  BY <1>1, <1>2, <1>5
<1>. QED
  BY <1>3, <1>4, <1>5

\* Going once round the buffer comes back to the same region.
LEMMA ModPlusPeriod ==
  ASSUME NEW m \in Nat \ {0}, NEW a \in Nat
  PROVE  (a + m) % m = a % m
<1>1. PICK x \in Nat, r \in 0 .. (m - 1) : a = m * x + r /\ r = a % m
  BY DivMod
<1>2. a + m = m * (x + 1) + r
  BY <1>1
<1>3. PICK b \in Nat, y \in Nat : b = a + m /\ y = x + 1 /\ b = m * y + r
  BY <1>2
<1>4. b = m * y + r
  BY <1>3
<1>5. b % m = r
  BY <1>4, DivModUnique
<1>. QED
  BY <1>1, <1>3, <1>5

\* Position p lies below the start of region g exactly if its region does.
LEMMA DivBelow ==
  ASSUME NEW m \in Nat \ {0}, NEW p \in Nat, NEW g \in Nat
  PROVE  (p \div m < g) <=> (p < m * g)
<1>1. PICK x \in Nat, r \in 0 .. (m - 1) : p = m * x + r /\ x = p \div m
  BY DivMod
<1>2. ASSUME x < g PROVE p < m * g
  <2>1. m * x + m <= m * g
    BY <1>2, MultiplesApart
  <2>. QED
    BY <2>1, <1>1
<1>3. ASSUME ~ (x < g) PROVE ~ (p < m * g)
  <2>1. m * g <= m * x
    <3>1. CASE g = x
      BY <3>1
    <3>2. CASE g < x
      <4>1. m * g + m <= m * x
        BY <3>2, MultiplesApart
      <4>. QED
        BY <4>1
    <3>. QED
      BY <3>1, <3>2, <1>3
  <2>. QED
    BY <2>1, <1>1
<1>. QED
  BY <1>1, <1>2, <1>3

\* Counting on from a wrapped index is the same as wrapping the next one.
LEMMA ModSucc ==
  ASSUME NEW m \in Nat \ {0}, NEW p \in Nat
  PROVE  ((p % m) + 1) % m = (p + 1) % m
<1>1. PICK x \in Nat, r \in 0 .. (m - 1) : p = m * x + r /\ r = p % m
  BY DivMod
<1>2. PICK a \in Nat, b \in Nat : a = r + 1 /\ b = p + 1
  OBVIOUS
<1>3. PICK z \in Nat : z = m * x
  OBVIOUS
<1>4. b = z + a
  <2>1. p = z + r
    BY <1>1, <1>3
  <2>. QED
    BY <2>1, <1>2
<1>5. CASE a < m
  <2>1. a \in 0 .. (m - 1)
    BY <1>5
  <2>2. b = m * x + a
    BY <1>3, <1>4
  <2>3. b % m = a
    BY <2>1, <2>2, DivModUnique
  <2>4. a % m = a
    BY <2>1, SmallMod
  <2>. QED
    BY <2>3, <2>4, <1>1, <1>2
<1>6. CASE ~ (a < m)
  <2>1. PICK y \in Nat : y = x + 1
    OBVIOUS
  <2>2. 0 \in 0 .. (m - 1) /\ a = m /\ a = m * 1 + 0
    BY <1>2, <1>6
  <2>3. m * y = z + m
    BY <2>1, <1>3
  <2>4. b = m * y + 0
    BY <2>2, <2>3, <1>4
  <2>5. b % m = 0
    BY <2>2, <2>4, DivModUnique
  <2>6. a % m = 0
    BY <2>2, DivModUnique
  <2>. QED
    BY <2>5, <2>6, <1>1, <1>2
<1>. QED
  BY <1>5, <1>6

\* Going on by at most a whole turn passes the end of the buffer at most once.
LEMMA ModShift ==
  ASSUME NEW m \in Nat \ {0}, NEW p \in Nat, NEW i \in 0 .. m
  PROVE  (p + i) % m = IF (p % m) + i < m THEN (p % m) + i ELSE (p % m) + i - m
<1>1. PICK x \in Nat, r \in 0 .. (m - 1) : p = m * x + r /\ r = p % m
  BY DivMod
<1>2. PICK z \in Nat : z = m * x
  OBVIOUS
<1>3. m * (x + 1) = z + m
  BY <1>2
<1>4. p = z + r
  BY <1>1, <1>2
<1>5. PICK a \in Nat : a = p + i
  OBVIOUS
<1>6. CASE r + i < m
  <2>1. PICK s \in 0 .. (m - 1) : s = r + i
    BY <1>6
  <2>2. a = m * x + s
    BY <1>2, <1>4, <1>5, <2>1
  <2>3. a % m = s
    BY <2>2, DivModUnique
  <2>. QED
    BY <1>1, <1>5, <1>6, <2>1, <2>3
<1>7. CASE ~ (r + i < m)
  <2>1. PICK s \in 0 .. (m - 1), y \in Nat : s = r + i - m /\ y = x + 1
    BY <1>7
  <2>2. a = m * y + s
    BY <1>3, <1>4, <1>5, <2>1
  <2>3. a % m = s
    BY <2>2, DivModUnique
  <2>. QED
    BY <1>1, <1>5, <1>7, <2>1, <2>3
<1>. QED
  BY <1>6, <1>7

=============================================================================
