--------------------------- MODULE RegistryProofs ---------------------------
(***************************************************************************)
(* registry.c and its hash tables for any plugins, any limits and any hash *)
(* of an address: a search ends because an odd step visits every slot and  *)
(* one is always free, a key stays where its search will look for it, and  *)
(* the parts of a node lie one behind the other.                           *)
(***************************************************************************)
EXTENDS Registry, SequenceTheorems, FiniteSetTheorems, WellFoundedInduction, TLAPS

-----------------------------------------------------------------------------
LEMMA LeastOf ==
    ASSUME NEW indices, indices \subseteq Nat, indices # {}
    PROVE  \E i \in indices : \A j \in indices : i <= j
<1>1. PICK i \in indices : \A j \in indices : <<j, i>> \notin OpToRel(<, Nat)
  BY NatLessThanWellFounded, WFMin
<1>2. ASSUME NEW j \in indices
      PROVE  i <= j
  <2>1. <<j, i>> \in Nat \X Nat /\ <<j, i>>[1] = j /\ <<j, i>>[2] = i
    OBVIOUS
  <2>2. ~(j < i)
    BY <1>1, <2>1 DEF OpToRel
  <2> QED
    BY <2>2
<1> QED
  BY <1>2

(* A property of numbers that holds of 0 and is handed on holds up to n.   *)
(* It is given as the set of the numbers that have it.                     *)
HandsOn(having, n) ==
    0 \in having /\ \A m \in 0 .. n : m # n /\ m \in having => m + 1 \in having

LEMMA HandedOn ==
    ASSUME NEW n \in Nat, NEW having, HandsOn(having, n)
    PROVE  \A m \in 0 .. n : m \in having
<1> SUFFICES ASSUME NEW bad \in 0 .. n, bad \notin having PROVE FALSE
  OBVIOUS
<1>1. PICK fails : fails = {m \in 0 .. n : m \notin having}
  OBVIOUS
<1>2. fails \subseteq Nat /\ fails # {}
  BY <1>1
<1>3. PICK m \in fails : \A k \in fails : m <= k
  BY <1>2, LeastOf
<1>4. m \in 0 .. n /\ m \notin having /\ m # 0
  BY <1>1, <1>3 DEF HandsOn
<1>5. PICK before : before = m - 1
  OBVIOUS
<1>6. before \in 0 .. n /\ before # n /\ m = before + 1 /\ ~(m <= before)
  BY <1>4, <1>5
<1>7. before \in having
  BY <1>1, <1>3, <1>6
<1> QED
  BY <1>4, <1>6, <1>7 DEF HandsOn

-----------------------------------------------------------------------------
(* The powers of two, which HashSize defines by recursion.                 *)
IsSizes(sizes, n) ==
    sizes = [exp \in 0 .. n |-> IF exp = 0 THEN 1 ELSE 2 * sizes[exp - 1]]

LEMMA SizesExist == \E sizes : IsSizes(sizes, HashBits)
<1>1. PICK having : having = {n \in Nat : \E sizes : IsSizes(sizes, n)}
  OBVIOUS
<1>2. 0 \in having
  <2>1. PICK sizes : sizes = [exp \in 0 .. 0 |-> 1]
    OBVIOUS
  <2>2. sizes = [exp \in 0 .. 0 |-> IF exp = 0 THEN 1 ELSE 2 * sizes[exp - 1]]
    BY <2>1
  <2> QED
    BY <1>1, <2>2 DEF IsSizes
<1>3. ASSUME NEW n \in 0 .. HashBits, n # HashBits, n \in having
      PROVE  n + 1 \in having
  <2>1. PICK sizes : IsSizes(sizes, n)
    BY <1>1, <1>3
  <2>2. PICK more : more = [exp \in 0 .. n + 1 |-> IF exp = 0 THEN 1 ELSE 2 * sizes[exp - 1]]
    OBVIOUS
  <2>3. \A exp \in 0 .. n : sizes[exp] = IF exp = 0 THEN 1 ELSE 2 * sizes[exp - 1]
    BY <2>1, Zenon DEF IsSizes
  <2>4. n \in Nat /\ \A exp \in 0 .. n : more[exp] = sizes[exp]
    BY <2>2, <2>3, RegistryAssumption
  <2>5. \A exp \in 0 .. n + 1 : exp # 0 => exp - 1 \in 0 .. n
    BY <2>4
  <2>6. \A exp \in 0 .. n + 1 : exp # 0 => sizes[exp - 1] = more[exp - 1]
    BY <2>4, <2>5
  <2>7. more = [exp \in 0 .. n + 1 |-> IF exp = 0 THEN 1 ELSE 2 * more[exp - 1]]
    BY <2>2, <2>6
  <2>8. n + 1 \in Nat
    BY <2>4
  <2> QED
    BY <1>1, <2>7, <2>8 DEF IsSizes
<1>4. HashBits \in having
  <2>1. HandsOn(having, HashBits) /\ HashBits \in Nat
    BY <1>2, <1>3, RegistryAssumption DEF HandsOn
  <2> QED
    BY <2>1, HandedOn
<1> QED
  BY <1>1, <1>4

LEMMA HashSizes ==
    /\ HashSize[0] = 1
    /\ \A exp \in 0 .. HashBits : HashSize[exp] \in Nat \ {0}
    /\ \A exp \in 1 .. HashBits : HashSize[exp] = 2 * HashSize[exp - 1]
<1>1. IsSizes(HashSize, HashBits)
  <2>1. HashSize = CHOOSE sizes : IsSizes(sizes, HashBits)
    BY Zenon DEF HashSize, IsSizes
  <2> QED
    BY <2>1, SizesExist
<1>2. \A exp \in 0 .. HashBits :
          HashSize[exp] = IF exp = 0 THEN 1 ELSE 2 * HashSize[exp - 1]
  BY <1>1, Zenon DEF IsSizes
<1>3. HashBits \in Nat
  BY RegistryAssumption
<1>4. HashSize[0] = 1 /\ \A exp \in 1 .. HashBits : HashSize[exp] = 2 * HashSize[exp - 1]
  BY <1>2, <1>3
<1>5. PICK having : having = {n \in Nat : HashSize[n] \in Nat \ {0}}
  OBVIOUS
<1>6. ASSUME NEW n \in 0 .. HashBits, n # HashBits, n \in having
      PROVE  n + 1 \in having
  <2>1. PICK next : next = n + 1
    OBVIOUS
  <2>2. next \in 1 .. HashBits /\ next \in Nat /\ next - 1 = n
    BY <1>3, <1>6, <2>1
  <2>3. HashSize[next] = 2 * HashSize[n]
    BY <1>4, <2>2
  <2> QED
    BY <1>5, <1>6, <2>1, <2>2, <2>3
<1>7. \A n \in 0 .. HashBits : n \in having
  <2>1. HandsOn(having, HashBits)
    BY <1>3, <1>4, <1>5, <1>6 DEF HandsOn
  <2> QED
    BY <1>3, <2>1, HandedOn
<1> QED
  BY <1>4, <1>5, <1>7

(* hash_exp gives a table more slots than it is asked for.                 *)
LEMMA ExpsAreLargeEnough ==
    ASSUME NEW n \in Nat, n < HashSize[HashBits]
    PROVE  /\ \A exp \in Exps(n) : exp \in 0 .. HashBits /\ n < HashSize[exp]
           /\ HashExp(n) \in Exps(n)
<1>1. HashBits \in Nat
  BY RegistryAssumption
<1>2. CASE n = 0
  <2>1. Exps(n) = 0 .. HashBits
    BY <1>2 DEF Exps
  <2>2. \A exp \in 0 .. HashBits : n < HashSize[exp]
    BY <1>2, HashSizes
  <2>3. 0 \in Exps(n)
    BY <1>1, <2>1
  <2> QED
    BY <2>1, <2>2, <2>3 DEF HashExp
<1>3. CASE n # 0
  <2>1. Exps(n) = {exp \in 1 .. HashBits : HashSize[exp - 1] <= n /\ n < HashSize[exp]}
    BY <1>3 DEF Exps
  <2>2. PICK above : above = {exp \in 0 .. HashBits : n < HashSize[exp]}
    OBVIOUS
  <2>3. above \subseteq Nat /\ HashBits \in above
    BY <1>1, <2>2
  <2>4. PICK exp \in above : \A other \in above : exp <= other
    BY <2>3, LeastOf
  <2>5. exp # 0
    BY <1>3, <2>2, HashSizes
  <2>6. exp \in 1 .. HashBits /\ n < HashSize[exp] /\ exp - 1 \in 0 .. HashBits /\ ~(exp <= exp - 1)
    BY <1>1, <2>2, <2>5
  <2>7. ~(n < HashSize[exp - 1])
    BY <2>2, <2>4, <2>6
  <2>8. HashSize[exp - 1] <= n
    BY <2>6, <2>7, HashSizes
  <2>9. exp \in Exps(n)
    BY <2>1, <2>6, <2>8
  <2>10. HashExp(n) \in Exps(n)
    BY <2>9 DEF HashExp
  <2>11. \A e \in Exps(n) : e \in 0 .. HashBits /\ n < HashSize[e]
    BY <1>1, <2>1
  <2> QED
    BY <2>10, <2>11
<1> QED
  BY <1>2, <1>3

-----------------------------------------------------------------------------
(* An odd step visits every slot: where two probes meet, the size divides  *)
(* their distance times the step, and then their distance.                 *)
LEMMA EqualRests ==
    ASSUME NEW a \in Int, NEW b \in Int, NEW n \in Nat \ {0}, a % n = b % n
    PROVE  \E q \in Int : a - b = n * q
<1>1. PICK u, v : u = a \div n /\ v = b \div n
  OBVIOUS
<1>2. u \in Int /\ v \in Int /\ a = (n * u) + (a % n) /\ b = (n * v) + (b % n)
  BY <1>1
<1>3. PICK r : r = a % n
  OBVIOUS
<1>4. r \in Int /\ a = n * u + r /\ b = n * v + r
  BY <1>2, <1>3
<1>5. a - b = n * (u - v) /\ u - v \in Int
  BY <1>2, <1>4
<1> QED
  BY <1>5

LEMMA Rest ==
    ASSUME NEW a \in Int, NEW n \in Nat \ {0}
    PROVE  a % n \in 0 .. n - 1
OBVIOUS

Divides(n, d) == \E r \in Int : d = n * r

OddCancels(n) == \A d, s, q \in Int : s % 2 = 1 /\ d * s = n * q => Divides(n, d)

LEMMA OddCancelsTwice ==
    ASSUME NEW n \in Nat \ {0}, OddCancels(n)
    PROVE  OddCancels(2 * n)
<1> SUFFICES ASSUME NEW d \in Int, NEW s \in Int, NEW q \in Int, s % 2 = 1, d * s = (2 * n) * q
             PROVE  Divides(2 * n, d)
  BY DEF OddCancels
<1>1. PICK t \in Int : s = 2 * t + 1
  <2>1. s \div 2 \in Int /\ s = 2 * (s \div 2) + 1
    OBVIOUS
  <2> QED
    BY <2>1
<1>2. PICK c, x, y : x = n * q /\ y = d * t /\ c = x - y
  OBVIOUS
<1>3. x \in Int /\ y \in Int /\ c \in Int
  BY <1>1, <1>2
<1>4. d * s = 2 * y + d
  BY <1>1, <1>2, <1>3
<1>5. (2 * n) * q = 2 * x
  BY <1>2, <1>3
<1>6. d = 2 * c
  BY <1>2, <1>3, <1>4, <1>5
<1>7. PICK z : z = c * s
  OBVIOUS
<1>8. z \in Int /\ d * s = 2 * z
  BY <1>3, <1>6, <1>7
<1>9. c * s = n * q
  BY <1>2, <1>3, <1>5, <1>7, <1>8
<1>10. PICK r \in Int : c = n * r
  BY <1>3, <1>9, ZenonT(60) DEF OddCancels, Divides
<1>11. d = (2 * n) * r
  BY <1>6, <1>10
<1> QED
  BY <1>11 DEF Divides

LEMMA SizesCancel == \A exp \in 0 .. HashBits : OddCancels(HashSize[exp])
<1>1. PICK having : having = {exp \in Nat : OddCancels(HashSize[exp])}
  OBVIOUS
<1>2. 0 \in having
  <2>1. OddCancels(1)
    BY DEF OddCancels, Divides
  <2> QED
    BY <1>1, <2>1, HashSizes
<1>3. ASSUME NEW n \in 0 .. HashBits, n # HashBits, n \in having
      PROVE  n + 1 \in having
  <2>1. PICK next : next = n + 1
    OBVIOUS
  <2>2. next \in 1 .. HashBits /\ next \in Nat /\ next - 1 = n
    BY <1>3, <2>1, RegistryAssumption
  <2>3. HashSize[next] = 2 * HashSize[n] /\ HashSize[n] \in Nat \ {0}
    BY <2>2, HashSizes
  <2>4. OddCancels(HashSize[n])
    BY <1>1, <1>3
  <2>5. OddCancels(HashSize[next])
    BY <2>3, <2>4, OddCancelsTwice
  <2> QED
    BY <1>1, <2>1, <2>2, <2>5
<1>4. HandsOn(having, HashBits) /\ HashBits \in Nat
  BY <1>2, <1>3, RegistryAssumption DEF HandsOn
<1>5. \A exp \in 0 .. HashBits : exp \in having
  BY <1>4, HandedOn
<1> QED
  BY <1>1, <1>5

HashType == [low : Nat, high : Nat]

LEMMA StepIsOdd ==
    ASSUME NEW h \in HashType, NEW exp \in 0 .. HashBits
    PROVE  Step(h, exp) \in Nat /\ Step(h, exp) % 2 = 1
<1>1. PICK size : size = HashSize[HashBits - exp]
  OBVIOUS
<1>2. size \in Nat \ {0}
  <2>1. HashBits - exp \in 0 .. HashBits
    BY RegistryAssumption
  <2> QED
    BY <1>1, <2>1, HashSizes
<1>3. PICK bits : bits = h.high \div size
  OBVIOUS
<1>4. bits \in Nat
  <2>1. h.high \in Nat
    BY DEF HashType
  <2> QED
    BY <1>2, <1>3, <2>1
<1>5. Step(h, exp) = IF bits % 2 = 1 THEN bits ELSE bits + 1
  BY <1>1, <1>3 DEF Step
<1> QED
  BY <1>4, <1>5

LEMMA ProbeInRange ==
    ASSUME NEW h \in HashType, NEW exp \in 0 .. HashBits, NEW k \in Nat
    PROVE  Probe(h, exp, k) \in 0 .. HashSize[exp] - 1
<1>1. PICK s, n : s = Step(h, exp) /\ n = HashSize[exp]
  OBVIOUS
<1>2. s \in Nat /\ n \in Nat \ {0} /\ h.low \in Nat
  BY <1>1, StepIsOdd, HashSizes DEF HashType
<1>3. k * s \in Nat
  BY <1>2
<1>4. h.low + k * s \in Int
  BY <1>2, <1>3
<1> QED
  BY <1>1, <1>2, <1>4, Rest DEF Probe

LEMMA ProbesDiffer ==
    ASSUME NEW h \in HashType, NEW exp \in 0 .. HashBits,
           NEW j \in 1 .. HashSize[exp], NEW k \in 1 .. HashSize[exp],
           Probe(h, exp, j) = Probe(h, exp, k)
    PROVE  j = k
<1>1. PICK s, n, d : s = Step(h, exp) /\ n = HashSize[exp] /\ d = j - k
  OBVIOUS
<1>2. s \in Nat /\ s % 2 = 1 /\ n \in Nat \ {0} /\ h.low \in Nat /\ d \in Int
  BY <1>1, StepIsOdd, HashSizes DEF HashType
<1>3. PICK a, b : a = h.low + j * s /\ b = h.low + k * s
  OBVIOUS
<1>4. a \in Int /\ b \in Int /\ a % n = b % n
  BY <1>1, <1>2, <1>3 DEF Probe
<1>5. PICK q \in Int : a - b = n * q
  BY <1>2, <1>4, EqualRests
<1>6. a - b = d * s
  BY <1>1, <1>2, <1>3
<1>7. Divides(n, d)
  <2>1. OddCancels(n)
    BY <1>1, SizesCancel
  <2>2. d * s = n * q /\ s \in Int
    BY <1>2, <1>5, <1>6
  <2> QED
    BY <1>2, <2>1, <2>2 DEF OddCancels
<1>8. PICK r \in Int : d = n * r
  BY <1>7 DEF Divides
<1>9. d < n /\ -n < d
  BY <1>1, <1>2
<1>10. r = 0
  <2>1. PICK m : m = n * r
    OBVIOUS
  <2>2. r > 0 => m >= n
    BY <1>2, <2>1
  <2>3. r < 0 => m <= -n
    BY <1>2, <2>1
  <2>4. m = d
    BY <1>8, <2>1
  <2> QED
    BY <1>2, <1>9, <2>2, <2>3, <2>4
<1>11. d = 0
  BY <1>2, <1>8, <1>10
<1> QED
  BY <1>1, <1>11

Slots(exp) == 0 .. HashSize[exp] - 1

LEMMA EverySlotIsProbed ==
    ASSUME NEW h \in HashType, NEW exp \in 0 .. HashBits, NEW slot \in Slots(exp)
    PROVE  \E k \in 1 .. HashSize[exp] : Probe(h, exp, k) = slot
<1>1. PICK n : n = HashSize[exp]
  OBVIOUS
<1>2. n \in Nat \ {0}
  BY <1>1, HashSizes
<1>3. PICK probes : probes = [k \in 1 .. n |-> Probe(h, exp, k)]
  OBVIOUS
<1>4. \A k \in 1 .. n : Probe(h, exp, k) \in 0 .. n - 1
  BY <1>1, <1>2, ProbeInRange
<1>5. probes \in [1 .. n -> 0 .. n - 1]
  BY <1>3, <1>4
<1>6. \A j, k \in 1 .. n : probes[j] = probes[k] => j = k
  BY <1>1, <1>3, ProbesDiffer
<1>7. probes \in Injection(1 .. n, 0 .. n - 1)
  BY <1>5, <1>6 DEF Injection, IsInjective
<1>8. /\ IsFiniteSet(1 .. n) /\ Cardinality(1 .. n) = n
      /\ IsFiniteSet(0 .. n - 1) /\ Cardinality(0 .. n - 1) = n
  BY <1>2, FS_Interval
<1>9. probes \in Surjection(1 .. n, 0 .. n - 1)
  BY <1>7, <1>8, FS_Injection
<1>10. PICK k \in 1 .. n : probes[k] = slot
  BY <1>1, <1>9 DEF Surjection, Slots
<1> QED
  BY <1>1, <1>3, <1>10

-----------------------------------------------------------------------------
(* A table of keys: which slots are used, and that each key lies where the *)
(* search for it ends.                                                     *)
KeyArrays(exp) == [Slots(exp) -> Addresses \union {NULL}]
Used(keys) == {s \in DOMAIN keys : keys[s] # NULL}
Placed(keys, exp) == \A s \in Used(keys) : SlotOf(keys, exp, keys[s]) = s

HashOK == hash \in [Addresses -> HashType]

LEMMA FreeSlot ==
    ASSUME NEW exp \in 0 .. HashBits, NEW keys \in KeyArrays(exp)
    PROVE  /\ IsFiniteSet(Used(keys)) /\ Cardinality(Used(keys)) \in Nat
           /\ Cardinality(Used(keys)) < HashSize[exp] => \E slot \in Slots(exp) : keys[slot] = NULL
<1>1. HashSize[exp] \in Nat \ {0}
  BY HashSizes
<1>2. IsFiniteSet(Slots(exp)) /\ Cardinality(Slots(exp)) = HashSize[exp]
  <2>1. PICK n : n = HashSize[exp]
    OBVIOUS
  <2>2. n \in Nat \ {0} /\ Slots(exp) = 0 .. n - 1
    BY <1>1, <2>1 DEF Slots
  <2>3. IsFiniteSet(0 .. n - 1) /\ Cardinality(0 .. n - 1) = n
    BY <2>2, FS_Interval
  <2> QED
    BY <2>1, <2>2, <2>3
<1>3. DOMAIN keys = Slots(exp)
  BY DEF KeyArrays
<1>4. Used(keys) \subseteq Slots(exp)
  BY <1>3 DEF Used
<1>5. IsFiniteSet(Used(keys)) /\ Cardinality(Used(keys)) \in Nat
  BY <1>2, <1>4, FS_Subset, FS_CardinalityType
<1>6. ASSUME Cardinality(Used(keys)) < HashSize[exp]
      PROVE  \E slot \in Slots(exp) : keys[slot] = NULL
  <2>1. Used(keys) # Slots(exp)
    BY <1>1, <1>2, <1>6
  <2> QED
    BY <1>3, <1>4, <2>1 DEF Used
<1> QED
  BY <1>5, <1>6

LEMMA HashOfKey ==
    ASSUME HashOK, NEW key \in Addresses
    PROVE  hash[key] \in HashType
BY DEF HashOK

LEMMA SearchEnds ==
    ASSUME HashOK, NEW exp \in 0 .. HashBits, NEW keys \in KeyArrays(exp), NEW key \in Addresses,
           Cardinality(Used(keys)) < HashSize[exp]
    PROVE  Hits(keys, exp, key) # {}
<1>1. PICK slot \in Slots(exp) : keys[slot] = NULL
  BY FreeSlot
<1>2. PICK k \in 1 .. HashSize[exp] : Probe(hash[key], exp, k) = slot
  BY HashOfKey, EverySlotIsProbed
<1> QED
  BY <1>1, <1>2 DEF Hits

(* The k-th probe is the first that will do.                               *)
IsFirst(k, keys, exp, key) ==
    k \in Hits(keys, exp, key) /\ \A j \in Hits(keys, exp, key) : k <= j

LEMMA FirstHit ==
    ASSUME HashOK, NEW exp \in 0 .. HashBits, NEW keys \in KeyArrays(exp), NEW key \in Addresses,
           Hits(keys, exp, key) # {}
    PROVE  \E k \in 1 .. HashSize[exp] :
              IsFirst(k, keys, exp, key) /\ SlotOf(keys, exp, key) = Probe(hash[key], exp, k)
<1>1. PICK hits : hits = Hits(keys, exp, key)
  OBVIOUS
<1>2. hits \subseteq 1 .. HashSize[exp] /\ hits # {}
  BY <1>1 DEF Hits
<1>3. hits \subseteq Nat
  BY <1>2
<1>4. PICK k : k = CHOOSE i \in hits : \A j \in hits : i <= j
  OBVIOUS
<1>5. k \in hits /\ \A j \in hits : k <= j
  <2>1. \E i \in hits : \A j \in hits : i <= j
    BY <1>2, <1>3, LeastOf
  <2> QED
    BY <1>4, <2>1
<1>6. SlotOf(keys, exp, key) = Probe(hash[key], exp, k)
  BY <1>1, <1>2, <1>4 DEF SlotOf
<1> QED
  BY <1>1, <1>2, <1>5, <1>6 DEF IsFirst

LEMMA FirstIsSlot ==
    ASSUME NEW exp \in 0 .. HashBits, NEW keys, NEW key, NEW k, IsFirst(k, keys, exp, key)
    PROVE  SlotOf(keys, exp, key) = Probe(hash[key], exp, k)
<1>1. PICK hits : hits = Hits(keys, exp, key)
  OBVIOUS
<1>2. hits \subseteq 1 .. HashSize[exp] /\ hits # {} /\ HashSize[exp] \in Nat
  BY <1>1, HashSizes DEF Hits, IsFirst
<1>3. PICK first : first = CHOOSE i \in hits : \A j \in hits : i <= j
  OBVIOUS
<1>4. k \in hits /\ \A j \in hits : k <= j
  BY <1>1 DEF IsFirst
<1>5. first \in hits /\ \A j \in hits : first <= j
  BY <1>3, <1>4
<1>6. first = k
  BY <1>2, <1>4, <1>5
<1> QED
  BY <1>1, <1>2, <1>3, <1>6 DEF SlotOf

LEMMA SlotHolds ==
    ASSUME HashOK, NEW exp \in 0 .. HashBits, NEW keys \in KeyArrays(exp), NEW key \in Addresses
    PROVE  IF Hits(keys, exp, key) = {} THEN SlotOf(keys, exp, key) = Invalid
           ELSE /\ SlotOf(keys, exp, key) \in Slots(exp) /\ SlotOf(keys, exp, key) # Invalid
                /\ keys[SlotOf(keys, exp, key)] \in {NULL, key}
<1>1. CASE Hits(keys, exp, key) = {}
  BY <1>1 DEF SlotOf
<1>2. CASE Hits(keys, exp, key) # {}
  <2>1. PICK k \in 1 .. HashSize[exp] :
            IsFirst(k, keys, exp, key) /\ SlotOf(keys, exp, key) = Probe(hash[key], exp, k)
    BY <1>2, FirstHit
  <2>2. k \in Nat /\ hash[key] \in HashType
    BY HashOfKey, HashSizes
  <2>3. Probe(hash[key], exp, k) \in Slots(exp)
    BY <2>2, ProbeInRange DEF Slots
  <2>4. \A slot \in Slots(exp) : slot # Invalid
    BY HashSizes DEF Slots, Invalid
  <2>5. keys[Probe(hash[key], exp, k)] \in {NULL, key}
    BY <2>1 DEF IsFirst, Hits
  <2> QED
    BY <1>2, <2>1, <2>3, <2>4, <2>5
<1> QED
  BY <1>1, <1>2

(* A key that is put where its search ends stays there, and leaves the     *)
(* others where theirs end: they passed by its slot, or never came to it.  *)
LEMMA PutKeepsPlaces ==
    ASSUME HashOK, NEW exp \in 0 .. HashBits, NEW keys \in KeyArrays(exp), NEW key \in Addresses,
           Placed(keys, exp), Hits(keys, exp, key) # {},
           NEW slot, slot = SlotOf(keys, exp, key),
           NEW more, more = [keys EXCEPT ![slot] = key]
    PROVE  more \in KeyArrays(exp) /\ Placed(more, exp) /\ Used(more) = Used(keys) \union {slot}
<1>1. slot \in Slots(exp) /\ keys[slot] \in {NULL, key} /\ key # NULL
  BY SlotHolds, RegistryAssumption
<1>2. DOMAIN keys = Slots(exp) /\ DOMAIN more = Slots(exp)
  BY DEF KeyArrays
<1>3. more \in KeyArrays(exp)
  BY <1>1 DEF KeyArrays
<1>4. more[slot] = key /\ \A s \in Slots(exp) : s # slot => more[s] = keys[s]
  BY <1>1, <1>2
<1>5. Used(more) = Used(keys) \union {slot}
  BY <1>1, <1>2, <1>4 DEF Used
<1>6. \A k \in 1 .. HashSize[exp], other \in Addresses : Probe(hash[other], exp, k) \in Slots(exp)
  BY HashOfKey, ProbeInRange, HashSizes DEF Slots
<1>7. PICK k \in 1 .. HashSize[exp] : IsFirst(k, keys, exp, key) /\ slot = Probe(hash[key], exp, k)
  BY FirstHit
<1>8. Hits(more, exp, key) = Hits(keys, exp, key)
  <2>1. ASSUME NEW j \in 1 .. HashSize[exp]
        PROVE  more[Probe(hash[key], exp, j)] \in {NULL, key} <=> keys[Probe(hash[key], exp, j)] \in {NULL, key}
    BY <1>1, <1>4, <1>6
  <2> QED
    BY <2>1 DEF Hits
<1>9. SlotOf(more, exp, key) = slot
  BY <1>7, <1>8, FirstIsSlot DEF IsFirst
<1>10. ASSUME NEW s \in Used(keys), s # slot
       PROVE  SlotOf(more, exp, more[s]) = s
  <2>1. PICK other : other = keys[s]
    OBVIOUS
  <2>2. s \in Slots(exp) /\ other \in Addresses /\ other # NULL /\ more[s] = other
    BY <1>2, <1>4, <1>10, <2>1 DEF Used, KeyArrays
  <2>3. SlotOf(keys, exp, other) = s /\ other # key
    BY <1>10, <2>1 DEF Placed
  <2>4. Hits(keys, exp, other) # {}
    <3>1. SlotOf(keys, exp, other) # Invalid
      BY <2>2, <2>3, HashSizes DEF Slots, Invalid
    <3> QED
      BY <3>1 DEF SlotOf
  <2>5. PICK j \in 1 .. HashSize[exp] :
            IsFirst(j, keys, exp, other) /\ SlotOf(keys, exp, other) = Probe(hash[other], exp, j)
    BY <2>2, <2>4, FirstHit
  <2>6. j \in Hits(more, exp, other)
    BY <2>2, <2>3, <2>5 DEF Hits
  <2>7. \A i \in 1 .. HashSize[exp] : more[Probe(hash[other], exp, i)] \in {NULL, other} =>
                                          keys[Probe(hash[other], exp, i)] \in {NULL, other}
    BY <1>1, <1>4, <1>6, <2>2, <2>3
  <2>8. Hits(more, exp, other) \subseteq Hits(keys, exp, other)
    BY <2>7 DEF Hits
  <2>9. IsFirst(j, more, exp, other)
    BY <2>5, <2>6, <2>8 DEF IsFirst
  <2> QED
    BY <2>2, <2>3, <2>5, <2>9, FirstIsSlot
<1>11. Placed(more, exp)
  BY <1>4, <1>5, <1>9, <1>10 DEF Placed
<1> QED
  BY <1>3, <1>5, <1>11

LEMMA PlacedOnce ==
    ASSUME NEW keys, NEW exp, Placed(keys, exp),
           NEW s \in Used(keys), NEW t \in Used(keys), keys[s] = keys[t]
    PROVE  s = t
BY DEF Placed

-----------------------------------------------------------------------------
(* The folds of Registry take one step per element, from the first to the  *)
(* last.  A fold is the function of the sets of indices that the folds of  *)
(* the library choose; `kind' says which operator it repeats.              *)
FoldStep(kind, acc, x) ==
    IF kind = 1 THEN AddDataType(acc, x)
    ELSE IF kind = 2 THEN WithUsed(acc, x)
    ELSE IF kind = 3 THEN Reserve(acc, x)
    ELSE Put(acc, x[1], x[2])

IsFold(kind, folded, base, seq, n) ==
    folded = [t \in SUBSET (1 .. n) |->
                 IF t = {} THEN base ELSE FoldStep(kind, folded[t \ {Max(t)}], seq[Max(t)])]

LEMMA MaxOfIndices ==
    ASSUME NEW n \in Nat, NEW t \in SUBSET (1 .. n), t # {}
    PROVE  Max(t) \in t /\ \A i \in t : i <= Max(t)
<1>1. PICK rests : rests = {m \in Nat : \A i \in t : i <= m}
  OBVIOUS
<1>2. rests \subseteq Nat /\ n \in rests
  BY <1>1
<1>3. PICK m \in rests : \A other \in rests : m <= other
  BY <1>2, LeastOf
<1>4. m \in Nat /\ \A i \in t : i <= m
  BY <1>1, <1>3
<1>5. m \in t
  <2> SUFFICES ASSUME m \notin t PROVE FALSE
    OBVIOUS
  <2>1. \A i \in t : i <= m - 1 /\ i >= 1
    BY <1>4
  <2>2. m - 1 \in Nat
    <3>1. PICK i \in t : TRUE
      OBVIOUS
    <3>2. i \in Nat /\ i <= m - 1 /\ i >= 1
      BY <2>1
    <3> QED
      BY <1>4, <3>2
  <2>3. m - 1 \in rests
    BY <1>1, <2>1, <2>2
  <2> QED
    BY <1>3, <1>4, <2>3
<1>6. \E x \in t : \A y \in t : x >= y
  <2>1. ASSUME NEW y \in t
        PROVE  m >= y
    <3>1. y \in Nat /\ y <= m
      BY <1>4
    <3> QED
      BY <1>4, <3>1
  <2> QED
    BY <1>5, <2>1
<1>7. Max(t) \in t /\ \A y \in t : Max(t) >= y
  BY <1>6 DEF Max
<1>8. \A y \in t : y \in Int
  OBVIOUS
<1> QED
  BY <1>7, <1>8

LEMMA MaxOfInterval ==
    ASSUME NEW n \in Nat \ {0}
    PROVE  Max(1 .. n) = n /\ (1 .. n) \ {n} = 1 .. n - 1
<1>1. PICK m : m = Max(1 .. n)
  OBVIOUS
<1>2. 1 .. n \in SUBSET (1 .. n) /\ 1 .. n # {} /\ n \in 1 .. n
  OBVIOUS
<1>3. m \in 1 .. n /\ n <= m
  BY <1>1, <1>2, MaxOfIndices
<1>4. m = n
  BY <1>3
<1> QED
  BY <1>1, <1>4

LEMMA FoldsExist ==
    ASSUME NEW kind, NEW base, NEW seq, NEW n \in Nat
    PROVE  \E folded : IsFold(kind, folded, base, seq, n)
<1>1. PICK having : having = {m \in Nat : \E folded : IsFold(kind, folded, base, seq, m)}
  OBVIOUS
<1>2. 0 \in having
  <2>1. PICK folded : folded = [t \in SUBSET (1 .. 0) |-> base]
    OBVIOUS
  <2>2. \A t \in SUBSET (1 .. 0) : t = {}
    OBVIOUS
  <2>3. folded = [t \in SUBSET (1 .. 0) |->
                     IF t = {} THEN base ELSE FoldStep(kind, folded[t \ {Max(t)}], seq[Max(t)])]
    BY <2>1, <2>2
  <2> QED
    BY <1>1, <2>3 DEF IsFold
<1>3. ASSUME NEW m \in 0 .. n, m # n, m \in having
      PROVE  m + 1 \in having
  <2>1. PICK folded : IsFold(kind, folded, base, seq, m)
    BY <1>1, <1>3
  <2>2. PICK next : next = m + 1
    OBVIOUS
  <2>3. m \in Nat /\ next \in Nat /\ m <= next
    BY <2>2
  <2>4. PICK more : more = [t \in SUBSET (1 .. next) |->
            IF t = {} THEN base ELSE FoldStep(kind, folded[t \ {Max(t)}], seq[Max(t)])]
    OBVIOUS
  <2>5. SUBSET (1 .. m) \subseteq SUBSET (1 .. next)
    BY <2>3
  <2>6. \A t \in SUBSET (1 .. m) :
            folded[t] = IF t = {} THEN base ELSE FoldStep(kind, folded[t \ {Max(t)}], seq[Max(t)])
    BY <2>1, Zenon DEF IsFold
  <2>7. \A t \in SUBSET (1 .. m) : more[t] = folded[t]
    BY <2>4, <2>5, <2>6, Zenon
  <2>8. ASSUME NEW t \in SUBSET (1 .. next), t # {}
        PROVE  t \ {Max(t)} \in SUBSET (1 .. m)
    <3>1. PICK last : last = Max(t)
      OBVIOUS
    <3>2. last \in t /\ \A i \in t : i <= last
      BY <2>3, <2>8, <3>1, MaxOfIndices
    <3>3. \A i \in t : i # last => i \in 1 .. m
      BY <2>2, <2>3, <3>2
    <3> QED
      BY <3>1, <3>3
  <2>9. \A t \in SUBSET (1 .. next) : t # {} => more[t \ {Max(t)}] = folded[t \ {Max(t)}]
    BY <2>7, <2>8
  <2>10. more = [t \in SUBSET (1 .. next) |->
            IF t = {} THEN base ELSE FoldStep(kind, more[t \ {Max(t)}], seq[Max(t)])]
    BY <2>4, <2>9
  <2>11. IsFold(kind, more, base, seq, next)
    BY <2>10, Zenon DEF IsFold
  <2> QED
    BY <1>1, <2>2, <2>3, <2>11
<1>4. HandsOn(having, n)
  BY <1>2, <1>3 DEF HandsOn
<1>5. n \in having
  BY <1>4, HandedOn
<1> QED
  BY <1>1, <1>5

(* What has been accumulated after the first k elements.                   *)
Accumulates(kind, acc, base, seq, n) ==
    acc[0] = base /\ \A k \in 1 .. n : acc[k] = FoldStep(kind, acc[k - 1], seq[k])

LEMMA FoldAccumulates ==
    ASSUME NEW kind, NEW folded, NEW base, NEW seq, NEW n \in Nat, IsFold(kind, folded, base, seq, n)
    PROVE  \E acc : Accumulates(kind, acc, base, seq, n) /\ acc[n] = folded[1 .. n]
<1>1. PICK acc : acc = [k \in 0 .. n |-> folded[1 .. k]]
  OBVIOUS
<1>2. \A t \in SUBSET (1 .. n) :
          folded[t] = IF t = {} THEN base ELSE FoldStep(kind, folded[t \ {Max(t)}], seq[Max(t)])
  BY Zenon DEF IsFold
<1>3. acc[0] = base
  <2>1. 1 .. 0 = {} /\ {} \in SUBSET (1 .. n) /\ 0 \in 0 .. n
    OBVIOUS
  <2> QED
    BY <1>1, <1>2, <2>1
<1>4. ASSUME NEW k \in 1 .. n
      PROVE  acc[k] = FoldStep(kind, acc[k - 1], seq[k])
  <2>1. k \in Nat \ {0} /\ k \in 0 .. n /\ k - 1 \in 0 .. n /\ 1 .. k # {} /\ 1 .. k \in SUBSET (1 .. n)
    OBVIOUS
  <2>2. Max(1 .. k) = k /\ (1 .. k) \ {k} = 1 .. k - 1
    BY <2>1, MaxOfInterval
  <2>3. folded[1 .. k] = FoldStep(kind, folded[1 .. k - 1], seq[k])
    BY <1>2, <2>1, <2>2
  <2> QED
    BY <1>1, <2>1, <2>3
<1>5. acc[n] = folded[1 .. n]
  BY <1>1
<1> QED
  BY <1>3, <1>4, <1>5 DEF Accumulates

IsAddFold(folded, base, seq) ==
    folded = [t \in SUBSET (DOMAIN seq) |->
                 IF t = {} THEN base ELSE AddDataType(folded[t \ {Max(t)}], seq[Max(t)])]
IsUsedFold(folded, base, seq) ==
    folded = [t \in SUBSET (DOMAIN seq) |->
                 IF t = {} THEN base ELSE WithUsed(folded[t \ {Max(t)}], seq[Max(t)])]
IsReserveFold(folded, base, seq) ==
    folded = [t \in SUBSET (DOMAIN seq) |->
                 IF t = {} THEN base ELSE Reserve(folded[t \ {Max(t)}], seq[Max(t)])]
IsTableFold(folded, base, seq) ==
    folded = [t \in SUBSET (DOMAIN seq) |->
                 IF t = {} THEN base
                 ELSE PutNumbered(folded[t \ {Max(t)}], seq[Max(t)])]

(* The folds themselves, as operators of what they begin with and run over. *)
AddFold(base, seq) == FoldLeft(AddDataType, base, seq)
UsedFold(base, seq) == FoldLeft(WithUsed, base, seq)
ReserveFold(base, seq) == FoldLeft(Reserve, base, seq)
TableFold(base, seq) == FoldLeft(PutNumbered, base, seq)

AddRuns(acc, base, seq, n) ==
    /\ acc[0] = base /\ \A k \in 1 .. n : acc[k] = AddDataType(acc[k - 1], seq[k])
    /\ AddFold(base, seq) = acc[n]

LEMMA AddFolds ==
    ASSUME NEW base, NEW seq, NEW n \in Nat, DOMAIN seq = 1 .. n
    PROVE  \E acc : AddRuns(acc, base, seq, n)
<1>1. \A acc, x : FoldStep(1, acc, x) = AddDataType(acc, x)
  BY DEF FoldStep
<1>2. \A folded : IsAddFold(folded, base, seq) <=> IsFold(1, folded, base, seq, n)
  BY <1>1 DEF IsAddFold, IsFold
<1>3. PICK folded : folded = CHOOSE f : IsAddFold(f, base, seq)
  OBVIOUS
<1>4. IsAddFold(folded, base, seq)
  BY <1>2, <1>3, FoldsExist
<1>5. AddFold(base, seq) = folded[DOMAIN seq]
  BY <1>3, Zenon DEF AddFold, FoldLeft, MapThenFoldSet, IsAddFold
<1>6. PICK acc : Accumulates(1, acc, base, seq, n) /\ acc[n] = folded[1 .. n]
  BY <1>2, <1>4, FoldAccumulates
<1> QED
  BY <1>1, <1>5, <1>6 DEF Accumulates, AddRuns

UsedRuns(acc, base, seq, n) ==
    /\ acc[0] = base /\ \A k \in 1 .. n : acc[k] = WithUsed(acc[k - 1], seq[k])
    /\ UsedFold(base, seq) = acc[n]

LEMMA UsedFolds ==
    ASSUME NEW base, NEW seq, NEW n \in Nat, DOMAIN seq = 1 .. n
    PROVE  \E acc : UsedRuns(acc, base, seq, n)
<1>1. \A acc, x : FoldStep(2, acc, x) = WithUsed(acc, x)
  BY DEF FoldStep
<1>2. \A folded : IsUsedFold(folded, base, seq) <=> IsFold(2, folded, base, seq, n)
  BY <1>1 DEF IsUsedFold, IsFold
<1>3. PICK folded : folded = CHOOSE f : IsUsedFold(f, base, seq)
  OBVIOUS
<1>4. IsUsedFold(folded, base, seq)
  BY <1>2, <1>3, FoldsExist
<1>5. UsedFold(base, seq) = folded[DOMAIN seq]
  BY <1>3, Zenon DEF UsedFold, FoldLeft, MapThenFoldSet, IsUsedFold
<1>6. PICK acc : Accumulates(2, acc, base, seq, n) /\ acc[n] = folded[1 .. n]
  BY <1>2, <1>4, FoldAccumulates
<1> QED
  BY <1>1, <1>5, <1>6 DEF Accumulates, UsedRuns

ReserveRuns(acc, base, seq, n) ==
    /\ acc[0] = base /\ \A k \in 1 .. n : acc[k] = Reserve(acc[k - 1], seq[k])
    /\ ReserveFold(base, seq) = acc[n]

LEMMA ReserveFolds ==
    ASSUME NEW base, NEW seq, NEW n \in Nat, DOMAIN seq = 1 .. n
    PROVE  \E acc : ReserveRuns(acc, base, seq, n)
<1>1. \A acc, x : FoldStep(3, acc, x) = Reserve(acc, x)
  BY DEF FoldStep
<1>2. \A folded : IsReserveFold(folded, base, seq) <=> IsFold(3, folded, base, seq, n)
  BY <1>1 DEF IsReserveFold, IsFold
<1>3. PICK folded : folded = CHOOSE f : IsReserveFold(f, base, seq)
  OBVIOUS
<1>4. IsReserveFold(folded, base, seq)
  BY <1>2, <1>3, FoldsExist
<1>5. ReserveFold(base, seq) = folded[DOMAIN seq]
  BY <1>3, Zenon DEF ReserveFold, FoldLeft, MapThenFoldSet, IsReserveFold
<1>6. PICK acc : Accumulates(3, acc, base, seq, n) /\ acc[n] = folded[1 .. n]
  BY <1>2, <1>4, FoldAccumulates
<1> QED
  BY <1>1, <1>5, <1>6 DEF Accumulates, ReserveRuns

TableRuns(acc, base, seq, n) ==
    /\ acc[0] = base /\ \A k \in 1 .. n : acc[k] = PutNumbered(acc[k - 1], seq[k])
    /\ TableFold(base, seq) = acc[n]

LEMMA TableFolds ==
    ASSUME NEW base, NEW seq, NEW n \in Nat, DOMAIN seq = 1 .. n
    PROVE  \E acc : TableRuns(acc, base, seq, n)
<1>1. \A acc, x : FoldStep(4, acc, x) = PutNumbered(acc, x)
  BY DEF FoldStep, PutNumbered
<1>2. \A folded : IsTableFold(folded, base, seq) <=> IsFold(4, folded, base, seq, n)
  BY <1>1 DEF IsTableFold, IsFold
<1>3. PICK folded : folded = CHOOSE f : IsTableFold(f, base, seq)
  OBVIOUS
<1>4. IsTableFold(folded, base, seq)
  BY <1>2, <1>3, FoldsExist
<1>5. TableFold(base, seq) = folded[DOMAIN seq]
  BY <1>3, Zenon DEF TableFold, FoldLeft, MapThenFoldSet, IsTableFold
<1>6. PICK acc : Accumulates(4, acc, base, seq, n) /\ acc[n] = folded[1 .. n]
  BY <1>2, <1>4, FoldAccumulates
<1> QED
  BY <1>1, <1>5, <1>6 DEF Accumulates, TableRuns

-----------------------------------------------------------------------------
(* A table holds the first m definitions, with their numbers.              *)
Tables(exp) == [exp : {exp}, keys : KeyArrays(exp), values : [Slots(exp) -> Int]]

PointsBack(table, definitions, m) ==
    \A s \in Used(table.keys) :
        table.values[s] \in 0 .. m - 1 /\ definitions[table.values[s] + 1] = table.keys[s]

HasKeys(table, definitions, m) ==
    \A j \in 1 .. m : \E s \in Used(table.keys) : table.keys[s] = definitions[j]

Holds(table, exp, definitions, m) ==
    /\ table \in Tables(exp)
    /\ Placed(table.keys, exp)
    /\ Cardinality(Used(table.keys)) <= m
    /\ PointsBack(table, definitions, m)
    /\ HasKeys(table, definitions, m)

LEMMA EmptyHolds ==
    ASSUME NEW exp \in 0 .. HashBits, NEW definitions
    PROVE  Holds(EmptyTable(exp), exp, definitions, 0)
<1>1. PICK table : table = EmptyTable(exp)
  OBVIOUS
<1>2. table \in Tables(exp)
  BY <1>1 DEF EmptyTable, Tables, KeyArrays, Slots, Invalid
<1>3. Used(table.keys) = {}
  BY <1>1 DEF EmptyTable, Used
<1>4. Cardinality({}) = 0
  BY FS_EmptySet
<1>5. Placed(table.keys, exp) /\ PointsBack(table, definitions, 0)
  BY <1>3 DEF Placed, PointsBack
<1>6. HasKeys(table, definitions, 0)
  BY DEF HasKeys
<1> QED
  BY <1>1, <1>2, <1>3, <1>4, <1>5, <1>6 DEF Holds

LEMMA PutHolds ==
    ASSUME HashOK, NEW exp \in 0 .. HashBits,
           NEW n \in Nat, NEW definitions \in [1 .. n -> Addresses], n < HashSize[exp],
           NEW m \in 0 .. n - 1, NEW table, Holds(table, exp, definitions, m)
    PROVE  Holds(Put(table, definitions[m + 1], m), exp, definitions, m + 1)
<1>1. PICK key, keys, values, slot, next :
          /\ key = definitions[m + 1] /\ keys = table.keys /\ values = table.values
          /\ slot = SlotOf(keys, exp, key) /\ next = m + 1
  OBVIOUS
<1>2. m \in Nat /\ next \in 1 .. n /\ key \in Addresses /\ key # NULL
  BY <1>1, RegistryAssumption
<1>3. /\ table \in Tables(exp) /\ Placed(keys, exp) /\ Cardinality(Used(keys)) <= m
      /\ PointsBack(table, definitions, m) /\ HasKeys(table, definitions, m)
  BY <1>1 DEF Holds
<1>4. keys \in KeyArrays(exp) /\ values \in [Slots(exp) -> Int] /\ table.exp = exp
  BY <1>1, <1>3 DEF Tables
<1>5. IsFiniteSet(Used(keys)) /\ Cardinality(Used(keys)) \in Nat
  BY <1>4, FreeSlot
<1>6. Hits(keys, exp, key) # {}
  <2>1. Cardinality(Used(keys)) < HashSize[exp]
    BY <1>2, <1>3, <1>5, HashSizes
  <2> QED
    BY <1>2, <1>4, <2>1, SearchEnds
<1>7. slot \in Slots(exp) /\ keys[slot] \in {NULL, key}
  BY <1>1, <1>2, <1>4, <1>6, SlotHolds
<1>8. PICK more, numbers : more = [keys EXCEPT ![slot] = key] /\ numbers = [values EXCEPT ![slot] = m]
  OBVIOUS
<1>9. more \in KeyArrays(exp) /\ Placed(more, exp) /\ Used(more) = Used(keys) \union {slot}
  BY <1>1, <1>2, <1>3, <1>4, <1>6, <1>8, PutKeepsPlaces, SMTT(30)
<1>10. PICK put : put = Put(table, key, m)
  OBVIOUS
<1>11. put = [table EXCEPT !.keys = more, !.values = numbers]
  <2>1. put = [table EXCEPT !.keys[slot] = key, !.values[slot] = m]
    BY <1>1, <1>4, <1>10 DEF Put
  <2> QED
    BY <1>1, <1>3, <1>8, <2>1 DEF Tables
<1>12. put.keys = more /\ put.values = numbers /\ put \in Tables(exp)
  <2>1. numbers \in [Slots(exp) -> Int]
    <3>1. m \in Int
      BY <1>2
    <3> QED
      BY <1>4, <1>8, <3>1, Zenon
  <2> QED
    BY <1>3, <1>9, <1>11, <2>1 DEF Tables
<1>13. more[slot] = key /\ \A s \in Used(keys) : s # slot => more[s] = keys[s]
  BY <1>4, <1>7, <1>8 DEF KeyArrays, Used
<1>14. numbers[slot] = m /\ \A s \in Used(keys) : s # slot => numbers[s] = values[s]
  BY <1>4, <1>7, <1>8 DEF KeyArrays, Used
<1>15. Cardinality(Used(more)) <= next
  <2>1. Cardinality(Used(keys) \union {slot}) <= Cardinality(Used(keys)) + 1
    <3>1. PICK c, used : c = Cardinality(Used(keys)) /\ used = Used(keys)
      OBVIOUS
    <3>2. Cardinality(used \union {slot}) = IF slot \in used THEN c ELSE c + 1
      BY <1>5, <3>1, FS_AddElement
    <3>3. PICK d : d = Cardinality(used \union {slot})
      OBVIOUS
    <3>4. d = c \/ d = c + 1
      BY <3>2, <3>3
    <3>5. d <= c + 1
      BY <1>5, <3>1, <3>4
    <3> QED
      BY <3>1, <3>3, <3>5
  <2>2. Cardinality(Used(more)) \in Nat
    BY <1>9, FreeSlot
  <2> QED
    BY <1>1, <1>2, <1>3, <1>5, <1>9, <2>1, <2>2
<1>16. PointsBack(put, definitions, next)
  <2>1. ASSUME NEW s \in Used(more)
        PROVE  numbers[s] \in 0 .. next - 1 /\ definitions[numbers[s] + 1] = more[s]
    <3>1. CASE s = slot
      BY <1>1, <1>2, <1>13, <1>14, <3>1
    <3>2. CASE s # slot
      <4>1. s \in Used(keys)
        BY <1>9, <3>2
      <4>2. values[s] \in 0 .. m - 1 /\ definitions[values[s] + 1] = keys[s]
        BY <1>1, <1>3, <4>1 DEF PointsBack
      <4> QED
        BY <1>1, <1>2, <1>13, <1>14, <3>2, <4>1, <4>2
    <3> QED
      BY <3>1, <3>2
  <2> QED
    BY <1>12, <2>1 DEF PointsBack
<1>17. HasKeys(put, definitions, next)
  <2>1. ASSUME NEW j \in 1 .. next
        PROVE  \E s \in Used(more) : more[s] = definitions[j]
    <3>1. CASE j = next
      BY <1>1, <1>9, <1>13, <3>1
    <3>2. CASE j # next
      <4>1. j \in 1 .. m
        BY <1>1, <1>2, <3>2
      <4>2. PICK s \in Used(keys) : keys[s] = definitions[j]
        BY <1>1, <1>3, <4>1 DEF HasKeys
      <4>3. keys[s] # NULL
        BY DEF Used
      <4>4. CASE s = slot
        BY <1>7, <1>9, <1>13, <4>2, <4>3, <4>4
      <4>5. CASE s # slot
        BY <1>9, <1>13, <4>2, <4>5
      <4> QED
        BY <4>4, <4>5
    <3> QED
      BY <3>1, <3>2
  <2> QED
    BY <1>12, <2>1 DEF HasKeys
<1> QED
  BY <1>1, <1>9, <1>10, <1>12, <1>15, <1>16, <1>17 DEF Holds

LEMMA TableOfHolds ==
    ASSUME HashOK, NEW exp \in 0 .. HashBits,
           NEW n \in Nat, NEW definitions \in [1 .. n -> Addresses], n < HashSize[exp]
    PROVE  Holds(TableOf(definitions, exp), exp, definitions, n)
<1>1. PICK seq : seq = [k \in DOMAIN definitions |-> <<definitions[k], k - 1>>]
  OBVIOUS
<1>2. DOMAIN seq = 1 .. n
  BY <1>1
<1>3. PICK acc :
          /\ acc[0] = EmptyTable(exp) /\ \A k \in 1 .. n : acc[k] = PutNumbered(acc[k - 1], seq[k])
          /\ TableFold(EmptyTable(exp), seq) = acc[n]
  <2>1. PICK acc : TableRuns(acc, EmptyTable(exp), seq, n)
    BY <1>2, TableFolds
  <2> QED
    BY <2>1 DEF TableRuns
<1>4. PICK having : having = {m \in Nat : Holds(acc[m], exp, definitions, m)}
  OBVIOUS
<1>5. 0 \in having
  BY <1>3, <1>4, EmptyHolds
<1>6. ASSUME NEW m \in 0 .. n, m # n, m \in having
      PROVE  m + 1 \in having
  <2>1. PICK next : next = m + 1
    OBVIOUS
  <2>2. m \in 0 .. n - 1 /\ next \in 1 .. n /\ next \in Nat /\ next - 1 = m
    BY <1>6, <2>1
  <2>3. seq[next] = <<definitions[next], m>>
    BY <1>1, <2>2
  <2>4. acc[next] = Put(acc[m], definitions[next], m)
    <3>1. acc[next] = PutNumbered(acc[m], <<definitions[next], m>>)
      BY <1>3, <2>2, <2>3
    <3>2. PICK pair : pair = <<definitions[next], m>>
      OBVIOUS
    <3>3. pair[1] = definitions[next] /\ pair[2] = m
      BY <3>2
    <3> QED
      BY <3>1, <3>2, <3>3 DEF PutNumbered
  <2>5. Holds(acc[m], exp, definitions, m)
    BY <1>4, <1>6
  <2>6. Holds(acc[next], exp, definitions, next)
    BY <2>1, <2>2, <2>4, <2>5, PutHolds
  <2> QED
    BY <1>4, <2>1, <2>2, <2>6
<1>7. HandsOn(having, n)
  BY <1>5, <1>6 DEF HandsOn
<1>8. n \in having
  BY <1>7, HandedOn
<1>9. TableOf(definitions, exp) = acc[n]
  BY <1>1, <1>3 DEF TableOf, TableFold
<1> QED
  BY <1>4, <1>8, <1>9

LEMMA LookupFinds ==
    ASSUME HashOK, NEW exp \in 0 .. HashBits, NEW table, NEW definitions, NEW n \in Nat,
           Holds(table, exp, definitions, n), NEW j \in 1 .. n
    PROVE  /\ Lookup(table, definitions[j]) \in 0 .. n - 1
           /\ definitions[Lookup(table, definitions[j]) + 1] = definitions[j]
<1>1. PICK s \in Used(table.keys) : table.keys[s] = definitions[j]
  BY DEF Holds, HasKeys
<1>2. table.exp = exp /\ DOMAIN table.keys = Slots(exp)
  BY DEF Holds, Tables, KeyArrays
<1>3. SlotOf(table.keys, exp, definitions[j]) = s
  BY <1>1 DEF Holds, Placed
<1>4. s # Invalid /\ table.keys[s] # NULL
  BY <1>2, HashSizes DEF Used, Slots, Invalid
<1>5. Lookup(table, definitions[j]) = table.values[s]
  BY <1>2, <1>3, <1>4 DEF Lookup
<1>6. table.values[s] \in 0 .. n - 1 /\ definitions[table.values[s] + 1] = table.keys[s]
  BY DEF Holds, PointsBack
<1> QED
  BY <1>1, <1>5, <1>6

LEMMA LookupMisses ==
    ASSUME HashOK, NEW exp \in 0 .. HashBits, NEW table, NEW definitions, NEW n \in Nat,
           Holds(table, exp, definitions, n), NEW key \in Addresses,
           \A j \in 1 .. n : definitions[j] # key
    PROVE  Lookup(table, key) = Invalid
<1>1. table.exp = exp /\ table.keys \in KeyArrays(exp)
  BY DEF Holds, Tables
<1>2. PICK slot : slot = SlotOf(table.keys, exp, key)
  OBVIOUS
<1>3. CASE slot = Invalid
  BY <1>1, <1>2, <1>3 DEF Lookup
<1>4. CASE slot # Invalid
  <2>1. slot \in Slots(exp) /\ table.keys[slot] \in {NULL, key}
    BY <1>1, <1>2, <1>4, SlotHolds
  <2>2. table.keys[slot] = NULL
    <3> SUFFICES ASSUME table.keys[slot] # NULL PROVE FALSE
      OBVIOUS
    <3>1. slot \in Used(table.keys) /\ table.keys[slot] = key
      BY <1>1, <2>1 DEF Used, KeyArrays
    <3>2. table.values[slot] \in 0 .. n - 1 /\ definitions[table.values[slot] + 1] = key
      BY <3>1 DEF Holds, PointsBack
    <3>3. table.values[slot] + 1 \in 1 .. n
      BY <3>2
    <3> QED
      BY <3>2, <3>3
  <2> QED
    BY <1>1, <1>2, <2>2 DEF Lookup
<1> QED
  BY <1>3, <1>4

LEMMA TableSearchEnds ==
    ASSUME HashOK, NEW exp \in 0 .. HashBits, NEW table, NEW definitions, NEW n \in Nat,
           Holds(table, exp, definitions, n), n < HashSize[exp], NEW key \in Addresses
    PROVE  Hits(table.keys, table.exp, key) # {}
<1>1. table.exp = exp /\ table.keys \in KeyArrays(exp) /\ Cardinality(Used(table.keys)) <= n
  BY DEF Holds, Tables
<1>2. Cardinality(Used(table.keys)) < HashSize[exp]
  BY <1>1, FreeSlot, HashSizes
<1> QED
  BY <1>1, <1>2, SearchEnds

-----------------------------------------------------------------------------
(* The builder: its keys are placed, and counted.                          *)
BuilderExp == HashExp(MaxDataTypes)

Builders == [node_types : Seq(AllNodeTypes), num_data_types : Nat,
             exp : {BuilderExp}, data_types : KeyArrays(BuilderExp)]

IsBuilder(b) ==
    /\ b \in Builders
    /\ Placed(b.data_types, BuilderExp)
    /\ b.num_data_types = Cardinality(Used(b.data_types))

Collected(b) == {b.data_types[s] : s \in Used(b.data_types)}

(* What it has after some types were added to it; with more types than the *)
(* registry is configured for, it may not have them all.                   *)
HasMore(more, b, types) ==
    /\ IsBuilder(more) /\ more.node_types = b.node_types
    /\ b.num_data_types <= more.num_data_types
    /\ more.num_data_types <= MaxDataTypes => Collected(more) = Collected(b) \union types

LEMMA BuilderExpFits ==
    BuilderExp \in 0 .. HashBits /\ MaxDataTypes < HashSize[BuilderExp] /\ MaxDataTypes \in Nat
<1>1. MaxDataTypes \in Nat /\ MaxDataTypes < HashSize[HashBits]
  BY RegistryAssumption
<1> QED
  BY <1>1, ExpsAreLargeEnough DEF BuilderExp

LEMMA AddDataTypeAdds ==
    ASSUME HashOK, NEW b, IsBuilder(b), NEW type \in DataTypes
    PROVE  HasMore(AddDataType(b, type), b, {type})
<1>1. PICK exp, keys, slot, c :
          /\ exp = BuilderExp /\ keys = b.data_types /\ slot = SlotOf(keys, exp, type)
          /\ c = AddDataType(b, type)
  OBVIOUS
<1>2. exp \in 0 .. HashBits /\ MaxDataTypes < HashSize[exp] /\ MaxDataTypes \in Nat /\ HashSize[exp] \in Nat
  BY <1>1, BuilderExpFits, HashSizes
<1>3. /\ b \in Builders /\ keys \in KeyArrays(exp) /\ b.exp = exp /\ Placed(keys, exp)
      /\ b.num_data_types = Cardinality(Used(keys)) /\ b.num_data_types \in Nat
  BY <1>1 DEF IsBuilder, Builders
<1>4. type \in Addresses /\ type # NULL
  BY RegistryAssumption DEF Addresses
<1>5. DOMAIN keys = Slots(exp)
  BY <1>3 DEF KeyArrays
<1>6. c = IF slot = Invalid \/ keys[slot] = type THEN b
          ELSE [b EXCEPT !.data_types[slot] = type, !.num_data_types = @ + 1]
  BY <1>1, <1>3 DEF AddDataType
<1>7. CASE slot = Invalid
  <2>1. c = b
    BY <1>6, <1>7
  <2>2. Hits(keys, exp, type) = {}
    <3> SUFFICES ASSUME Hits(keys, exp, type) # {} PROVE FALSE
      OBVIOUS
    <3>1. SlotOf(keys, exp, type) # Invalid
      BY <1>2, <1>3, <1>4, SlotHolds
    <3> QED
      BY <1>1, <1>7, <3>1
  <2>3. ~(Cardinality(Used(keys)) < HashSize[exp])
    BY <1>2, <1>3, <1>4, <2>2, SearchEnds
  <2>4. ~(b.num_data_types <= MaxDataTypes)
    BY <1>2, <1>3, <2>3
  <2>5. b.num_data_types <= b.num_data_types
    BY <1>3
  <2> QED
    BY <1>1, <2>1, <2>4, <2>5 DEF HasMore
<1>8. CASE slot # Invalid /\ keys[slot] = type
  <2>1. c = b
    BY <1>6, <1>8
  <2>2. slot \in Slots(exp)
    BY <1>1, <1>2, <1>3, <1>4, <1>8, SlotHolds
  <2>3. slot \in Used(keys)
    BY <1>4, <1>5, <1>8, <2>2 DEF Used
  <2>4. type \in Collected(b)
    BY <1>1, <1>8, <2>3 DEF Collected
  <2>5. Collected(b) = Collected(b) \union {type}
    BY <2>4
  <2>6. b.num_data_types <= b.num_data_types
    BY <1>3
  <2> QED
    BY <1>1, <2>1, <2>5, <2>6 DEF HasMore
<1>9. CASE slot # Invalid /\ keys[slot] # type
  <2>1. Hits(keys, exp, type) # {} /\ slot \in Slots(exp) /\ keys[slot] = NULL
    BY <1>1, <1>2, <1>3, <1>4, <1>9, SlotHolds
  <2>2. PICK more : more = [keys EXCEPT ![slot] = type]
    OBVIOUS
  <2>3. more \in KeyArrays(exp) /\ Placed(more, exp) /\ Used(more) = Used(keys) \union {slot}
    BY <1>1, <1>2, <1>3, <1>4, <2>1, <2>2, PutKeepsPlaces
  <2>4. PICK count : count = b.num_data_types + 1
    OBVIOUS
  <2>5. c = [b EXCEPT !.data_types = more, !.num_data_types = count]
    BY <1>1, <1>3, <1>6, <1>9, <2>2, <2>4 DEF Builders
  <2>6. c.data_types = more /\ c.num_data_types = count /\ c.node_types = b.node_types
    BY <1>3, <2>5 DEF Builders
  <2>7. count \in Nat /\ b.num_data_types <= count
    BY <1>3, <2>4
  <2>8. c \in Builders
    BY <1>1, <1>3, <2>3, <2>5, <2>7 DEF Builders
  <2>9. count = Cardinality(Used(more))
    <3>1. PICK used : used = Used(keys)
      OBVIOUS
    <3>2. slot \notin used /\ IsFiniteSet(used)
      BY <1>2, <1>3, <2>1, <3>1, FreeSlot DEF Used
    <3>3. Cardinality(used \union {slot}) = Cardinality(used) + 1
      BY <3>2, FS_AddElement
    <3> QED
      BY <1>3, <2>3, <2>4, <3>1, <3>3
  <2>10. IsBuilder(c)
    BY <1>1, <2>3, <2>6, <2>8, <2>9 DEF IsBuilder
  <2>11. more[slot] = type /\ \A s \in Used(keys) : more[s] = keys[s]
    BY <1>5, <2>1, <2>2 DEF Used
  <2>12. Collected(c) = Collected(b) \union {type}
    <3>1. Collected(c) = {more[s] : s \in Used(keys) \union {slot}}
      BY <2>3, <2>6 DEF Collected
    <3>2. Collected(b) = {keys[s] : s \in Used(keys)}
      BY <1>1 DEF Collected
    <3> QED
      BY <2>11, <3>1, <3>2
  <2> QED
    BY <1>1, <2>6, <2>7, <2>10, <2>12 DEF HasMore
<1> QED
  BY <1>7, <1>8, <1>9

LEMMA AddFoldAdds ==
    ASSUME HashOK, NEW b, IsBuilder(b), NEW types \in Seq(DataTypes)
    PROVE  HasMore(AddFold(b, types), b, ToSet(types))
<1>1. PICK n : n = Len(types)
  OBVIOUS
<1>2. n \in Nat /\ DOMAIN types = 1 .. n /\ \A k \in 1 .. n : types[k] \in DataTypes
  BY <1>1
<1>3. PICK acc :
          /\ acc[0] = b /\ \A k \in 1 .. n : acc[k] = AddDataType(acc[k - 1], types[k])
          /\ AddFold(b, types) = acc[n]
  <2>1. PICK acc : AddRuns(acc, b, types, n)
    BY <1>2, AddFolds
  <2> QED
    BY <2>1 DEF AddRuns
<1>4. PICK having : having = {m \in Nat : HasMore(acc[m], b, {types[i] : i \in 1 .. m})}
  OBVIOUS
<1>5. 0 \in having
  <2>1. {types[i] : i \in 1 .. 0} = {}
    OBVIOUS
  <2>2. b.num_data_types <= b.num_data_types
    BY DEF IsBuilder, Builders
  <2>3. HasMore(b, b, {})
    BY <2>2 DEF HasMore
  <2> QED
    BY <1>3, <1>4, <2>1, <2>3
<1>6. ASSUME NEW m \in 0 .. n, m # n, m \in having
      PROVE  m + 1 \in having
  <2>1. PICK next, c, d : next = m + 1 /\ c = acc[m] /\ d = acc[next]
    OBVIOUS
  <2>2. m \in Nat /\ next \in 1 .. n /\ next \in Nat /\ next - 1 = m
    BY <1>2, <1>6, <2>1
  <2>3. d = AddDataType(c, types[next]) /\ types[next] \in DataTypes
    BY <1>2, <1>3, <2>1, <2>2
  <2>4. HasMore(c, b, {types[i] : i \in 1 .. m})
    BY <1>4, <1>6, <2>1
  <2>5. IsBuilder(c)
    BY <2>4 DEF HasMore
  <2>6. HasMore(d, c, {types[next]})
    BY <2>3, <2>5, AddDataTypeAdds
  <2>7. b.num_data_types \in Nat /\ c.num_data_types \in Nat /\ d.num_data_types \in Nat
    BY <2>5, <2>6 DEF HasMore, IsBuilder, Builders
  <2>8. b.num_data_types <= c.num_data_types /\ c.num_data_types <= d.num_data_types
    BY <2>4, <2>6 DEF HasMore
  <2>9. b.num_data_types <= d.num_data_types
    BY <2>7, <2>8
  <2>10. {types[i] : i \in 1 .. next} = {types[i] : i \in 1 .. m} \union {types[next]}
    <3>1. 1 .. next = (1 .. m) \union {next}
      BY <2>1, <2>2
    <3> QED
      BY <3>1
  <2>11. ASSUME d.num_data_types <= MaxDataTypes
         PROVE  Collected(d) = Collected(b) \union {types[i] : i \in 1 .. next}
    <3>1. c.num_data_types <= MaxDataTypes
      BY <2>7, <2>8, <2>11, BuilderExpFits
    <3>2. Collected(c) = Collected(b) \union {types[i] : i \in 1 .. m}
      BY <2>4, <3>1 DEF HasMore
    <3>3. Collected(d) = Collected(c) \union {types[next]}
      BY <2>6, <2>11 DEF HasMore
    <3> QED
      BY <2>10, <3>2, <3>3
  <2>12. HasMore(d, b, {types[i] : i \in 1 .. next})
    BY <2>4, <2>6, <2>9, <2>11 DEF HasMore
  <2> QED
    BY <1>4, <2>1, <2>2, <2>12
<1>7. HandsOn(having, n)
  BY <1>5, <1>6 DEF HandsOn
<1>8. n \in having
  BY <1>2, <1>7, HandedOn
<1>9. ToSet(types) = {types[i] : i \in 1 .. n}
  BY <1>2 DEF ToSet
<1> QED
  BY <1>3, <1>4, <1>8, <1>9

LEMMA TypesOfType ==
    ASSUME NEW type \in AllNodeTypes
    PROVE  /\ Attributes[type] \in Seq(DataTypes)
           /\ PinTypes(InputPins[type]) \in Seq(DataTypes) /\ PinTypes(OutputPins[type]) \in Seq(DataTypes)
           /\ Len(PinTypes(InputPins[type])) = Len(InputPins[type])
           /\ Len(PinTypes(OutputPins[type])) = Len(OutputPins[type])
           /\ TypesOf(type) \in Seq(DataTypes)
<1>1. ASSUME NEW pins \in Seq(DataTypes \X BOOLEAN)
      PROVE  PinTypes(pins) \in Seq(DataTypes) /\ Len(PinTypes(pins)) = Len(pins)
  <2>1. PICK n : n = Len(pins)
    OBVIOUS
  <2>2. n \in Nat /\ DOMAIN pins = 1 .. n /\ \A j \in 1 .. n : pins[j] \in DataTypes \X BOOLEAN
    BY <2>1
  <2>3. \A j \in 1 .. n : pins[j][1] \in DataTypes
    BY <2>2
  <2>4. PinTypes(pins) = [j \in 1 .. n |-> pins[j][1]]
    BY <2>2 DEF PinTypes
  <2>5. PinTypes(pins) \in [1 .. n -> DataTypes]
    BY <2>3, <2>4
  <2> QED
    BY <2>1, <2>2, <2>5
<1>2. /\ Attributes[type] \in Seq(DataTypes) /\ InputPins[type] \in Seq(DataTypes \X BOOLEAN)
      /\ OutputPins[type] \in Seq(DataTypes \X BOOLEAN)
  BY RegistryAssumption
<1>3. /\ PinTypes(InputPins[type]) \in Seq(DataTypes) /\ PinTypes(OutputPins[type]) \in Seq(DataTypes)
      /\ Len(PinTypes(InputPins[type])) = Len(InputPins[type])
      /\ Len(PinTypes(OutputPins[type])) = Len(OutputPins[type])
  BY <1>1, <1>2
<1> QED
  BY <1>2, <1>3 DEF TypesOf

-----------------------------------------------------------------------------
(* The types that the builder has met.                                     *)
TypesMet(b) == UNION {ToSet(TypesOf(b.node_types[k])) : k \in DOMAIN b.node_types}

BuilderOK(b) ==
    /\ IsBuilder(b) /\ b.num_data_types <= MaxDataTypes
    /\ Len(b.node_types) \in 1 .. MaxNodeTypes + 1
    /\ b.node_types[1] = Dummy
    /\ Collected(b) = TypesMet(b)

LEMMA WithNodeTypeAdds ==
    ASSUME HashOK, NEW b, IsBuilder(b), NEW type \in AllNodeTypes,
           NEW c, c = WithNodeType(b, type)
    PROVE  /\ IsBuilder(c) /\ c.node_types = Append(b.node_types, type)
           /\ b.num_data_types <= c.num_data_types
           /\ c.num_data_types <= MaxDataTypes => Collected(c) = Collected(b) \union ToSet(TypesOf(type))
<1>1. PICK types, more : types = TypesOf(type) /\ more = AddFold(b, types)
  OBVIOUS
<1>2. types \in Seq(DataTypes)
  BY <1>1, TypesOfType
<1>3. HasMore(more, b, ToSet(types))
  BY <1>1, <1>2, AddFoldAdds
<1>4. more = FoldLeft(AddDataType, b, TypesOf(type))
  BY <1>1 DEF AddFold
<1>5. c = [more EXCEPT !.node_types = Append(@, type)]
  BY <1>4 DEF WithNodeType
<1>6. /\ more \in Builders /\ Placed(more.data_types, BuilderExp) /\ more.node_types = b.node_types
      /\ more.num_data_types = Cardinality(Used(more.data_types))
  BY <1>3 DEF HasMore, IsBuilder
<1>7. more.node_types \in Seq(AllNodeTypes)
  BY <1>6 DEF Builders
<1>8. /\ c.node_types = Append(b.node_types, type) /\ c.data_types = more.data_types
      /\ c.num_data_types = more.num_data_types /\ c \in Builders
  <2>1. PICK node_types : node_types = Append(more.node_types, type)
    OBVIOUS
  <2>2. node_types \in Seq(AllNodeTypes) /\ node_types = Append(b.node_types, type)
    BY <1>6, <1>7, <2>1
  <2>3. c = [more EXCEPT !.node_types = node_types]
    BY <1>5, <1>6, <2>1 DEF Builders
  <2> QED
    BY <1>6, <2>2, <2>3 DEF Builders
<1>9. IsBuilder(c)
  BY <1>6, <1>8 DEF IsBuilder
<1>10. Collected(c) = Collected(more)
  BY <1>8 DEF Collected
<1> QED
  BY <1>1, <1>3, <1>8, <1>9, <1>10 DEF HasMore

LEMMA AppendMeets ==
    ASSUME NEW b, NEW c, NEW type, b.node_types \in Seq(AllNodeTypes), type \in AllNodeTypes,
           c.node_types = Append(b.node_types, type)
    PROVE  TypesMet(c) = TypesMet(b) \union ToSet(TypesOf(type))
<1>1. PICK old, new, n : old = b.node_types /\ new = c.node_types /\ n = Len(old)
  OBVIOUS
<1>2. n \in Nat /\ DOMAIN old = 1 .. n /\ DOMAIN new = 1 .. n + 1 /\ new[n + 1] = type
  BY <1>1
<1>3. \A k \in 1 .. n : new[k] = old[k]
  BY <1>1
<1>4. PICK of, off : of = [k \in 1 .. n |-> ToSet(TypesOf(old[k]))]
                     /\ off = [k \in 1 .. n + 1 |-> ToSet(TypesOf(new[k]))]
  OBVIOUS
<1>5. TypesMet(b) = UNION {of[k] : k \in 1 .. n}
  BY <1>1, <1>2, <1>4 DEF TypesMet
<1>6. TypesMet(c) = UNION {off[k] : k \in 1 .. n + 1}
  BY <1>1, <1>2, <1>4 DEF TypesMet
<1>7. \A k \in 1 .. n : k \in 1 .. n + 1 /\ off[k] = of[k]
  BY <1>2, <1>3, <1>4
<1>8. n + 1 \in 1 .. n + 1 /\ off[n + 1] = ToSet(TypesOf(type))
  BY <1>2, <1>4
<1>9. \A k \in 1 .. n + 1 : k \in 1 .. n \/ k = n + 1
  BY <1>2
<1>10. PICK last, next, indices, longer :
           /\ last = ToSet(TypesOf(type)) /\ next = n + 1
           /\ indices = 1 .. n /\ longer = 1 .. n + 1
  OBVIOUS
<1>11. /\ \A k \in indices : k \in longer /\ off[k] = of[k]
       /\ next \in longer /\ off[next] = last
       /\ \A k \in longer : k \in indices \/ k = next
  BY <1>7, <1>8, <1>9, <1>10
<1>12. TypesMet(b) = UNION {of[k] : k \in indices} /\ TypesMet(c) = UNION {off[k] : k \in longer}
  BY <1>5, <1>6, <1>10
<1>13. ASSUME NEW x
       PROVE  x \in TypesMet(c) <=> x \in TypesMet(b) \union last
  <2>1. x \in TypesMet(c) <=> \E k \in longer : x \in off[k]
    BY <1>12
  <2>2. x \in TypesMet(b) <=> \E k \in indices : x \in of[k]
    BY <1>12
  <2>3. (\E k \in longer : x \in off[k]) <=> (\E k \in indices : x \in of[k]) \/ x \in last
    BY <1>11
  <2> QED
    BY <2>1, <2>2, <2>3
<1>14. TypesMet(c) = TypesMet(b) \union last
  BY <1>13
<1> QED
  BY <1>10, <1>14

LEMMA FreshBuilderOK == HashOK => BuilderOK(FreshBuilder)
<1> SUFFICES ASSUME HashOK PROVE BuilderOK(FreshBuilder)
  OBVIOUS
<1>1. PICK empty : empty = [node_types |-> <<>>, num_data_types |-> 0, exp |-> BuilderExp,
                            data_types |-> [slot \in 0 .. HashSize[BuilderExp] - 1 |-> NULL]]
  OBVIOUS
<1>2. empty \in Builders
  BY <1>1 DEF Builders, KeyArrays, Slots
<1>3. Used(empty.data_types) = {} /\ Cardinality({}) = 0
  BY <1>1, FS_EmptySet DEF Used
<1>4. IsBuilder(empty)
  BY <1>1, <1>2, <1>3 DEF IsBuilder, Placed
<1>5. Collected(empty) = {}
  BY <1>3 DEF Collected
<1>6. PICK fresh : fresh = WithNodeType(empty, Dummy)
  OBVIOUS
<1>7. FreshBuilder = fresh
  BY <1>1, <1>6 DEF FreshBuilder, BuilderExp
<1>8. Dummy \in AllNodeTypes
  BY DEF AllNodeTypes
<1>9. /\ IsBuilder(fresh) /\ fresh.node_types = Append(empty.node_types, Dummy)
      /\ fresh.num_data_types <= MaxDataTypes => Collected(fresh) = Collected(empty) \union ToSet(TypesOf(Dummy))
  BY <1>4, <1>6, <1>8, WithNodeTypeAdds
<1>10. fresh.node_types = <<Dummy>>
  BY <1>1, <1>9
<1>11. TypesOf(Dummy) = <<>>
  <2>1. PinTypes(InputPins[Dummy]) = <<>> /\ PinTypes(OutputPins[Dummy]) = <<>>
    BY RegistryAssumption DEF PinTypes
  <2> QED
    BY <2>1, RegistryAssumption DEF TypesOf
<1>12. ToSet(TypesOf(Dummy)) = {}
  BY <1>11 DEF ToSet
<1>13. fresh.num_data_types = 0
  <2>1. WithNodeType(empty, Dummy) = [AddFold(empty, <<>>) EXCEPT !.node_types = Append(@, Dummy)]
    BY <1>11 DEF WithNodeType, AddFold
  <2>2. AddFold(empty, <<>>) = empty
    <3>1. PICK seq, n : seq = <<>> /\ n = 0
      OBVIOUS
    <3>2. DOMAIN seq = 1 .. n /\ n \in Nat
      BY <3>1
    <3>3. PICK acc : AddRuns(acc, empty, seq, n)
      BY <3>2, AddFolds
    <3> QED
      BY <3>1, <3>3 DEF AddRuns
  <2>3. fresh = [empty EXCEPT !.node_types = Append(@, Dummy)]
    BY <1>6, <2>1, <2>2
  <2>4. empty.num_data_types = 0
    BY <1>1
  <2> QED
    BY <1>2, <2>3, <2>4 DEF Builders
<1>14. fresh.num_data_types <= MaxDataTypes
  BY <1>13, RegistryAssumption
<1>15. Collected(fresh) = {}
  BY <1>5, <1>9, <1>12, <1>14
<1>16. TypesMet(fresh) = {}
  BY <1>10, <1>12 DEF TypesMet
<1>17. Len(fresh.node_types) \in 1 .. MaxNodeTypes + 1
  BY <1>10, RegistryAssumption
<1>18. fresh.node_types[1] = Dummy
  BY <1>10
<1> QED
  BY <1>7, <1>9, <1>14, <1>15, <1>16, <1>17, <1>18 DEF BuilderOK

LEMMA BuilderAddKeepsOK ==
    ASSUME HashOK, BuilderOK(builder), NEW type \in NodeTypes, BuilderAdd(type)
    PROVE  BuilderOK(builder')
<1>1. PICK b, c : b = builder /\ c = builder'
  OBVIOUS
<1>2. c = WithNodeType(b, type) /\ Len(b.node_types) < MaxNodeTypes + 1 /\ c.num_data_types <= MaxDataTypes
  BY <1>1 DEF BuilderAdd
<1>3. type \in AllNodeTypes
  BY DEF AllNodeTypes
<1>4. BuilderOK(b) /\ IsBuilder(b)
  BY <1>1 DEF BuilderOK
<1>5. /\ IsBuilder(c) /\ c.node_types = Append(b.node_types, type)
      /\ Collected(c) = Collected(b) \union ToSet(TypesOf(type))
  BY <1>2, <1>3, <1>4, WithNodeTypeAdds
<1>6. b.node_types \in Seq(AllNodeTypes)
  BY <1>4 DEF IsBuilder, Builders
<1>7. TypesMet(c) = TypesMet(b) \union ToSet(TypesOf(type))
  BY <1>3, <1>5, <1>6, AppendMeets
<1>8. Len(c.node_types) = Len(b.node_types) + 1 /\ DOMAIN c.node_types = 1 .. Len(b.node_types) + 1
  BY <1>5, <1>6
<1>9. Len(c.node_types) \in 1 .. MaxNodeTypes + 1
  BY <1>2, <1>6, <1>8, RegistryAssumption
<1>10. c.node_types[1] = Dummy
  <2>1. Len(b.node_types) \in 1 .. MaxNodeTypes + 1 /\ b.node_types[1] = Dummy
    BY <1>4 DEF BuilderOK
  <2> QED
    BY <1>5, <1>6, <2>1
<1>11. Collected(c) = TypesMet(c)
  BY <1>4, <1>5, <1>7 DEF BuilderOK
<1> QED
  BY <1>1, <1>2, <1>5, <1>9, <1>10, <1>11 DEF BuilderOK

-----------------------------------------------------------------------------
(* The registry numbers as many types as the builder has counted.          *)
LEMMA NumberedTypesAreCollected ==
    ASSUME HashOK, IsBuilder(builder)
    PROVE  /\ NumberedTypes \in Seq(Addresses)
           /\ Len(NumberedTypes) = builder.num_data_types
           /\ ToSet(NumberedTypes) = Collected(builder)
<1>1. PICK keys, n : keys = builder.data_types /\ n = HashSize[BuilderExp]
  OBVIOUS
<1>2. n \in Nat \ {0} /\ BuilderExp \in 0 .. HashBits
  BY <1>1, BuilderExpFits, HashSizes
<1>3. keys \in KeyArrays(BuilderExp) /\ builder.exp = BuilderExp
  BY <1>1 DEF IsBuilder, Builders
<1>4. /\ DOMAIN keys = 0 .. n - 1 /\ IsFiniteSet(Used(keys))
      /\ \A s \in 0 .. n - 1 : keys[s] \in Addresses \union {NULL}
  BY <1>1, <1>2, <1>3, FreeSlot DEF KeyArrays, Slots
<1>5. PICK seq : seq = [k \in 1 .. n |-> keys[k - 1]]
  OBVIOUS
<1>6. DOMAIN seq = 1 .. n /\ n \in Nat
  BY <1>2, <1>5
<1>7. PICK acc :
          /\ acc[0] = <<>> /\ \A k \in 1 .. n : acc[k] = WithUsed(acc[k - 1], seq[k])
          /\ UsedFold(<<>>, seq) = acc[n]
  <2>1. PICK acc : UsedRuns(acc, <<>>, seq, n)
    BY <1>6, UsedFolds
  <2> QED
    BY <2>1 DEF UsedRuns
<1>8. NumberedTypes = acc[n]
  <2>1. NumberedTypes = UsedFold(<<>>, [k \in 1 .. HashSize[builder.exp] |-> builder.data_types[k - 1]])
    BY DEF NumberedTypes, UsedFold
  <2>2. seq = [k \in 1 .. HashSize[builder.exp] |-> builder.data_types[k - 1]]
    BY <1>1, <1>3, <1>5
  <2> QED
    BY <1>7, <2>1, <2>2
<1>9. PICK below : below = [m \in 0 .. n |-> {s \in Used(keys) : s < m}]
  OBVIOUS
<1>10. PICK having : having = {m \in 0 .. n :
            /\ acc[m] \in Seq(Addresses) /\ Len(acc[m]) = Cardinality(below[m])
            /\ ToSet(acc[m]) = {keys[s] : s \in below[m]}}
  OBVIOUS
<1>11. 0 \in having
  <2>1. below[0] = {}
    BY <1>2, <1>4, <1>9 DEF Used
  <2>2. Cardinality({}) = 0 /\ ToSet(<<>>) = {} /\ <<>> \in Seq(Addresses) /\ Len(<<>>) = 0
    BY FS_EmptySet DEF ToSet
  <2>3. 0 \in 0 .. n
    BY <1>2
  <2> QED
    BY <1>7, <1>10, <2>1, <2>2, <2>3
<1>12. ASSUME NEW m \in 0 .. n, m # n, m \in having
       PROVE  m + 1 \in having
  <2>1. PICK next, old, new : next = m + 1 /\ old = acc[m] /\ new = acc[next]
    OBVIOUS
  <2>2. next \in 1 .. n /\ next \in 0 .. n /\ m \in 0 .. n - 1 /\ next - 1 = m
    BY <1>2, <1>12, <2>1
  <2>3. new = WithUsed(old, keys[m])
    BY <1>5, <1>7, <2>1, <2>2
  <2>4. /\ old \in Seq(Addresses) /\ Len(old) = Cardinality(below[m])
        /\ ToSet(old) = {keys[s] : s \in below[m]}
    BY <1>10, <1>12, <2>1
  <2>5. CASE keys[m] = NULL
    <3>1. new = old
      BY <2>3, <2>5 DEF WithUsed
    <3>2. below[next] = below[m]
      <4>1. ASSUME NEW s \in Used(keys)
            PROVE  s < next <=> s < m
        BY <1>4, <2>1, <2>2, <2>5 DEF Used
      <4> QED
        BY <1>9, <2>2, <4>1
    <3> QED
      BY <1>10, <2>1, <2>2, <2>4, <3>1, <3>2
  <2>6. CASE keys[m] # NULL
    <3>1. new = Append(old, keys[m]) /\ keys[m] \in Addresses
      BY <1>4, <2>2, <2>3, <2>6 DEF WithUsed
    <3>2. m \in Used(keys)
      BY <1>4, <2>2, <2>6 DEF Used
    <3>3. below[next] = below[m] \union {m} /\ m \notin below[m]
      <4>1. ASSUME NEW s \in Used(keys)
            PROVE  s < next <=> s < m \/ s = m
        BY <1>4, <2>1, <2>2 DEF Used
      <4>2. ~(m < m)
        BY <2>2
      <4> QED
        BY <1>9, <2>2, <3>2, <4>1, <4>2
    <3>4. Cardinality(below[next]) = Cardinality(below[m]) + 1
      <4>1. PICK set : set = below[m]
        OBVIOUS
      <4>2. set \subseteq Used(keys)
        BY <1>9, <4>1
      <4>3. IsFiniteSet(set)
        BY <1>4, <4>2, FS_Subset
      <4>4. m \notin set
        BY <3>3, <4>1
      <4>5. Cardinality(set \union {m}) = Cardinality(set) + 1
        BY <4>3, <4>4, FS_AddElement
      <4> QED
        BY <3>3, <4>1, <4>5
    <3>5. new \in Seq(Addresses) /\ Len(new) = Cardinality(below[next])
      BY <2>4, <3>1, <3>4
    <3>6. ToSet(new) = ToSet(old) \union {keys[m]}
      <4>1. PICK len, key : len = Len(old) /\ key = keys[m]
        OBVIOUS
      <4>2. len \in Nat /\ DOMAIN old = 1 .. len /\ DOMAIN new = 1 .. len + 1 /\ new[len + 1] = key
        BY <2>4, <3>1, <4>1
      <4>3. \A i \in 1 .. len : new[i] = old[i]
        BY <2>4, <3>1, <4>1
      <4>4. ToSet(old) = {old[i] : i \in 1 .. len} /\ ToSet(new) = {new[i] : i \in 1 .. len + 1}
        BY <4>2 DEF ToSet
      <4>5. 1 .. len + 1 = (1 .. len) \union {len + 1}
        BY <4>2
      <4> QED
        BY <4>1, <4>2, <4>3, <4>4, <4>5
    <3>7. {keys[s] : s \in below[next]} = {keys[s] : s \in below[m]} \union {keys[m]}
      BY <3>3
    <3> QED
      BY <1>10, <2>1, <2>2, <2>4, <3>5, <3>6, <3>7
  <2> QED
    BY <2>5, <2>6
<1>13. n \in having
  <2>1. HandsOn(having, n)
    BY <1>11, <1>12 DEF HandsOn
  <2> QED
    BY <1>6, <2>1, HandedOn
<1>14. below[n] = Used(keys)
  <2>1. \A s \in Used(keys) : s < n
    BY <1>2, <1>4 DEF Used
  <2>2. n \in 0 .. n
    BY <1>2
  <2> QED
    BY <1>9, <2>1, <2>2
<1>15. builder.num_data_types = Cardinality(Used(keys))
  BY <1>1 DEF IsBuilder
<1>16. Collected(builder) = {keys[s] : s \in Used(keys)}
  BY <1>1 DEF Collected
<1> QED
  BY <1>8, <1>10, <1>13, <1>14, <1>15, <1>16

LEMMA CollectedOnce ==
    ASSUME HashOK, BuilderOK(builder)
    PROVE  DataTypesAreCollectedOnce
<1>1. PICK keys : keys = builder.data_types
  OBVIOUS
<1>2. IsBuilder(builder) /\ Placed(keys, BuilderExp) /\ keys \in KeyArrays(BuilderExp)
  BY <1>1 DEF BuilderOK, IsBuilder, Builders
<1>3. IsFiniteSet(Used(keys)) /\ Used(keys) \subseteq DOMAIN keys
  BY <1>2, BuilderExpFits, FreeSlot DEF Used
<1>4. \A s, t \in Used(keys) : keys[s] = keys[t] => s = t
  BY <1>2, PlacedOnce
<1>5. \A slot, other \in DOMAIN keys : keys[slot] = keys[other] /\ slot # other => keys[slot] = NULL
  BY <1>4 DEF Used
<1>6. Collected(builder) = {keys[s] : s \in Used(keys)}
  BY <1>1 DEF Collected
<1>7. {keys[s] : s \in DOMAIN keys} \ {NULL} = Collected(builder)
  BY <1>6 DEF Used
<1>8. Cardinality(Collected(builder)) = Cardinality(Used(keys))
  <2>1. PICK f : f = [s \in Used(keys) |-> keys[s]]
    OBVIOUS
  <2>2. f \in Surjection(Used(keys), Collected(builder))
    BY <1>6, <2>1 DEF Surjection
  <2>3. f \in Injection(Used(keys), Collected(builder))
    BY <1>4, <1>6, <2>1 DEF Injection, IsInjective
  <2> QED
    BY <1>3, <2>2, <2>3, FS_Surjection
<1>9. builder.num_data_types = Cardinality(ToSet(NumberedTypes))
  BY <1>1, <1>2, <1>8, NumberedTypesAreCollected DEF IsBuilder
<1>10. Collected(builder) = UNION {ToSet(TypesOf(builder.node_types[k])) : k \in DOMAIN builder.node_types}
  BY DEF BuilderOK, TypesMet
<1> QED
  BY <1>1, <1>5, <1>7, <1>9, <1>10 DEF DataTypesAreCollectedOnce

-----------------------------------------------------------------------------
(* mem_layout.h: blocks lie one behind the other, each at its alignment.   *)
BlockType == [size : Nat, alignment : Nat]

LEMMA MultipleHasNoRest ==
    ASSUME NEW a \in Nat \ {0}, NEW q \in Int
    PROVE  (q * a) % a = 0
<1>1. PICK p, d, r : p = q * a /\ d = p \div a /\ r = p % a
  OBVIOUS
<1>2. p \in Int
  BY <1>1
<1>3. d \in Int /\ r \in 0 .. a - 1 /\ p = (a * d) + r
  BY <1>1, <1>2
<1>4. PICK z, m : z = q - d /\ m = a * z
  OBVIOUS
<1>5. z \in Int /\ m = r
  BY <1>1, <1>3, <1>4
<1>6. z > 0 => m >= a
  BY <1>4, <1>5
<1>7. z < 0 => m <= -a
  BY <1>4, <1>5
<1>8. z = 0
  BY <1>3, <1>5, <1>6, <1>7
<1>9. m = 0
  BY <1>4, <1>8
<1> QED
  BY <1>1, <1>5, <1>9

LEMMA AlignedUp ==
    ASSUME NEW offset \in Nat, NEW a \in Nat \ {0}
    PROVE  AlignUp(offset, a) \in Nat /\ offset <= AlignUp(offset, a) /\ AlignUp(offset, a) % a = 0
<1>1. PICK n, q, r : n = offset + a - 1 /\ q = n \div a /\ r = n % a
  OBVIOUS
<1>2. n \in Nat
  BY <1>1
<1>3. q \in Nat /\ r \in 0 .. a - 1 /\ n = (a * q) + r
  BY <1>1, <1>2
<1>4. PICK up : up = q * a
  OBVIOUS
<1>5. up \in Nat /\ n = up + r
  BY <1>3, <1>4
<1>6. offset <= up
  BY <1>1, <1>3, <1>5
<1>7. AlignUp(offset, a) = up
  BY <1>1, <1>4 DEF AlignUp
<1>8. up % a = 0
  BY <1>3, <1>4, MultipleHasNoRest
<1> QED
  BY <1>5, <1>6, <1>7, <1>8

LEMMA AlignedAtStart ==
    ASSUME NEW a \in Nat
    PROVE  AlignUp(0, a) = 0
<1>1. CASE a = 0
  BY <1>1 DEF AlignUp
<1>2. CASE a # 0
  <2>1. (0 + a - 1) \div a = 0
    BY <1>2
  <2> QED
    BY <1>2, <2>1 DEF AlignUp
<1> QED
  BY <1>1, <1>2

(* The layout of the first m blocks.                                       *)
FitsFirst(blocks, offsets, size, m) ==
    \A i \in 1 .. m :
        /\ blocks[i].alignment # 0 => offsets[i] % blocks[i].alignment = 0
        /\ offsets[i] + blocks[i].size <= size
        /\ \A j \in 1 .. i - 1 : offsets[j] + blocks[j].size <= offsets[i]

LaidOut(layout, blocks, m) ==
    /\ layout \in [offsets : Seq(Nat), size : Nat] /\ Len(layout.offsets) = m
    /\ m = 0 => layout.size = 0
    /\ m # 0 => layout.offsets[1] = 0
    /\ FitsFirst(blocks, layout.offsets, layout.size, m)

LEMMA ReserveLaysOut ==
    ASSUME NEW blocks, NEW layout, NEW m \in Nat, LaidOut(layout, blocks, m),
           \A i \in 1 .. m + 1 : blocks[i] \in BlockType,
           m = 0 \/ blocks[m + 1].alignment # 0
    PROVE  LaidOut(Reserve(layout, blocks[m + 1]), blocks, m + 1)
<1>1. PICK block, next, offset, old, size, end, new :
          /\ block = blocks[m + 1] /\ next = m + 1 /\ old = layout.offsets /\ size = layout.size
          /\ offset = AlignUp(size, block.alignment) /\ end = offset + block.size
          /\ new = Append(old, offset)
  OBVIOUS
<1>2. /\ next \in Nat \ {0} /\ block.size \in Nat /\ block.alignment \in Nat
      /\ \A i \in 1 .. next : blocks[i].size \in Nat
  BY <1>1 DEF BlockType
<1>3. old \in Seq(Nat) /\ size \in Nat /\ Len(old) = m
  BY <1>1 DEF LaidOut
<1>4. /\ offset \in Nat /\ size <= offset
      /\ block.alignment # 0 => offset % block.alignment = 0
      /\ m = 0 => offset = 0
  <2>1. CASE m = 0
    <3>1. size = 0
      BY <1>1, <2>1 DEF LaidOut
    <3>2. offset = 0
      BY <1>1, <1>2, <3>1, AlignedAtStart
    <3>3. block.alignment # 0 => 0 % block.alignment = 0
      BY <1>2
    <3> QED
      BY <3>1, <3>2, <3>3
  <2>2. CASE m # 0
    <3>1. PICK a : a = block.alignment
      OBVIOUS
    <3>2. a \in Nat \ {0}
      BY <1>1, <1>2, <2>2, <3>1
    <3> QED
      BY <1>1, <1>3, <2>2, <3>1, <3>2, AlignedUp
  <2> QED
    BY <2>1, <2>2
<1>5. Reserve(layout, block) = [offsets |-> new, size |-> end]
  BY <1>1 DEF Reserve
<1>6. end \in Nat /\ offset <= end /\ size <= end /\ end = offset + block.size
  BY <1>1, <1>2, <1>3, <1>4, SMTT(60)
<1>7. /\ new \in Seq(Nat) /\ Len(new) = next /\ new[next] = offset
      /\ \A i \in 1 .. m : new[i] = old[i] /\ old[i] \in Nat
  <2>1. new \in Seq(Nat) /\ Len(new) = m + 1
    BY <1>1, <1>3, <1>4
  <2>2. m + 1 = Len(old) + 1 /\ new[Len(old) + 1] = offset
    BY <1>1, <1>3, <1>4
  <2>3. \A i \in 1 .. m : new[i] = old[i] /\ old[i] \in Nat
    BY <1>1, <1>3
  <2> QED
    BY <1>1, <2>1, <2>2, <2>3
<1>8. new[1] = 0
  <2>1. CASE m = 0
    BY <1>1, <1>4, <1>7, <2>1
  <2>2. CASE m # 0
    BY <1>1, <1>7, <2>2 DEF LaidOut
  <2> QED
    BY <2>1, <2>2
<1>9. FitsFirst(blocks, old, size, m)
  BY <1>1 DEF LaidOut
<1>10. ASSUME NEW i \in 1 .. next
       PROVE  /\ blocks[i].alignment # 0 => new[i] % blocks[i].alignment = 0
              /\ new[i] + blocks[i].size <= end
              /\ \A j \in 1 .. i - 1 : new[j] + blocks[j].size <= new[i]
  <2>1. CASE i = next
    <3>1. new[i] = offset /\ blocks[i] = block
      BY <1>1, <1>7, <2>1
    <3>2. ASSUME NEW j \in 1 .. i - 1
          PROVE  new[j] + blocks[j].size <= new[i]
      <4>1. j \in 1 .. m
        BY <1>1, <2>1
      <4>2. old[j] + blocks[j].size <= size
        BY <1>9, <4>1 DEF FitsFirst
      <4>3. new[j] = old[j]
        BY <1>7, <4>1
      <4>4. old[j] \in Nat /\ blocks[j].size \in Nat
        <5>1. j \in 1 .. next
          BY <1>1, <4>1
        <5> QED
          BY <1>2, <1>7, <4>1, <5>1
      <4>5. old[j] + blocks[j].size <= offset
        BY <1>3, <1>4, <4>2, <4>4, SMTT(60)
      <4> QED
        BY <3>1, <4>3, <4>5
    <3>3. new[i] + blocks[i].size <= end
      BY <1>6, <3>1
    <3> QED
      BY <1>4, <3>1, <3>2, <3>3
  <2>2. CASE i # next
    <3>1. i \in 1 .. m /\ new[i] = old[i]
      BY <1>1, <1>7, <2>2
    <3>2. /\ blocks[i].alignment # 0 => old[i] % blocks[i].alignment = 0
          /\ old[i] + blocks[i].size <= size
          /\ \A j \in 1 .. i - 1 : old[j] + blocks[j].size <= old[i]
      BY <1>9, <3>1 DEF FitsFirst
    <3>3. \A j \in 1 .. i - 1 : new[j] = old[j]
      BY <1>7, <3>1
    <3>4. old[i] + blocks[i].size <= end
      <4>1. old[i] \in Nat /\ blocks[i].size \in Nat
        BY <1>2, <1>7, <3>1
      <4> QED
        BY <1>3, <1>6, <3>2, <4>1, SMTT(60)
    <3> QED
      BY <3>1, <3>2, <3>3, <3>4
  <2> QED
    BY <2>1, <2>2
<1>11. FitsFirst(blocks, new, end, next)
  BY <1>10 DEF FitsFirst
<1> QED
  BY <1>1, <1>2, <1>5, <1>6, <1>7, <1>8, <1>11 DEF LaidOut

LEMMA LayoutFits ==
    ASSUME NEW n \in Nat \ {0}, NEW blocks, DOMAIN blocks = 1 .. n,
           \A i \in 1 .. n : blocks[i] \in BlockType /\ (i # 1 => blocks[i].alignment # 0)
    PROVE  LaidOut(Layout(blocks), blocks, n)
<1>1. PICK base : base = [offsets |-> <<>>, size |-> 0]
  OBVIOUS
<1>2. PICK acc :
          /\ acc[0] = base /\ \A k \in 1 .. n : acc[k] = Reserve(acc[k - 1], blocks[k])
          /\ ReserveFold(base, blocks) = acc[n]
  <2>1. PICK acc : ReserveRuns(acc, base, blocks, n)
    BY ReserveFolds
  <2> QED
    BY <2>1 DEF ReserveRuns
<1>3. Layout(blocks) = acc[n]
  BY <1>1, <1>2 DEF Layout, ReserveFold
<1>4. PICK having : having = {m \in Nat : LaidOut(acc[m], blocks, m)}
  OBVIOUS
<1>5. 0 \in having
  <2>1. base \in [offsets : Seq(Nat), size : Nat] /\ Len(base.offsets) = 0 /\ base.size = 0
    BY <1>1
  <2>2. FitsFirst(blocks, base.offsets, base.size, 0)
    BY DEF FitsFirst
  <2> QED
    BY <1>2, <1>4, <2>1, <2>2 DEF LaidOut
<1>6. ASSUME NEW m \in 0 .. n, m # n, m \in having
      PROVE  m + 1 \in having
  <2>1. PICK next : next = m + 1
    OBVIOUS
  <2>2. m \in Nat /\ next \in 1 .. n /\ next \in Nat /\ next - 1 = m
    BY <1>6, <2>1
  <2>3. acc[next] = Reserve(acc[m], blocks[next])
    BY <1>2, <2>2
  <2>4. LaidOut(acc[m], blocks, m)
    BY <1>4, <1>6
  <2>5. \A i \in 1 .. m + 1 : blocks[i] \in BlockType
    BY <2>1, <2>2
  <2>6. m = 0 \/ blocks[m + 1].alignment # 0
    BY <2>1, <2>2
  <2>7. LaidOut(Reserve(acc[m], blocks[m + 1]), blocks, m + 1)
    BY <2>2, <2>4, <2>5, <2>6, ReserveLaysOut
  <2>8. LaidOut(acc[next], blocks, next)
    BY <2>1, <2>3, <2>7
  <2> QED
    BY <1>4, <2>1, <2>2, <2>8
<1>7. HandsOn(having, n) /\ n \in Nat
  BY <1>5, <1>6 DEF HandsOn
<1>8. n \in having
  BY <1>7, HandedOn
<1> QED
  BY <1>3, <1>4, <1>8

-----------------------------------------------------------------------------
Aligned == [size : Nat, alignment : Nat \ {0}]

LEMMA Concatenated ==
    ASSUME NEW S, NEW a \in Seq(S), NEW b \in Seq(S)
    PROVE  a \o b \in Seq(S) /\ Len(a \o b) = Len(a) + Len(b) /\ Len(a) \in Nat /\ Len(b) \in Nat
OBVIOUS

LEMMA BlocksOfType ==
    ASSUME NEW type \in AllNodeTypes
    PROVE  /\ NodeBlocks(type) \in Seq(Aligned) /\ Len(NodeBlocks(type)) = Len(TypesOf(type)) + 1
           /\ \E rest \in Seq(Aligned) : PipelineBlocks(type) = <<NodeLayout[type]>> \o rest
<1>1. ASSUME NEW types \in Seq(DataTypes)
      PROVE  [j \in DOMAIN types |-> DataLayout[types[j]]] \in Seq(Aligned)
             /\ Len([j \in DOMAIN types |-> DataLayout[types[j]]]) = Len(types)
  <2>1. PICK n, blocks : n = Len(types) /\ blocks = [j \in DOMAIN types |-> DataLayout[types[j]]]
    OBVIOUS
  <2>2. n \in Nat /\ DOMAIN types = 1 .. n /\ \A j \in 1 .. n : types[j] \in DataTypes
    BY <2>1
  <2>3. \A j \in 1 .. n : DataLayout[types[j]] \in Aligned
    BY <2>2, RegistryAssumption DEF Aligned
  <2>4. blocks \in [1 .. n -> Aligned]
    BY <2>1, <2>2, <2>3
  <2> QED
    BY <2>1, <2>2, <2>4
<1>2. ASSUME NEW pins \in Seq(DataTypes \X BOOLEAN), NEW block \in Aligned
      PROVE  [j \in DOMAIN pins |-> block] \in Seq(Aligned) /\ Len([j \in DOMAIN pins |-> block]) = Len(pins)
  <2>1. PICK n, blocks : n = Len(pins) /\ blocks = [j \in DOMAIN pins |-> block]
    OBVIOUS
  <2>2. n \in Nat /\ DOMAIN pins = 1 .. n
    BY <2>1
  <2>3. blocks \in [1 .. n -> Aligned]
    BY <2>1, <2>2
  <2> QED
    BY <2>1, <2>2, <2>3
<1>3. /\ Attributes[type] \in Seq(DataTypes) /\ InputPins[type] \in Seq(DataTypes \X BOOLEAN)
      /\ OutputPins[type] \in Seq(DataTypes \X BOOLEAN)
  BY RegistryAssumption
<1>4. InputBlock \in Aligned /\ OutputBlock \in Aligned /\ NodeHeader \in Aligned
  BY DEF InputBlock, OutputBlock, NodeHeader, Block, Aligned
<1>5. PICK attributes, inputs, outputs :
          /\ attributes = [j \in DOMAIN Attributes[type] |-> DataLayout[Attributes[type][j]]]
          /\ inputs = [j \in DOMAIN InputPins[type] |-> InputBlock]
          /\ outputs = [j \in DOMAIN OutputPins[type] |-> OutputBlock]
  OBVIOUS
<1>6. /\ attributes \in Seq(Aligned) /\ Len(attributes) = Len(Attributes[type])
      /\ inputs \in Seq(Aligned) /\ Len(inputs) = Len(InputPins[type])
      /\ outputs \in Seq(Aligned) /\ Len(outputs) = Len(OutputPins[type])
  BY <1>1, <1>2, <1>3, <1>4, <1>5
<1>7. NodeBlocks(type) = <<NodeHeader>> \o attributes \o inputs \o outputs
  BY <1>5 DEF NodeBlocks
<1>8. /\ NodeBlocks(type) \in Seq(Aligned)
      /\ Len(NodeBlocks(type)) = 1 + Len(attributes) + Len(inputs) + Len(outputs)
  <2>1. PICK first : first = <<NodeHeader>>
    OBVIOUS
  <2>2. first \in Seq(Aligned) /\ Len(first) = 1
    BY <1>4, <2>1
  <2>3. first \o attributes \in Seq(Aligned) /\ Len(first \o attributes) = 1 + Len(attributes)
    BY <1>6, <2>2, Concatenated, ZenonT(60)
  <2>4. PICK second, third, a, b, c :
            /\ second = first \o attributes /\ third = second \o inputs
            /\ a = Len(attributes) /\ b = Len(inputs) /\ c = Len(outputs)
    OBVIOUS
  <2>5. second \in Seq(Aligned) /\ Len(second) = 1 + a /\ a \in Nat /\ b \in Nat /\ c \in Nat
    BY <1>6, <2>3, <2>4, SMTT(60)
  <2>6. third \in Seq(Aligned) /\ Len(third) = Len(second) + Len(inputs)
    BY <1>6, <2>4, <2>5, Concatenated
  <2>7. third \o outputs \in Seq(Aligned) /\ Len(third \o outputs) = Len(third) + Len(outputs)
    BY <1>6, <2>6, Concatenated
  <2>8. Len(third \o outputs) = 1 + a + b + c
    BY <2>4, <2>5, <2>6, <2>7
  <2> QED
    BY <1>7, <2>1, <2>4, <2>7, <2>8
<1>9. Len(TypesOf(type)) = Len(Attributes[type]) + Len(InputPins[type]) + Len(OutputPins[type])
  <2>1. PICK a, b, c : a = Attributes[type] /\ b = PinTypes(InputPins[type]) /\ c = PinTypes(OutputPins[type])
    OBVIOUS
  <2>2. /\ a \in Seq(DataTypes) /\ b \in Seq(DataTypes) /\ c \in Seq(DataTypes)
        /\ Len(b) = Len(InputPins[type]) /\ Len(c) = Len(OutputPins[type])
    BY <2>1, TypesOfType
  <2>3. PICK d : d = a \o b
    OBVIOUS
  <2>4. d \in Seq(DataTypes) /\ Len(d) = Len(a) + Len(b)
    BY <2>2, <2>3, Concatenated
  <2>5. Len(d \o c) = Len(d) + Len(c)
    BY <2>2, <2>4, Concatenated
  <2>6. TypesOf(type) = d \o c
    BY <2>1, <2>3 DEF TypesOf
  <2> QED
    BY <2>1, <2>2, <2>4, <2>5, <2>6
<1>10. Len(NodeBlocks(type)) = Len(TypesOf(type)) + 1
  <2>1. PICK i, j, k : i = Len(Attributes[type]) /\ j = Len(InputPins[type]) /\ k = Len(OutputPins[type])
    OBVIOUS
  <2>2. i \in Nat /\ j \in Nat /\ k \in Nat
    BY <1>3, <2>1
  <2>3. Len(NodeBlocks(type)) = 1 + i + j + k
    BY <1>6, <1>8, <2>1
  <2>4. Len(TypesOf(type)) = i + j + k
    BY <1>9, <2>1
  <2> QED
    BY <2>2, <2>3, <2>4
<1>11. PICK types : types = PinTypes(OutputPins[type])
  OBVIOUS
<1>12. types \in Seq(DataTypes) /\ DOMAIN types = DOMAIN OutputPins[type]
       /\ \A j \in DOMAIN types : types[j] = OutputPins[type][j][1]
  BY <1>11, TypesOfType DEF PinTypes
<1>13. [j \in DOMAIN types |-> DataLayout[types[j]]] \in Seq(Aligned)
  BY <1>1, <1>12
<1>14. [j \in DOMAIN types |-> DataLayout[types[j]]]
          = [j \in DOMAIN OutputPins[type] |-> DataLayout[OutputPins[type][j][1]]]
  BY <1>12
<1> QED
  BY <1>8, <1>10, <1>13, <1>14 DEF PipelineBlocks

LEMMA LaidOutFits ==
    ASSUME NEW n \in Nat, NEW blocks, DOMAIN blocks = 1 .. n,
           NEW layout, LaidOut(layout, blocks, n),
           NEW offsets, \A i \in 1 .. n : offsets[i] = layout.offsets[i]
    PROVE  Fits(blocks, offsets, layout.size)
<1>1. PICK old, size : old = layout.offsets /\ size = layout.size
  OBVIOUS
<1>2. FitsFirst(blocks, old, size, n)
  BY <1>1 DEF LaidOut
<1>3. ASSUME NEW i \in 1 .. n
      PROVE  /\ blocks[i].alignment # 0 => offsets[i] % blocks[i].alignment = 0
             /\ offsets[i] + blocks[i].size <= size
             /\ \A j \in 1 .. i - 1 : offsets[j] + blocks[j].size <= offsets[i]
  <2>1. offsets[i] = old[i] /\ \A j \in 1 .. i - 1 : offsets[j] = old[j]
    BY <1>1
  <2> QED
    BY <1>2, <2>1 DEF FitsFirst
<1> QED
  BY <1>1, <1>3 DEF Fits

(* hgraph_node_type_info_t of any type, whatever the table of data types.  *)
LEMMA NodeInfoFits ==
    ASSUME NEW type \in AllNodeTypes, NEW table, NEW info, info = NodeInfo(type, table)
    PROVE  /\ info.definition = type /\ info.size \in Nat
           /\ DOMAIN info.vars = DOMAIN TypesOf(type)
           /\ \A j \in DOMAIN info.vars : info.vars[j].type = Lookup(table, TypesOf(type)[j])
           /\ Fits(NodeBlocks(type), <<0>> \o [j \in DOMAIN info.vars |-> info.vars[j].offset], info.size)
           /\ Fits(PipelineBlocks(type), <<0>> \o info.output_buffers, info.pipeline_data_size)
<1>1. PICK blocks, m, node : blocks = NodeBlocks(type) /\ m = Len(TypesOf(type)) /\ node = Layout(blocks)
  OBVIOUS
<1>2. m \in Nat /\ DOMAIN TypesOf(type) = 1 .. m
  BY <1>1, TypesOfType
<1>3. PICK n : n = m + 1
  OBVIOUS
<1>4. /\ n \in Nat \ {0} /\ blocks \in Seq(Aligned) /\ DOMAIN blocks = 1 .. n
      /\ \A i \in 1 .. n : blocks[i] \in Aligned
  <2>1. blocks \in Seq(Aligned) /\ Len(blocks) = n
    BY <1>1, <1>3, BlocksOfType
  <2> QED
    BY <1>2, <1>3, <2>1
<1>5. LaidOut(node, blocks, n)
  <2>1. \A i \in 1 .. n : blocks[i] \in BlockType /\ blocks[i].alignment # 0
    BY <1>4 DEF Aligned, BlockType
  <2> QED
    BY <1>1, <1>4, <2>1, LayoutFits
<1>6. node.offsets \in Seq(Nat) /\ Len(node.offsets) = n /\ node.offsets[1] = 0 /\ node.size \in Nat
  BY <1>4, <1>5 DEF LaidOut
<1>7. PICK data, others, rest :
          /\ others = PipelineBlocks(type) /\ data = Layout(others)
          /\ rest \in Seq(Aligned) /\ others = <<NodeLayout[type]>> \o rest
  BY BlocksOfType
<1>8. PICK l : l = Len(rest) + 1
  OBVIOUS
<1>9. /\ l \in Nat \ {0} /\ DOMAIN others = 1 .. l
      /\ \A i \in 1 .. l : others[i] \in BlockType /\ (i # 1 => others[i].alignment # 0)
  <2>1. NodeLayout[type] \in BlockType
    BY RegistryAssumption DEF BlockType
  <2>2. l \in Nat \ {0} /\ DOMAIN others = 1 .. l
    BY <1>7, <1>8
  <2>3. others[1] = NodeLayout[type] /\ \A i \in 2 .. l : others[i] = rest[i - 1]
    BY <1>7, <1>8
  <2>4. ASSUME NEW i \in 2 .. l
        PROVE  others[i] \in BlockType /\ others[i].alignment # 0
    <3>1. i - 1 \in 1 .. Len(rest)
      BY <1>7, <1>8
    <3>2. rest[i - 1] \in Aligned
      BY <1>7, <3>1
    <3> QED
      BY <2>3, <3>2 DEF Aligned, BlockType
  <2>5. \A i \in 1 .. l : i = 1 \/ i \in 2 .. l
    BY <2>2
  <2> QED
    BY <2>1, <2>2, <2>3, <2>4, <2>5
<1>10. LaidOut(data, others, l)
  BY <1>7, <1>9, LayoutFits
<1>11. data.offsets \in Seq(Nat) /\ Len(data.offsets) = l /\ data.offsets[1] = 0
  BY <1>9, <1>10 DEF LaidOut
<1>12. PICK vars : vars = [j \in DOMAIN TypesOf(type) |->
                              [type |-> Lookup(table, TypesOf(type)[j]), offset |-> node.offsets[j + 1]]]
  OBVIOUS
<1>13. /\ info.definition = type /\ info.vars = vars /\ info.size = node.size
       /\ info.output_buffers = Tail(data.offsets) /\ info.pipeline_data_size = data.size
  BY <1>1, <1>7, <1>12 DEF NodeInfo
<1>14. PICK behind : behind = [j \in DOMAIN vars |-> vars[j].offset]
  OBVIOUS
<1>15. DOMAIN behind = 1 .. m /\ \A j \in 1 .. m : behind[j] = node.offsets[j + 1]
  BY <1>2, <1>12, <1>14
<1>16. behind \in Seq(Nat) /\ Len(behind) = m
  <2>1. \A j \in 1 .. m : node.offsets[j + 1] \in Nat
    BY <1>2, <1>3, <1>6, SMTT(60)
  <2>2. behind \in [1 .. m -> Nat]
    BY <1>2, <1>12, <1>14, <1>15, <2>1
  <2> QED
    BY <1>2, <2>2
<1>17. ASSUME NEW i \in 1 .. n
       PROVE  (<<0>> \o behind)[i] = node.offsets[i]
  <2>1. CASE i = 1
    BY <1>6, <1>16, <2>1
  <2>2. CASE i # 1
    <3>1. PICK j : j = i - 1
      OBVIOUS
    <3>2. j \in 1 .. m /\ i = j + 1
      BY <1>2, <1>3, <2>2, <3>1
    <3>3. (<<0>> \o behind)[j + 1] = behind[j]
      BY <1>16, <3>2
    <3> QED
      BY <1>15, <3>2, <3>3
  <2> QED
    BY <2>1, <2>2
<1>18. Fits(blocks, <<0>> \o behind, node.size)
  BY <1>4, <1>5, <1>17, LaidOutFits
<1>19. PICK tail : tail = Tail(data.offsets)
  OBVIOUS
<1>20. /\ tail \in Seq(Nat) /\ Len(tail) = l - 1
       /\ \A j \in 1 .. l - 1 : tail[j] = data.offsets[j + 1]
  BY <1>9, <1>11, <1>19
<1>21. ASSUME NEW i \in 1 .. l
       PROVE  (<<0>> \o tail)[i] = data.offsets[i]
  <2>1. CASE i = 1
    BY <1>11, <1>20, <2>1
  <2>2. CASE i # 1
    <3>1. PICK j : j = i - 1
      OBVIOUS
    <3>2. j \in 1 .. l - 1 /\ i = j + 1
      BY <1>9, <2>2, <3>1
    <3>3. (<<0>> \o tail)[j + 1] = tail[j]
      BY <1>9, <1>20, <3>2
    <3> QED
      BY <1>20, <3>2, <3>3
  <2> QED
    BY <2>1, <2>2
<1>22. Fits(others, <<0>> \o tail, data.size)
  BY <1>9, <1>10, <1>21, LaidOutFits
<1>23. DOMAIN vars = DOMAIN TypesOf(type) /\ \A j \in DOMAIN vars : vars[j].type = Lookup(table, TypesOf(type)[j])
  BY <1>12
<1> QED
  BY <1>1, <1>6, <1>7, <1>13, <1>14, <1>18, <1>19, <1>22, <1>23

-----------------------------------------------------------------------------
LEMMA MaxOfMany ==
    ASSUME NEW n \in Nat \ {0}, NEW sizes, \A k \in 1 .. n : sizes[k] \in Nat,
           NEW all, all = {sizes[k] : k \in 1 .. n}
    PROVE  \A k \in 1 .. n : sizes[k] <= Max(all)
<1>1. PICK having : having = {m \in Nat : m = 0 \/ \E k \in 1 .. m : \A j \in 1 .. m : sizes[j] <= sizes[k]}
  OBVIOUS
<1>2. ASSUME NEW m \in 0 .. n, m # n, m \in having
      PROVE  m + 1 \in having
  <2>1. PICK next : next = m + 1
    OBVIOUS
  <2>2. /\ next \in Nat /\ next \in 1 .. next /\ next \in 1 .. n /\ m \in Nat
        /\ \A j \in 1 .. next : j = next \/ j \in 1 .. m
        /\ \A j \in 1 .. m : j \in 1 .. next /\ j \in 1 .. n
    BY <1>2, <2>1
  <2>3. CASE m = 0
    <3>1. \A j \in 1 .. next : j = next
      BY <2>2, <2>3
    <3>2. sizes[next] <= sizes[next]
      BY <2>2
    <3>3. \A j \in 1 .. next : sizes[j] <= sizes[next]
      BY <3>1, <3>2
    <3> QED
      BY <1>1, <2>1, <2>2, <3>3
  <2>4. CASE m # 0
    <3>1. PICK k \in 1 .. m : \A j \in 1 .. m : sizes[j] <= sizes[k]
      BY <1>1, <1>2, <2>4
    <3>2. sizes[k] \in Nat /\ sizes[next] \in Nat
      BY <2>2
    <3>3. CASE sizes[next] <= sizes[k]
      <4>1. \A j \in 1 .. next : sizes[j] <= sizes[k]
        BY <2>2, <3>1, <3>3
      <4> QED
        BY <1>1, <2>1, <2>2, <4>1
    <3>4. CASE ~(sizes[next] <= sizes[k])
      <4>1. ASSUME NEW j \in 1 .. next
            PROVE  sizes[j] <= sizes[next]
        <5>1. sizes[j] \in Nat /\ (j # next => sizes[j] <= sizes[k])
          BY <2>2, <3>1
        <5> QED
          BY <3>2, <3>4, <5>1
      <4> QED
        BY <1>1, <2>1, <2>2, <4>1
    <3> QED
      BY <3>3, <3>4
  <2> QED
    BY <2>3, <2>4
<1>3. HandsOn(having, n)
  BY <1>1, <1>2 DEF HandsOn
<1>4. n \in having
  BY <1>3, HandedOn
<1>5. PICK k \in 1 .. n : \A j \in 1 .. n : sizes[j] <= sizes[k]
  BY <1>1, <1>4
<1>6. \E x \in all : \A y \in all : x >= y
  <2>1. \A j \in 1 .. n : sizes[k] >= sizes[j]
    <3>1. ASSUME NEW j \in 1 .. n
          PROVE  sizes[k] >= sizes[j]
      <4>1. sizes[k] \in Nat /\ sizes[j] \in Nat /\ sizes[j] <= sizes[k]
        BY <1>5
      <4> QED
        BY <4>1
    <3> QED
      BY <3>1
  <2> QED
    BY <2>1
<1>7. Max(all) \in all /\ \A y \in all : Max(all) >= y
  BY <1>6 DEF Max
<1>8. Max(all) \in Nat
  BY <1>7
<1> QED
  BY <1>7, <1>8

(* What the three invariants of a registry say of one.                     *)
IterateOf(r) == [k \in 1 .. Len(r.node_types) - 1 |-> r.node_types[k + 1].definition]

LookupsEndIn(table, iterated) ==
    \A type \in NodeTypes :
        /\ Hits(table.keys, table.exp, type) # {}
        /\ (Lookup(table, type) = Invalid) = (type \notin ToSet(iterated))

DefinitionsFoundIn(r) ==
    \A k \in DOMAIN r.node_types :
        LET info  == r.node_types[k]
            index == Lookup(r.node_type_by_definition, info.definition)
        IN  /\ index # Invalid
            /\ r.node_types[index + 1].definition = info.definition
            /\ \A j \in DOMAIN info.vars :
                  /\ info.vars[j].type # Invalid
                  /\ r.data_types[info.vars[j].type + 1] = TypesOf(info.definition)[j]

LaidOutIn(r) ==
    \A k \in DOMAIN r.node_types :
        LET info == r.node_types[k]
            node == NodeBlocks(info.definition)
            data == PipelineBlocks(info.definition)
        IN  /\ Fits(node, <<0>> \o [j \in DOMAIN info.vars |-> info.vars[j].offset], info.size)
            /\ Fits(data, <<0>> \o info.output_buffers, info.pipeline_data_size)
            /\ info.size <= r.max_node_size

RegistryOK(r) ==
    /\ LookupsEndIn(r.node_type_by_definition, IterateOf(r))
    /\ DefinitionsFoundIn(r)
    /\ LaidOutIn(r)

(* The tables of the registry that is built.                               *)
Tabled(r, dataTable, dataExp, nodeExp) ==
    /\ Holds(dataTable, dataExp, NumberedTypes, Len(NumberedTypes)) /\ dataExp \in 0 .. HashBits
    /\ Holds(r.node_type_by_definition, nodeExp, builder.node_types, Len(builder.node_types))
    /\ nodeExp \in 0 .. HashBits /\ Len(builder.node_types) < HashSize[nodeExp]
    /\ r.data_types = NumberedTypes
    /\ r.node_types = [k \in 1 .. Len(builder.node_types) |-> NodeInfo(builder.node_types[k], dataTable)]
    /\ r.max_node_size = Max({r.node_types[k].size : k \in DOMAIN r.node_types})

LEMMA NodeTypesOfBuilder ==
    ASSUME BuilderOK(builder)
    PROVE  /\ builder.node_types \in Seq(AllNodeTypes) /\ Len(builder.node_types) \in Nat \ {0}
           /\ DOMAIN builder.node_types = 1 .. Len(builder.node_types)
           /\ builder.node_types \in [1 .. Len(builder.node_types) -> Addresses]
           /\ Len(builder.node_types) < HashSize[HashBits]
<1>1. PICK types, n : types = builder.node_types /\ n = Len(types)
  OBVIOUS
<1>2. types \in Seq(AllNodeTypes) /\ n \in 1 .. MaxNodeTypes + 1
  BY <1>1 DEF BuilderOK, IsBuilder, Builders
<1>3. n \in Nat \ {0} /\ DOMAIN types = 1 .. n /\ types \in [1 .. n -> AllNodeTypes]
  BY <1>1, <1>2
<1>4. AllNodeTypes \subseteq Addresses
  BY DEF Addresses
<1>5. types \in [1 .. n -> Addresses]
  BY <1>3, <1>4
<1>6. n < HashSize[HashBits]
  <2>1. HashSize[HashBits] \in Nat
    BY HashSizes, RegistryAssumption
  <2> QED
    BY <1>2, <2>1, RegistryAssumption
<1> QED
  BY <1>1, <1>2, <1>3, <1>5, <1>6

LEMMA RegistryInitTables ==
    ASSUME HashOK, BuilderOK(builder), RegistryInit
    PROVE  \E dataTable, dataExp, nodeExp : Tabled(registry', dataTable, dataExp, nodeExp)
<1>1. PICK types, n, definitions, m :
          /\ types = builder.node_types /\ n = Len(builder.node_types)
          /\ definitions = NumberedTypes /\ m = Len(NumberedTypes)
  OBVIOUS
<1>2. /\ n \in Nat \ {0} /\ DOMAIN types = 1 .. n /\ types \in [1 .. n -> Addresses]
      /\ n < HashSize[HashBits]
  BY <1>1, NodeTypesOfBuilder
<1>3. definitions \in Seq(Addresses) /\ m = builder.num_data_types /\ m <= MaxDataTypes
  BY <1>1, NumberedTypesAreCollected DEF BuilderOK
<1>4. m \in Nat /\ definitions \in [1 .. m -> Addresses]
  <2>1. m = Len(definitions)
    BY <1>1
  <2>2. definitions \in [1 .. Len(definitions) -> Addresses] /\ Len(definitions) \in Nat
    BY <1>3
  <2> QED
    BY <2>1, <2>2
<1>5. m < HashSize[HashBits]
  <2>1. HashSize[HashBits] \in Nat
    BY HashSizes, RegistryAssumption
  <2> QED
    BY <1>3, <1>4, <2>1, RegistryAssumption
<1>6. PICK dataExp \in Exps(builder.num_data_types) : registry' =
          LET dataTable == TableOf(NumberedTypes, dataExp)
              infos == [k \in DOMAIN builder.node_types |-> NodeInfo(builder.node_types[k], dataTable)]
          IN  [data_types              |-> NumberedTypes,
               node_types              |-> infos,
               data_type_by_definition |-> dataTable,
               node_type_by_definition |->
                   TableOf(builder.node_types, HashExp(Len(builder.node_types))),
               max_node_size           |-> Max({infos[k].size : k \in DOMAIN infos}),
               max_edges_per_node      |->
                   Max({Len(InputPins[infos[k].definition]) : k \in DOMAIN infos})]
  BY DEF RegistryInit
<1>7. dataExp \in 0 .. HashBits /\ m < HashSize[dataExp]
  BY <1>3, <1>4, <1>5, <1>6, ExpsAreLargeEnough
<1>8. PICK nodeExp, dataTable, nodeTable :
          /\ nodeExp = HashExp(n) /\ dataTable = TableOf(definitions, dataExp)
          /\ nodeTable = TableOf(types, nodeExp)
  OBVIOUS
<1>9. nodeExp \in 0 .. HashBits /\ n < HashSize[nodeExp]
  BY <1>2, <1>8, ExpsAreLargeEnough
<1>10. Holds(dataTable, dataExp, definitions, m)
  BY <1>4, <1>7, <1>8, TableOfHolds
<1>11. Holds(nodeTable, nodeExp, types, n)
  BY <1>2, <1>8, <1>9, TableOfHolds
<1>12. PICK r, infos : r = registry' /\ infos = [k \in 1 .. n |-> NodeInfo(types[k], dataTable)]
  OBVIOUS
<1>13. /\ r.data_types = definitions /\ r.node_types = infos
       /\ r.node_type_by_definition = nodeTable
       /\ r.max_node_size = Max({infos[k].size : k \in DOMAIN infos})
  BY <1>1, <1>2, <1>6, <1>8, <1>12
<1>14. Tabled(r, dataTable, dataExp, nodeExp)
  BY <1>1, <1>7, <1>9, <1>10, <1>11, <1>12, <1>13 DEF Tabled
<1> QED
  BY <1>12, <1>14

LEMMA TabledIsOK ==
    ASSUME HashOK, BuilderOK(builder), NEW r, NEW dataTable, NEW dataExp, NEW nodeExp,
           Tabled(r, dataTable, dataExp, nodeExp)
    PROVE  RegistryOK(r)
<1>1. PICK types, n, definitions, m, table, infos :
          /\ types = builder.node_types /\ n = Len(builder.node_types)
          /\ definitions = NumberedTypes /\ m = Len(NumberedTypes)
          /\ table = r.node_type_by_definition /\ infos = r.node_types
  OBVIOUS
<1>2. n \in Nat \ {0} /\ DOMAIN types = 1 .. n /\ \A k \in 1 .. n : types[k] \in AllNodeTypes
  BY <1>1, NodeTypesOfBuilder
<1>3. /\ Holds(dataTable, dataExp, definitions, m) /\ dataExp \in 0 .. HashBits
      /\ Holds(table, nodeExp, types, n) /\ nodeExp \in 0 .. HashBits /\ n < HashSize[nodeExp]
      /\ r.data_types = definitions /\ infos = [k \in 1 .. n |-> NodeInfo(types[k], dataTable)]
      /\ r.max_node_size = Max({infos[k].size : k \in DOMAIN infos})
  BY <1>1 DEF Tabled
<1>4. m \in Nat /\ DOMAIN definitions = 1 .. m /\ ToSet(definitions) = TypesMet(builder)
  BY <1>1, NumberedTypesAreCollected DEF BuilderOK
<1>5. DOMAIN infos = 1 .. n
  BY <1>3
<1>6. ASSUME NEW k \in 1 .. n
      PROVE  /\ infos[k].definition = types[k] /\ infos[k].size \in Nat
             /\ DOMAIN infos[k].vars = DOMAIN TypesOf(types[k])
             /\ \A j \in DOMAIN infos[k].vars : infos[k].vars[j].type = Lookup(dataTable, TypesOf(types[k])[j])
             /\ Fits(NodeBlocks(types[k]),
                     <<0>> \o [j \in DOMAIN infos[k].vars |-> infos[k].vars[j].offset], infos[k].size)
             /\ Fits(PipelineBlocks(types[k]), <<0>> \o infos[k].output_buffers, infos[k].pipeline_data_size)
  <2>1. PICK info : info = infos[k]
    OBVIOUS
  <2>2. info = NodeInfo(types[k], dataTable) /\ types[k] \in AllNodeTypes
    BY <1>2, <1>3, <2>1
  <2> QED
    BY <2>1, <2>2, NodeInfoFits
<1>7. LaidOutIn(r)
  <2>1. PICK sizes, all : sizes = [k \in 1 .. n |-> infos[k].size] /\ all = {sizes[k] : k \in 1 .. n}
    OBVIOUS
  <2>2. \A k \in 1 .. n : sizes[k] \in Nat /\ sizes[k] = infos[k].size
    BY <1>6, <2>1
  <2>3. all = {infos[k].size : k \in DOMAIN infos}
    BY <1>5, <2>1
  <2>4. \A k \in 1 .. n : sizes[k] <= Max(all)
    BY <1>2, <2>1, <2>2, MaxOfMany, ZenonT(60)
  <2>5. \A k \in 1 .. n : infos[k].size <= r.max_node_size
    BY <1>3, <2>2, <2>3, <2>4
  <2> QED
    BY <1>1, <1>5, <1>6, <2>5 DEF LaidOutIn
<1>8. DefinitionsFoundIn(r)
  <2>1. ASSUME NEW k \in 1 .. n
        PROVE  /\ Lookup(table, types[k]) # Invalid
               /\ infos[Lookup(table, types[k]) + 1].definition = types[k]
    <3>1. PICK index : index = Lookup(table, types[k])
      OBVIOUS
    <3>2. index \in 0 .. n - 1 /\ types[index + 1] = types[k]
      <4>1. n \in Nat
        BY <1>2
      <4>2. Lookup(table, types[k]) \in 0 .. n - 1 /\ types[Lookup(table, types[k]) + 1] = types[k]
        BY <1>3, <4>1, LookupFinds
      <4> QED
        BY <3>1, <4>2
    <3>3. index + 1 \in 1 .. n /\ index # Invalid
      BY <1>2, <3>2 DEF Invalid
    <3> QED
      BY <1>6, <3>1, <3>2, <3>3
  <2>2. ASSUME NEW k \in 1 .. n, NEW j \in DOMAIN infos[k].vars
        PROVE  /\ infos[k].vars[j].type # Invalid
               /\ definitions[infos[k].vars[j].type + 1] = TypesOf(types[k])[j]
    <3>1. PICK key, index : key = TypesOf(types[k])[j] /\ index = infos[k].vars[j].type
      OBVIOUS
    <3>2. index = Lookup(dataTable, key) /\ j \in DOMAIN TypesOf(types[k])
      BY <1>6, <3>1
    <3>3. key \in TypesMet(builder)
      <4>1. key \in ToSet(TypesOf(types[k]))
        BY <3>1, <3>2 DEF ToSet
      <4>2. TypesMet(builder) = UNION {ToSet(TypesOf(types[i])) : i \in 1 .. n}
        BY <1>1, <1>2 DEF TypesMet
      <4> QED
        BY <4>1, <4>2
    <3>4. PICK i \in 1 .. m : definitions[i] = key
      BY <1>4, <3>3 DEF ToSet
    <3>5. index \in 0 .. m - 1 /\ definitions[index + 1] = key
      <4>1. /\ Lookup(dataTable, definitions[i]) \in 0 .. m - 1
            /\ definitions[Lookup(dataTable, definitions[i]) + 1] = definitions[i]
        <5>1. Holds(dataTable, dataExp, definitions, m) /\ dataExp \in 0 .. HashBits /\ m \in Nat
          BY <1>3, <1>4
        <5> QED
          BY <5>1, LookupFinds
      <4> QED
        BY <3>2, <3>4, <4>1
    <3> QED
      BY <1>4, <3>1, <3>5 DEF Invalid
  <2>3. DOMAIN r.node_types = 1 .. n /\ r.node_types = infos
        /\ r.node_type_by_definition = table /\ r.data_types = definitions
    BY <1>1, <1>3, <1>5
  <2> SUFFICES ASSUME NEW k \in 1 .. n
               PROVE  /\ Lookup(table, infos[k].definition) # Invalid
                      /\ infos[Lookup(table, infos[k].definition) + 1].definition = infos[k].definition
                      /\ \A j \in DOMAIN infos[k].vars :
                            /\ infos[k].vars[j].type # Invalid
                            /\ definitions[infos[k].vars[j].type + 1] = TypesOf(infos[k].definition)[j]
    BY <2>3 DEF DefinitionsFoundIn
  <2>4. infos[k].definition = types[k]
    BY <1>6
  <2> QED
    BY <2>1, <2>2, <2>4
<1>9. LookupsEndIn(table, IterateOf(r))
  <2>1. PICK iterated : iterated = IterateOf(r)
    OBVIOUS
  <2>2. iterated = [k \in 1 .. n - 1 |-> types[k + 1]]
    <3>1. Len(infos) = n
      BY <1>2, <1>3
    <3>2. \A k \in 1 .. n - 1 : k + 1 \in 1 .. n
      BY <1>2
    <3> QED
      BY <1>1, <1>6, <2>1, <3>1, <3>2 DEF IterateOf
  <2>3. ASSUME NEW type \in NodeTypes
        PROVE  /\ Hits(table.keys, table.exp, type) # {}
               /\ Lookup(table, type) = Invalid <=> type \notin ToSet(iterated)
    <3>1. type \in Addresses /\ type # Dummy
      BY RegistryAssumption DEF Addresses, AllNodeTypes
    <3>2. n \in Nat /\ types[1] = Dummy
      BY <1>1, <1>2 DEF BuilderOK
    <3>3. Hits(table.keys, table.exp, type) # {}
      BY <1>3, <3>1, <3>2, TableSearchEnds
    <3>4. CASE \E k \in 1 .. n : types[k] = type
      <4>1. PICK k \in 1 .. n : types[k] = type
        BY <3>4
      <4>2. PICK j : j = k - 1
        OBVIOUS
      <4>3. k # 1
        BY <3>1, <3>2, <4>1
      <4>4. j \in 1 .. n - 1 /\ j + 1 = k
        BY <1>2, <4>2, <4>3
      <4>5. type \in ToSet(iterated)
        BY <2>2, <4>1, <4>4 DEF ToSet
      <4>6. Lookup(table, types[k]) \in 0 .. n - 1
        BY <1>3, <3>2, LookupFinds
      <4>7. Lookup(table, type) # Invalid
        BY <1>2, <4>1, <4>6 DEF Invalid
      <4> QED
        BY <3>3, <4>5, <4>7
    <3>5. CASE \A k \in 1 .. n : types[k] # type
      <4>1. Lookup(table, type) = Invalid
        BY <1>3, <3>1, <3>2, <3>5, LookupMisses
      <4>2. \A k \in 1 .. n - 1 : k + 1 \in 1 .. n
        BY <1>2
      <4>3. type \notin ToSet(iterated)
        BY <2>2, <3>5, <4>2 DEF ToSet
      <4> QED
        BY <3>3, <4>1, <4>3
    <3> QED
      BY <3>4, <3>5
  <2> QED
    BY <2>1, <2>3 DEF LookupsEndIn
<1> QED
  BY <1>1, <1>7, <1>8, <1>9 DEF RegistryOK

-----------------------------------------------------------------------------
(* The inductive invariant: the builder's table is as its invariant says,  *)
(* and what is built from it is as the invariants of the registry say.     *)
RegistryInv ==
    /\ HashOK
    /\ BuilderOK(builder)
    /\ registry # NULL => RegistryOK(registry)

(* The hash of an address stays, and with it where a search ends.          *)
LEMMA SearchStays ==
    ASSUME hash' = hash
    PROVE  \A keys, exp, key : /\ Hits(keys, exp, key)' = Hits(keys, exp, key)
                               /\ SlotOf(keys, exp, key)' = SlotOf(keys, exp, key)
<1>1. ASSUME NEW keys, NEW exp, NEW key
      PROVE  Hits(keys, exp, key)' = Hits(keys, exp, key)
  BY DEF Hits
<1>2. ASSUME NEW keys, NEW exp, NEW key
      PROVE  SlotOf(keys, exp, key)' = SlotOf(keys, exp, key)
  <2>1. PICK hits : hits = Hits(keys, exp, key)
    OBVIOUS
  <2>2. Hits(keys, exp, key)' = hits
    BY <1>1, <2>1
  <2>3. \A k : Probe(hash[key], exp, k)' = Probe(hash[key], exp, k)
    BY DEF Probe, Step
  <2>4. PICK first : first = CHOOSE k \in hits : \A j \in hits : k <= j
    OBVIOUS
  <2>5. SlotOf(keys, exp, key) = IF hits = {} THEN Invalid ELSE Probe(hash[key], exp, first)
    BY <2>1, <2>4 DEF SlotOf
  <2>6. SlotOf(keys, exp, key)' = IF hits = {} THEN Invalid ELSE Probe(hash[key], exp, first)'
    BY <2>2, <2>4 DEF SlotOf
  <2> QED
    BY <2>3, <2>5, <2>6
<1> QED
  BY <1>1, <1>2

LEMMA BuilderStaysOK ==
    ASSUME hash' = hash, HashOK, BuilderOK(builder')
    PROVE  HashOK' /\ BuilderOK(builder)'
<1>1. HashOK'
  BY DEF HashOK
<1>2. Placed(builder.data_types, BuilderExp)'
  BY SearchStays DEF BuilderOK, IsBuilder, Placed
<1>3. IsBuilder(builder)'
  BY <1>2 DEF BuilderOK, IsBuilder
<1> QED
  BY <1>1, <1>3 DEF BuilderOK, Collected, TypesMet

LEMMA RegistryStaysOK ==
    ASSUME hash' = hash, RegistryOK(registry')
    PROVE  RegistryOK(registry)'
<1>1. \A table, key : Lookup(table, key)' = Lookup(table, key)
  BY SearchStays DEF Lookup
<1>2. LookupsEndIn(registry.node_type_by_definition, IterateOf(registry))'
  BY <1>1, SearchStays DEF RegistryOK, LookupsEndIn, IterateOf
<1>3. DefinitionsFoundIn(registry)'
  BY <1>1 DEF RegistryOK, DefinitionsFoundIn
<1>4. LaidOutIn(registry)'
  BY DEF RegistryOK, LaidOutIn
<1> QED
  BY <1>2, <1>3, <1>4 DEF RegistryOK

LEMMA RegistryInvHolds == Spec => []RegistryInv
<1>1. Init => RegistryInv
  <2> SUFFICES ASSUME Init PROVE RegistryInv
    OBVIOUS
  <2>1. HashOK
    BY RegistryAssumption DEF Init, HashOK, HashType
  <2>2. BuilderOK(builder)
    BY <2>1, FreshBuilderOK DEF Init
  <2> QED
    BY <2>1, <2>2 DEF Init, RegistryInv
<1>2. RegistryInv /\ [Next]_registryVars => RegistryInv'
  <2> SUFFICES ASSUME RegistryInv, [Next]_registryVars PROVE RegistryInv'
    OBVIOUS
  <2>1. HashOK /\ BuilderOK(builder) /\ (registry # NULL => RegistryOK(registry))
    BY DEF RegistryInv
  <2>2. CASE BuilderInit
    <3>1. hash' = hash /\ builder' = FreshBuilder /\ registry' = NULL
      BY <2>2 DEF BuilderInit
    <3>2. BuilderOK(builder')
      BY <2>1, <3>1, FreshBuilderOK
    <3>3. HashOK' /\ BuilderOK(builder)'
      BY <2>1, <3>1, <3>2, BuilderStaysOK
    <3> QED
      BY <3>1, <3>3 DEF RegistryInv
  <2>3. ASSUME NEW type \in NodeTypes, BuilderAdd(type)
        PROVE  RegistryInv'
    <3>1. hash' = hash /\ registry' = registry /\ registry = NULL
      BY <2>3 DEF BuilderAdd
    <3>2. BuilderOK(builder')
      BY <2>1, <2>3, BuilderAddKeepsOK
    <3>3. HashOK' /\ BuilderOK(builder)'
      BY <2>1, <3>1, <3>2, BuilderStaysOK
    <3> QED
      BY <3>1, <3>3 DEF RegistryInv
  <2>4. CASE RegistryInit
    <3>1. hash' = hash /\ builder' = builder
      BY <2>4 DEF RegistryInit
    <3>2. HashOK' /\ BuilderOK(builder)'
      BY <2>1, <3>1, BuilderStaysOK
    <3>3. RegistryOK(registry')
      BY <2>1, <2>4, RegistryInitTables, TabledIsOK
    <3>4. RegistryOK(registry)'
      BY <3>1, <3>3, RegistryStaysOK
    <3> QED
      BY <3>2, <3>4 DEF RegistryInv
  <2>5. CASE UNCHANGED registryVars
    <3>1. hash' = hash /\ builder' = builder /\ registry' = registry
      BY <2>5 DEF registryVars
    <3>2. HashOK' /\ BuilderOK(builder)'
      BY <2>1, <3>1, BuilderStaysOK
    <3>3. CASE registry # NULL
      <4>1. RegistryOK(registry')
        BY <2>1, <3>1, <3>3
      <4>2. RegistryOK(registry)'
        BY <3>1, <4>1, RegistryStaysOK
      <4> QED
        BY <3>2, <4>2 DEF RegistryInv
    <3>4. CASE registry = NULL
      BY <3>1, <3>2, <3>4 DEF RegistryInv
    <3> QED
      BY <3>3, <3>4
  <2> QED
    BY <2>2, <2>3, <2>4, <2>5 DEF Next
<1> QED
  BY <1>1, <1>2, PTL DEF Spec

(* Whatever collides with it and however often it is met, a data type of a *)
(* registered node type has one slot of the builder's table and is counted *)
(* once (hgraph_registry_add_type).                                        *)
THEOREM DataTypesCollectedOnce == Spec => []DataTypesAreCollectedOnce
<1>1. RegistryInv => DataTypesAreCollectedOnce
  BY CollectedOnce DEF RegistryInv
<1> QED
  BY <1>1, RegistryInvHolds, PTL

(* The loops of hgraph_registry_add_type and of hgraph_ptr_table_lookup    *)
(* end for every address and every hash, because an odd step comes to each *)
(* slot of a table that has a free one; a node type is found exactly when  *)
(* it has been registered.                                                 *)
THEOREM SearchesEnd == Spec => []LookupsEnd
<1>1. RegistryInv => LookupsEnd
  <2> SUFFICES ASSUME RegistryInv PROVE LookupsEnd
    OBVIOUS
  <2>1. HashOK /\ BuilderOK(builder) /\ (registry # NULL => RegistryOK(registry))
    BY DEF RegistryInv
  <2>2. ASSUME NEW type \in DataTypes
        PROVE  Hits(builder.data_types, builder.exp, type) # {}
    <3>1. PICK keys : keys = builder.data_types
      OBVIOUS
    <3>2. /\ keys \in KeyArrays(BuilderExp) /\ builder.exp = BuilderExp
          /\ Cardinality(Used(keys)) <= MaxDataTypes
      BY <2>1, <3>1 DEF BuilderOK, IsBuilder, Builders
    <3>3. BuilderExp \in 0 .. HashBits /\ MaxDataTypes < HashSize[BuilderExp] /\ MaxDataTypes \in Nat
      BY BuilderExpFits
    <3>4. Cardinality(Used(keys)) < HashSize[BuilderExp]
      BY <3>2, <3>3, FreeSlot, HashSizes
    <3>5. type \in Addresses
      BY DEF Addresses
    <3> QED
      BY <2>1, <3>1, <3>2, <3>3, <3>4, <3>5, SearchEnds
  <2>3. ASSUME registry # NULL
        PROVE  LookupsEndIn(registry.node_type_by_definition, Iterate)
    BY <2>1, <2>3 DEF RegistryOK, IterateOf, Iterate
  <2> QED
    BY <2>2, <2>3 DEF LookupsEnd, LookupsEndIn, Built
<1> QED
  BY <1>1, RegistryInvHolds, PTL

(* In a registry, the address of a definition leads to what was made from  *)
(* it, and each attribute and pin to the number of the data type that it   *)
(* was declared with (hgraph_registry_init).                               *)
THEOREM DefinitionsFound == Spec => []DefinitionsAreFound
<1>1. RegistryInv => DefinitionsAreFound
  BY DEF RegistryInv, RegistryOK, DefinitionsFoundIn, DefinitionsAreFound, Built
<1> QED
  BY <1>1, RegistryInvHolds, PTL

(* mem_layout_reserve aligns the parts of a node and of its data in a      *)
(* pipeline and puts them one behind the other, within the size that the   *)
(* registry notes and max_node_size bounds.                                *)
THEOREM NodesLaidOut == Spec => []NodesAreLaidOut
<1>1. RegistryInv => NodesAreLaidOut
  BY DEF RegistryInv, RegistryOK, LaidOutIn, NodesAreLaidOut, Built
<1> QED
  BY <1>1, RegistryInvHolds, PTL
=============================================================================
