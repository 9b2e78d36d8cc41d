---------------------------- MODULE Fat32Proofs ----------------------------
(***************************************************************************)
(* For every set of sound cards, whatever their geometry, chains and       *)
(* directories, and any number of calls: the table in memory stays the     *)
(* card's, whatever is read stays in its block, listings are and stay      *)
(* exact, and nothing stops the driver but what its documentation names.   *)
(***************************************************************************)
EXTENDS Fat32, FiniteSetTheorems, TLAPS

-----------------------------------------------------------------------------
(* Quotients and remainders.                                               *)

LEMMA DivMod ==
  ASSUME NEW a \in Int, NEW b \in Nat \ {0}, NEW q \in Int, NEW r \in 0 .. b - 1, a = b * q + r
  PROVE  a \div b = q /\ a % b = r
<1>1. a \div b = q
  OBVIOUS
<1>2. a % b = r
  OBVIOUS
<1> QED BY <1>1, <1>2

LEMMA DivModOf ==
  ASSUME NEW a \in Nat, NEW b \in Nat \ {0}
  PROVE  a \div b \in Nat /\ a % b \in 0 .. b - 1 /\ a = b * (a \div b) + (a % b)
<1>1. a \div b \in Nat
  OBVIOUS
<1>2. a % b \in 0 .. b - 1
  OBVIOUS
<1>3. a = b * (a \div b) + (a % b)
  OBVIOUS
<1> QED BY <1>1, <1>2, <1>3

\* The quotient of a number below a product.
LEMMA DivBelow ==
  ASSUME NEW a \in Nat, NEW b \in Nat \ {0}, NEW m \in Nat, a < m * b
  PROVE  a \div b < m
<1>1. PICK q \in Nat : q = a \div b
  BY DivModOf
<1>2. PICK r \in 0 .. b - 1 : a = b * q + r
  BY <1>1, DivModOf
<1>3. q >= m => q * b >= m * b
  OBVIOUS
<1>4. q * b <= a
  BY <1>2
<1> QED BY <1>1, <1>3, <1>4

LEMMA Sizes ==
  /\ NBYTES_PER_SECTOR \in Nat \ {0} /\ DirentSize \in Nat \ {0} /\ PiDirentSize \in Nat \ {0}
  /\ PiFileSize \in Nat \ {0} /\ WordSize \in Nat \ {0} /\ ClusterSpace \in Nat /\ ClusterSpace > 8
  /\ HeapStart \in Nat /\ HeapMax \in Nat /\ MemEnd \in Nat /\ MaxCalls \in Nat /\ HeapStart <= MemEnd
  BY Fat32Assumption DEF Fat32Assumption

\* A sector holds whole entries, of a directory and of the table.
LEMMA SectorWhole ==
  /\ EntriesPerSector \in Nat \ {0} /\ NBYTES_PER_SECTOR = DirentSize * EntriesPerSector
  /\ NBYTES_PER_SECTOR \div WordSize \in Nat
  /\ NBYTES_PER_SECTOR = WordSize * (NBYTES_PER_SECTOR \div WordSize)
<1>1. NBYTES_PER_SECTOR % DirentSize = 0 /\ NBYTES_PER_SECTOR % WordSize = 0
  BY Fat32Assumption DEF Fat32Assumption
<1>2. /\ EntriesPerSector \in Nat
      /\ NBYTES_PER_SECTOR = DirentSize * EntriesPerSector + (NBYTES_PER_SECTOR % DirentSize)
  BY Sizes, DivModOf DEF EntriesPerSector
<1>3. /\ NBYTES_PER_SECTOR \div WordSize \in Nat
      /\ NBYTES_PER_SECTOR = WordSize * (NBYTES_PER_SECTOR \div WordSize) + (NBYTES_PER_SECTOR % WordSize)
  BY Sizes, DivModOf
<1>4. NBYTES_PER_SECTOR = DirentSize * EntriesPerSector
  BY <1>1, <1>2, Sizes
<1>5. EntriesPerSector # 0
  BY <1>2, <1>4, Sizes
<1>6. NBYTES_PER_SECTOR = WordSize * (NBYTES_PER_SECTOR \div WordSize)
  BY <1>1, <1>3, Sizes
<1> QED BY <1>2, <1>3, <1>4, <1>5, <1>6

\* An entry of the table is found again in the sector it is in.
LEMMA TableOffset ==
  ASSUME NEW c \in Nat, NEW m \in Nat \ {0}, WordSize * c < m * NBYTES_PER_SECTOR
  PROVE  /\ (WordSize * c) \div NBYTES_PER_SECTOR \in 0 .. m - 1
         /\ (((WordSize * c) \div NBYTES_PER_SECTOR) % m) * (NBYTES_PER_SECTOR \div WordSize)
              + ((WordSize * c) % NBYTES_PER_SECTOR) \div WordSize = c
<1>1. PICK W \in Nat \ {0} : W = WordSize
  BY Sizes
<1>2. PICK B \in Nat \ {0} : B = NBYTES_PER_SECTOR
  BY Sizes
<1>3. PICK e \in Nat : e = B \div W /\ B = W * e
  BY <1>1, <1>2, SectorWhole
<1>4. PICK a \in Nat : a = W * c
  BY <1>1
<1>5. PICK q \in Nat : q = a \div B
  BY DivModOf
<1>6. PICK r \in 0 .. B - 1 : r = a % B /\ a = B * q + r
  <2>1. (a % B) \in 0 .. B - 1 /\ a = B * (a \div B) + (a % B)
    BY DivModOf
  <2> QED BY <1>5, <2>1, Zenon
<1>7. q < m
  BY <1>1, <1>2, <1>4, <1>5, DivBelow
<1>8. q % m = q
  <2>1. q \in 0 .. m - 1 /\ q = m * 0 + q
    BY <1>7
  <2> QED BY <2>1, DivMod
<1>9. r = W * (c - e * q)
  <2>1. W * c = (W * e) * q + r
    BY <1>3, <1>4, <1>6
  <2>2. (W * e) * q = W * (e * q)
    OBVIOUS
  <2>3. e * q \in Int
    OBVIOUS
  <2>4. W * (c - e * q) = W * c - W * (e * q)
    BY <2>3
  <2> QED BY <2>1, <2>2, <2>4
<1>10. r \div W = c - e * q
  <2>1. c - e * q \in Int /\ 0 \in 0 .. W - 1 /\ r = W * (c - e * q) + 0
    BY <1>9
  <2> QED BY <2>1, DivMod
<1>11. q * e + (c - e * q) = c
  OBVIOUS
<1>12. (a \div B) \in 0 .. m - 1
  BY <1>5, <1>7
<1>13. ((a \div B) % m) * (B \div W) + (a % B) \div W = c
  BY <1>3, <1>5, <1>6, <1>8, <1>10, <1>11
<1> QED BY <1>1, <1>2, <1>4, <1>12, <1>13

\* An entry of a directory is found again in the sector it is in.
LEMMA EntryOffset ==
  ASSUME NEW i \in Nat
  PROVE  /\ (DirentSize * i) \div NBYTES_PER_SECTOR = i \div EntriesPerSector
         /\ (DirentSize * i) % NBYTES_PER_SECTOR = DirentSize * (i % EntriesPerSector)
         /\ (DirentSize * (i % EntriesPerSector)) \div DirentSize = i % EntriesPerSector
<1>1. PICK D \in Nat \ {0} : D = DirentSize
  BY Sizes
<1>2. PICK e \in Nat \ {0} : e = EntriesPerSector /\ NBYTES_PER_SECTOR = D * e
  BY <1>1, SectorWhole
<1>3. PICK q \in Nat : q = i \div e
  BY DivModOf
<1>4. PICK r \in 0 .. e - 1 : r = i % e /\ i = e * q + r
  BY <1>3, DivModOf
<1>5. D * r \in 0 .. D * e - 1 /\ D * e \in Nat \ {0}
  <2>1. D * e \in Nat /\ D * r \in Nat /\ D * e > 0
    OBVIOUS
  <2>2. D * (e - 1 - r) >= 0
    OBVIOUS
  <2>3. D * (e - 1 - r) = D * e - D - D * r
    OBVIOUS
  <2> QED BY <2>1, <2>2, <2>3
<1>6. D * i = (D * e) * q + D * r /\ D * i \in Int
  <2>1. D * i = D * (e * q + r)
    BY <1>4
  <2>2. D * (e * q + r) = (D * e) * q + D * r
    OBVIOUS
  <2> QED BY <2>1, <2>2
<1>7. (D * i) \div (D * e) = q /\ (D * i) % (D * e) = D * r
  <2>1. PICK x \in Int : x = D * i
    BY <1>6
  <2>2. PICK y \in Nat \ {0} : y = D * e
    BY <1>5
  <2>3. PICK z \in 0 .. y - 1 : z = D * r
    BY <1>5, <2>2
  <2>4. x = y * q + z
    BY <1>6, <2>1, <2>2, <2>3
  <2>5. x \div y = q /\ x % y = z
    BY <2>4, DivMod
  <2> QED BY <2>1, <2>2, <2>3, <2>5
<1>8. (D * r) \div D = r
  <2>1. D * r \in Int /\ r \in Int /\ 0 \in 0 .. D - 1 /\ D * r = D * r + 0
    OBVIOUS
  <2> QED BY <2>1, DivMod
<1> QED BY <1>1, <1>2, <1>3, <1>4, <1>7, <1>8

-----------------------------------------------------------------------------
(* The naturals are well founded.                                          *)

\* Every nonempty set of naturals has a least element.
LEMMA NatLeast ==
  ASSUME NEW T \in SUBSET Nat, T # {}
  PROVE  \E m \in T : \A y \in T : m <= y
<1> DEFINE Up == {0 .. m : m \in T}
<1>1. Up \subseteq FiniteSubsetsOf(Nat) /\ Up # {}
  <2>1. \A m \in T : 0 .. m \subseteq Nat /\ IsFiniteSet(0 .. m)
    BY FS_Interval
  <2> QED BY <2>1 DEF FiniteSubsetsOf
<1>2. PICK U \in Up : \A V \in Up : ~ (<<V, U>> \in StrictSubsetOrdering(Nat))
  BY <1>1, FS_StrictSubsetOrderingWellFounded, WFMin
<1>3. PICK m \in T : U = 0 .. m
  OBVIOUS
<1>4. ASSUME NEW y \in T PROVE m <= y
  <2>0. y \in Nat /\ m \in Nat
    OBVIOUS
  <2>1. 0 .. y \in SUBSET Nat /\ 0 .. m \in SUBSET Nat
    BY <2>0
  <2>2. <<0 .. y, 0 .. m>> \notin StrictSubsetOrdering(Nat)
    BY <1>2, <1>3
  <2>3. ~ (0 .. y \subseteq 0 .. m /\ 0 .. y # 0 .. m)
    BY <2>1, <2>2 DEF StrictSubsetOrdering
  <2>4. y < m => (0 .. y \subseteq 0 .. m /\ m \in 0 .. m /\ m \notin 0 .. y)
    BY <2>0
  <2> QED BY <2>0, <2>3, <2>4
<1> QED BY <1>4

-----------------------------------------------------------------------------
(* The recursive functions of the model.                                   *)

WalkIs(f, d, c) == f = [k \in Nat |-> IF k = 0 THEN c ELSE d.fat[f[k - 1]] % ClusterSpace]

\* The table leads somewhere from every cluster, any number of times.
LEMMA WalkExists ==
  ASSUME NEW d, NEW c
  PROVE  \E f : WalkIs(f, d, c)
<1> DEFINE Begins(f, m) == f = [k \in 0 .. m |-> IF k = 0 THEN c ELSE d.fat[f[k - 1]] % ClusterSpace]
<1>1. ASSUME NEW m \in Nat PROVE \E f : Begins(f, m)
  <2> DEFINE T == {x \in Nat : ~ \E f : Begins(f, x)}
  <2>1. SUFFICES ASSUME T # {} PROVE FALSE
    OBVIOUS
  <2>2. T \in SUBSET Nat
    OBVIOUS
  <2>3. PICK x \in T : \A y \in T : x <= y
    BY <2>1, <2>2, NatLeast
  <2>4. CASE x = 0
    <3>1. PICK f : f = [k \in 0 .. 0 |-> c]
      OBVIOUS
    <3>2. Begins(f, 0)
      BY <3>1
    <3> QED BY <2>3, <2>4, <3>2
  <2>5. CASE x # 0
    <3>0. x \in Nat
      BY <2>2
    <3>1. x \in Nat /\ x - 1 \in Nat /\ x - 1 \notin T
      <4>1. x - 1 \in Nat /\ ~(x <= x - 1)
        BY <2>5, <3>0
      <4> QED BY <2>3, <3>0, <4>1
    <3>2. PICK f : Begins(f, x - 1)
      BY <3>1
    <3>3. PICK g : g = [k \in 0 .. x |-> IF k = 0 THEN c ELSE d.fat[f[k - 1]] % ClusterSpace]
      OBVIOUS
    <3>4. \A k \in 0 .. x - 1 : f[k] = IF k = 0 THEN c ELSE d.fat[f[k - 1]] % ClusterSpace
      BY <3>2
    <3>5. \A k \in 0 .. x - 1 : g[k] = f[k]
      BY <3>1, <3>3, <3>4
    <3>6. \A k \in 0 .. x : k # 0 => g[k - 1] = f[k - 1]
      BY <3>1, <3>5
    <3>7. \A k \in 0 .. x : (IF k = 0 THEN c ELSE d.fat[f[k - 1]] % ClusterSpace) = IF k = 0 THEN c ELSE d.fat[g[k - 1]] % ClusterSpace
      BY <3>6
    <3>8. Begins(g, x)
      BY <3>3, <3>7, Zenon
    <3> QED BY <2>3, <3>8
  <2> QED BY <2>4, <2>5
<1>2. ASSUME NEW m \in Nat, NEW f, NEW g, Begins(f, m), Begins(g, m + 1)
      PROVE  \A k \in 0 .. m : f[k] = g[k]
  <2> DEFINE T == {k \in 0 .. m : f[k] # g[k]}
  <2>1. SUFFICES ASSUME T # {} PROVE FALSE
    OBVIOUS
  <2>2. T \in SUBSET Nat
    OBVIOUS
  <2>3. PICK k \in T : \A y \in T : k <= y
    BY <2>1, <2>2, NatLeast
  <2>4. k \in 0 .. m /\ k \in 0 .. m + 1
    OBVIOUS
  <2>5. /\ f[k] = IF k = 0 THEN c ELSE d.fat[f[k - 1]] % ClusterSpace
        /\ g[k] = IF k = 0 THEN c ELSE d.fat[g[k - 1]] % ClusterSpace
    BY <1>2, <2>4
  <2>6. k # 0 => f[k - 1] = g[k - 1]
    <3> SUFFICES ASSUME k # 0 PROVE f[k - 1] = g[k - 1]
      OBVIOUS
    <3>1. k - 1 \in 0 .. m /\ k - 1 \notin T
      BY <2>3, <2>4
    <3> QED BY <3>1
  <2>7. f[k] = g[k]
    BY <2>5, <2>6
  <2> QED BY <2>7
<1>3. PICK F : F = [m \in Nat |-> CHOOSE f : Begins(f, m)]
  OBVIOUS
<1>4. \A m \in Nat : Begins(F[m], m)
  <2> TAKE m \in Nat
  <2>1. F[m] = CHOOSE f : Begins(f, m)
    BY <1>3
  <2>2. \E f : Begins(f, m)
    BY <1>1
  <2> HIDE DEF Begins
  <2> QED BY <2>1, <2>2, Zenon
<1>5. PICK h : h = [k \in Nat |-> F[k][k]]
  OBVIOUS
<1>6. ASSUME NEW k \in Nat PROVE F[k][k] = IF k = 0 THEN c ELSE d.fat[h[k - 1]] % ClusterSpace
  <2>0. k \in 0 .. k
    OBVIOUS
  <2>1. Begins(F[k], k)
    BY <1>4
  <2>2. F[k][k] = IF k = 0 THEN c ELSE d.fat[F[k][k - 1]] % ClusterSpace
    BY <2>0, <2>1
  <2>3. k # 0 => F[k][k - 1] = h[k - 1]
    <3> SUFFICES ASSUME k # 0 PROVE F[k][k - 1] = h[k - 1]
      OBVIOUS
    <3>1. PICK m \in Nat : m = k - 1 /\ k = m + 1
      OBVIOUS
    <3>2. Begins(F[m], m) /\ Begins(F[m + 1], m + 1)
      BY <1>4, <3>1
    <3>3. m \in 0 .. m
      OBVIOUS
    <3>4. PICK f, g : f = F[m] /\ g = F[m + 1]
      OBVIOUS
    <3> HIDE DEF Begins
    <3>5. Begins(f, m) /\ Begins(g, m + 1)
      BY <3>2, <3>4, Zenon
    <3>6. \A j \in 0 .. m : f[j] = g[j]
      BY <1>2, <3>5
    <3>7. F[m][m] = F[m + 1][m]
      BY <3>3, <3>4, <3>6
    <3> QED BY <1>5, <3>1, <3>7
  <2> QED BY <2>2, <2>3
<1>7. h = [k \in Nat |-> IF k = 0 THEN c ELSE d.fat[h[k - 1]] % ClusterSpace]
  BY <1>5, <1>6, Zenon
<1> QED BY <1>7 DEF WalkIs

LEMMA WalkSteps ==
  ASSUME NEW d, NEW c
  PROVE  /\ Walk(d, c)[0] = c
         /\ \A k \in Nat \ {0} : Walk(d, c)[k] = d.fat[Walk(d, c)[k - 1]] % ClusterSpace
<1>1. Walk(d, c) = CHOOSE f : WalkIs(f, d, c)
  BY Zenon DEF Walk, WalkIs
<1>2. \E f : WalkIs(f, d, c)
  BY WalkExists
<1>3. WalkIs(Walk(d, c), d, c)
  BY <1>1, <1>2, Zenon
<1>4. Walk(d, c) = [k \in Nat |-> IF k = 0 THEN c ELSE d.fat[Walk(d, c)[k - 1]] % ClusterSpace]
  BY <1>3 DEF WalkIs
<1> QED BY <1>4

\* what is in use of the first k entries of a list
KeptOf(all) ==
  LET kept[k \in Nat] ==
        IF k = 0 THEN <<>> ELSE IF all[k] = Deleted THEN kept[k - 1] ELSE Append(kept[k - 1], all[k])
  IN  kept

\* What is in use of a list of entries: of its first k, for every k.
LEMMA KeptExists ==
  ASSUME NEW all
  PROVE  \E f : f = [k \in Nat |-> IF k = 0 THEN <<>> ELSE (IF all[k] = Deleted THEN f[k - 1] ELSE Append(f[k - 1], all[k]))]
<1> DEFINE Begins(f, m) == f = [k \in 0 .. m |-> IF k = 0 THEN <<>> ELSE (IF all[k] = Deleted THEN f[k - 1] ELSE Append(f[k - 1], all[k]))]
<1>1. ASSUME NEW m \in Nat PROVE \E f : Begins(f, m)
  <2> DEFINE T == {x \in Nat : ~ \E f : Begins(f, x)}
  <2>1. SUFFICES ASSUME T # {} PROVE FALSE
    OBVIOUS
  <2>2. T \in SUBSET Nat
    OBVIOUS
  <2>3. PICK x \in T : \A y \in T : x <= y
    BY <2>1, <2>2, NatLeast
  <2>4. CASE x = 0
    <3>1. PICK f : f = [k \in 0 .. 0 |-> <<>>]
      OBVIOUS
    <3>2. Begins(f, 0)
      BY <3>1
    <3> QED BY <2>3, <2>4, <3>2
  <2>5. CASE x # 0
    <3>0. x \in Nat
      BY <2>2
    <3>1. x \in Nat /\ x - 1 \in Nat /\ x - 1 \notin T
      <4>1. x - 1 \in Nat /\ ~(x <= x - 1)
        BY <2>5, <3>0
      <4> QED BY <2>3, <3>0, <4>1
    <3>2. PICK f : Begins(f, x - 1)
      BY <3>1
    <3>3. PICK g : g = [k \in 0 .. x |-> IF k = 0 THEN <<>> ELSE (IF all[k] = Deleted THEN f[k - 1] ELSE Append(f[k - 1], all[k]))]
      OBVIOUS
    <3>4. \A k \in 0 .. x - 1 : f[k] = IF k = 0 THEN <<>> ELSE (IF all[k] = Deleted THEN f[k - 1] ELSE Append(f[k - 1], all[k]))
      BY <3>2
    <3>5. \A k \in 0 .. x - 1 : g[k] = f[k]
      BY <3>1, <3>3, <3>4
    <3>6. \A k \in 0 .. x : k # 0 => g[k - 1] = f[k - 1]
      BY <3>1, <3>5
    <3>7. \A k \in 0 .. x : (IF k = 0 THEN <<>> ELSE (IF all[k] = Deleted THEN f[k - 1] ELSE Append(f[k - 1], all[k]))) = IF k = 0 THEN <<>> ELSE (IF all[k] = Deleted THEN g[k - 1] ELSE Append(g[k - 1], all[k]))
      BY <3>6
    <3>8. Begins(g, x)
      BY <3>3, <3>7, Zenon
    <3> QED BY <2>3, <3>8
  <2> QED BY <2>4, <2>5
<1>2. ASSUME NEW m \in Nat, NEW f, NEW g, Begins(f, m), Begins(g, m + 1)
      PROVE  \A k \in 0 .. m : f[k] = g[k]
  <2> DEFINE T == {k \in 0 .. m : f[k] # g[k]}
  <2>1. SUFFICES ASSUME T # {} PROVE FALSE
    OBVIOUS
  <2>2. T \in SUBSET Nat
    OBVIOUS
  <2>3. PICK k \in T : \A y \in T : k <= y
    BY <2>1, <2>2, NatLeast
  <2>4. k \in 0 .. m /\ k \in 0 .. m + 1
    OBVIOUS
  <2>5. /\ f[k] = IF k = 0 THEN <<>> ELSE (IF all[k] = Deleted THEN f[k - 1] ELSE Append(f[k - 1], all[k]))
        /\ g[k] = IF k = 0 THEN <<>> ELSE (IF all[k] = Deleted THEN g[k - 1] ELSE Append(g[k - 1], all[k]))
    BY <1>2, <2>4
  <2>6. k # 0 => f[k - 1] = g[k - 1]
    <3> SUFFICES ASSUME k # 0 PROVE f[k - 1] = g[k - 1]
      OBVIOUS
    <3>1. k - 1 \in 0 .. m /\ k - 1 \notin T
      BY <2>3, <2>4
    <3> QED BY <3>1
  <2>7. f[k] = g[k]
    BY <2>5, <2>6
  <2> QED BY <2>7
<1>3. PICK F : F = [m \in Nat |-> CHOOSE f : Begins(f, m)]
  OBVIOUS
<1>4. \A m \in Nat : Begins(F[m], m)
  <2> TAKE m \in Nat
  <2>1. F[m] = CHOOSE f : Begins(f, m)
    BY <1>3
  <2>2. \E f : Begins(f, m)
    BY <1>1
  <2> HIDE DEF Begins
  <2> QED BY <2>1, <2>2, Zenon
<1>5. PICK h : h = [k \in Nat |-> F[k][k]]
  OBVIOUS
<1>6. ASSUME NEW k \in Nat PROVE F[k][k] = IF k = 0 THEN <<>> ELSE (IF all[k] = Deleted THEN h[k - 1] ELSE Append(h[k - 1], all[k]))
  <2>0. k \in 0 .. k
    OBVIOUS
  <2>1. Begins(F[k], k)
    BY <1>4
  <2>2. F[k][k] = IF k = 0 THEN <<>> ELSE (IF all[k] = Deleted THEN F[k][k - 1] ELSE Append(F[k][k - 1], all[k]))
    BY <2>0, <2>1
  <2>3. k # 0 => F[k][k - 1] = h[k - 1]
    <3> SUFFICES ASSUME k # 0 PROVE F[k][k - 1] = h[k - 1]
      OBVIOUS
    <3>1. PICK m \in Nat : m = k - 1 /\ k = m + 1
      OBVIOUS
    <3>2. Begins(F[m], m) /\ Begins(F[m + 1], m + 1)
      BY <1>4, <3>1
    <3>3. m \in 0 .. m
      OBVIOUS
    <3>4. PICK f, g : f = F[m] /\ g = F[m + 1]
      OBVIOUS
    <3> HIDE DEF Begins
    <3>5. Begins(f, m) /\ Begins(g, m + 1)
      BY <3>2, <3>4, Zenon
    <3>6. \A j \in 0 .. m : f[j] = g[j]
      BY <1>2, <3>5
    <3>7. F[m][m] = F[m + 1][m]
      BY <3>3, <3>4, <3>6
    <3> QED BY <1>5, <3>1, <3>7
  <2> QED BY <2>2, <2>3
<1>7. h = [k \in Nat |-> IF k = 0 THEN <<>> ELSE (IF all[k] = Deleted THEN h[k - 1] ELSE Append(h[k - 1], all[k]))]
  BY <1>5, <1>6, Zenon
<1> QED BY <1>7

KeptIs(f, all) ==
  f = [k \in Nat |-> IF k = 0 THEN <<>>
                     ELSE (IF all[k] = Deleted THEN f[k - 1] ELSE Append(f[k - 1], all[k]))]

LEMMA KeptSteps ==
  ASSUME NEW all
  PROVE  /\ KeptOf(all)[0] = <<>>
         /\ \A k \in Nat \ {0} :
              KeptOf(all)[k] = IF all[k] = Deleted THEN KeptOf(all)[k - 1]
                               ELSE Append(KeptOf(all)[k - 1], all[k])
<1>1. KeptOf(all) = CHOOSE f : KeptIs(f, all)
  BY Zenon DEF KeptOf, KeptIs
<1>2. \E f : KeptIs(f, all)
  BY KeptExists, Zenon DEF KeptIs
<1>3. KeptIs(KeptOf(all), all)
  BY <1>1, <1>2, Zenon
<1>4. KeptOf(all) = [k \in Nat |->
        IF k = 0 THEN <<>>
        ELSE (IF all[k] = Deleted THEN KeptOf(all)[k - 1] ELSE Append(KeptOf(all)[k - 1], all[k]))]
  BY <1>3 DEF KeptIs
<1> QED BY <1>4

-----------------------------------------------------------------------------
(* Chains and directories.                                                 *)

\* where the chain of c has its end
LastIn(d, c) == CHOOSE k \in 0 .. ClusterSpace : EndsAfter(d, c, k)
\* the entries of a directory, those never used and those deleted too
AllIn(d, c) ==
  [i \in 1 .. (LastIn(d, c) + 1) * EntriesIn(d) |->
     d.dir[Walk(d, c)[(i - 1) \div EntriesIn(d)]][1 + ((i - 1) % EntriesIn(d))]]
\* the first that was never used
EndIn(d, c) ==
  CHOOSE i \in DOMAIN AllIn(d, c) : AllIn(d, c)[i] = End /\ \A j \in 1 .. i - 1 : AllIn(d, c)[j] # End
\* the entries in use
UsedIn(d, c) == KeptOf(AllIn(d, c))[EndIn(d, c) - 1]

\* What is known of a chain from c.
ChainFacts(d, c) ==
  /\ LastIn(d, c) \in Nat
  /\ \A j \in 0 .. LastIn(d, c) :
       Walk(d, c)[j] \in DOMAIN d.fat /\ Walk(d, c)[j] \in 0 .. ClusterSpace - 1
  /\ Ends(d, Walk(d, c)[LastIn(d, c)])
  /\ \A j \in 0 .. LastIn(d, c) - 1 :
       /\ ~Ends(d, Walk(d, c)[j]) /\ d.fat[Walk(d, c)[j]] \in 0 .. ClusterSpace - 1
       /\ Walk(d, c)[j + 1] = d.fat[Walk(d, c)[j]]
  /\ Walk(d, c)[0] = c

\* A chain has one end.
LEMMA OneEnd ==
  ASSUME NEW d, NEW c, NEW k \in Nat, EndsAfter(d, c, k), NEW m \in Nat, EndsAfter(d, c, m)
  PROVE  k = m
<1>1. k < m => k \in 0 .. m - 1
  OBVIOUS
<1>2. m < k => m \in 0 .. k - 1
  OBVIOUS
<1> QED BY <1>1, <1>2 DEF EndsAfter

LEMMA LastIs ==
  ASSUME NEW d, NEW c, NEW k \in 0 .. ClusterSpace, EndsAfter(d, c, k)
  PROVE  LastIn(d, c) = k
<1>1. PICK x : x = LastIn(d, c)
  OBVIOUS
<1>2. x \in 0 .. ClusterSpace /\ EndsAfter(d, c, x)
  BY <1>1, Zenon DEF LastIn
<1>3. x \in Nat /\ k \in Nat
  BY <1>2, Sizes
<1>4. x = k
  BY <1>2, <1>3, OneEnd
<1> QED BY <1>1, <1>4

LEMMA SmallMod ==
  ASSUME NEW a \in Nat, NEW b \in Nat, a < b
  PROVE  a % b = a
<1>1. a \in 0 .. b - 1 /\ b \in Nat \ {0} /\ a = b * 0 + a
  OBVIOUS
<1> QED BY <1>1, DivMod

LEMMA SoundChainFacts ==
  ASSUME NEW d, SoundCard(d), NEW c, SoundChain(d, c)
  PROVE  ChainFacts(d, c)
<1>1. PICK k \in 0 .. ClusterSpace :
        /\ \A j \in 0 .. k : Walk(d, c)[j] \in DOMAIN d.fat
        /\ EndsAfter(d, c, k) /\ \A j \in 0 .. k - 1 : d.fat[Walk(d, c)[j]] < ClusterSpace
  BY DEF SoundChain
<1>2. LastIn(d, c) = k /\ k \in Nat
  BY <1>1, LastIs, Sizes
<1>3. \A x \in DOMAIN d.fat : x \in 0 .. ClusterSpace - 1 /\ d.fat[x] \in Nat
  BY DEF SoundCard
<1>4. \A j \in 0 .. k : Walk(d, c)[j] \in DOMAIN d.fat /\ Walk(d, c)[j] \in 0 .. ClusterSpace - 1
  BY <1>1, <1>3
<1>5. ASSUME NEW j \in 0 .. k - 1
      PROVE  /\ ~Ends(d, Walk(d, c)[j]) /\ d.fat[Walk(d, c)[j]] \in 0 .. ClusterSpace - 1
             /\ Walk(d, c)[j + 1] = d.fat[Walk(d, c)[j]]
  <2>1. j \in 0 .. k /\ j + 1 \in Nat \ {0} /\ (j + 1) - 1 = j
    BY <1>2
  <2>2. PICK x : x = d.fat[Walk(d, c)[j]]
    OBVIOUS
  <2>3. x \in Nat /\ x < ClusterSpace
    BY <1>1, <1>3, <1>4, <2>1, <2>2
  <2>4. x % ClusterSpace = x
    BY <2>3, Sizes, SmallMod
  <2>5. Walk(d, c)[j + 1] = d.fat[Walk(d, c)[(j + 1) - 1]] % ClusterSpace
    BY <2>1, WalkSteps
  <2>6. Walk(d, c)[j + 1] = x
    BY <2>1, <2>2, <2>4, <2>5
  <2>7. x \in 0 .. ClusterSpace - 1
    BY <2>3, Sizes
  <2>8. ~Ends(d, Walk(d, c)[j])
    BY <1>1 DEF EndsAfter
  <2> QED BY <2>2, <2>6, <2>7, <2>8
<1>6. Ends(d, Walk(d, c)[k])
  BY <1>1 DEF EndsAfter
<1>7. Walk(d, c)[0] = c
  BY WalkSteps
<1> QED BY <1>2, <1>4, <1>5, <1>6, <1>7 DEF ChainFacts

\* the entry that is number i of cluster number j
EntryNo(d, c, j, i) == d.dir[Walk(d, c)[j]][1 + i]

LEMMA AllEntries ==
  ASSUME NEW d, EntriesIn(d) \in Nat \ {0}, NEW c, LastIn(d, c) \in Nat,
         NEW j \in 0 .. LastIn(d, c), NEW i \in 0 .. EntriesIn(d) - 1
  PROVE  /\ j * EntriesIn(d) + i + 1 \in 1 .. (LastIn(d, c) + 1) * EntriesIn(d)
         /\ AllIn(d, c)[j * EntriesIn(d) + i + 1] = EntryNo(d, c, j, i)
<1>1. PICK e \in Nat \ {0} : e = EntriesIn(d)
  OBVIOUS
<1>2. PICK l \in Nat : l = LastIn(d, c)
  OBVIOUS
<1>3. j \in Nat /\ i \in 0 .. e - 1 /\ j <= l
  BY <1>1, <1>2
<1>4. PICK x \in Nat : x = j * e + i
  BY <1>3
<1>5. x < (l + 1) * e
  <2>1. (l - j) * e >= 0
    BY <1>3
  <2>2. (l + 1) * e = (l - j) * e + j * e + e
    BY <1>3
  <2>3. i < e /\ j * e \in Nat /\ (l - j) * e \in Int
    BY <1>3
  <2> QED BY <1>4, <2>1, <2>2, <2>3
<1>6. x + 1 \in 1 .. (l + 1) * e
  BY <1>5
<1>7. x \div e = j /\ x % e = i
  <2>1. x = e * j + i
    BY <1>3, <1>4
  <2>2. x \in Int /\ j \in Int /\ e \in Nat \ {0} /\ i \in 0 .. e - 1
    BY <1>3
  <2> QED BY <2>1, <2>2, DivMod
<1>8. (x + 1) - 1 = x
  OBVIOUS
<1>9. AllIn(d, c)[x + 1] = d.dir[Walk(d, c)[x \div e]][1 + (x % e)]
  BY <1>1, <1>2, <1>6, <1>8 DEF AllIn
<1>10. j * EntriesIn(d) + i + 1 = x + 1
  BY <1>1, <1>4, <1>3
<1> QED BY <1>1, <1>2, <1>6, <1>7, <1>9, <1>10 DEF EntryNo

\* What is known of a directory that begins at cluster c.
DirFacts(d, c) ==
  /\ c \in Nat /\ c >= 2 /\ ChainFacts(d, c)
  /\ \A j \in 0 .. LastIn(d, c) :
       /\ Walk(d, c)[j] \in DOMAIN d.dir /\ Walk(d, c)[j] >= 2
       /\ \A i \in 0 .. EntriesIn(d) - 1 : SoundEntry(d, EntryNo(d, c, j, i))
  /\ EndIn(d, c) \in 1 .. (LastIn(d, c) + 1) * EntriesIn(d)
  /\ AllIn(d, c)[EndIn(d, c)] = End
  /\ \A k \in 1 .. EndIn(d, c) - 1 : AllIn(d, c)[k] # End

LEMMA SoundSizes ==
  ASSUME NEW d, SoundCard(d)
  PROVE  /\ d.lba_start \in Nat /\ d.boot.reserved_area_nsec \in Nat
         /\ d.boot.nsec_per_fat \in Nat \ {0} /\ d.boot.sec_per_cluster \in Nat \ {0}
         /\ EntriesIn(d) \in Nat \ {0}
<1>1. d.boot.sec_per_cluster \in Nat \ {0} /\ EntriesPerSector \in Nat \ {0}
  BY SectorWhole DEF SoundCard
<1>2. EntriesIn(d) \in Nat \ {0}
  <2>1. PICK a \in Nat \ {0}, b \in Nat \ {0} : a = d.boot.sec_per_cluster /\ b = EntriesPerSector
    BY <1>1
  <2>2. a * b \in Nat /\ a * b > 0
    OBVIOUS
  <2> QED BY <2>1, <2>2 DEF EntriesIn
<1>3. /\ d.lba_start \in Nat /\ d.boot.reserved_area_nsec \in Nat
      /\ d.boot.nsec_per_fat \in Nat \ {0} /\ d.boot.sec_per_cluster \in Nat \ {0}
  BY DEF SoundCard
<1> QED BY <1>2, <1>3

LEMMA SoundDirFacts ==
  ASSUME NEW d, SoundCard(d), NEW c, SoundDirectory(d, c)
  PROVE  DirFacts(d, c)
<1>1. ChainFacts(d, c)
  BY SoundChainFacts DEF SoundDirectory
<1>2. PICK e \in Nat \ {0} : e = EntriesIn(d)
  BY SoundSizes
<1>3. PICK k \in 0 .. ClusterSpace :
        /\ EndsAfter(d, c, k) /\ \A j \in 0 .. k : Walk(d, c)[j] \in DOMAIN d.dir
        /\ d.dir[Walk(d, c)[k]][EntriesIn(d)] = End
  BY DEF SoundDirectory
<1>4. LastIn(d, c) = k /\ k \in Nat
  BY <1>3, LastIs, Sizes
<1>5. \A x \in DOMAIN d.dir : x \in Nat /\ x >= 2 /\ \A i \in 1 .. EntriesIn(d) : SoundEntry(d, d.dir[x][i])
  BY DEF SoundCard
<1>6. ASSUME NEW j \in 0 .. k
      PROVE  /\ Walk(d, c)[j] \in DOMAIN d.dir /\ Walk(d, c)[j] \in Nat /\ Walk(d, c)[j] >= 2
             /\ \A i \in 0 .. EntriesIn(d) - 1 : SoundEntry(d, EntryNo(d, c, j, i))
  <2>1. Walk(d, c)[j] \in DOMAIN d.dir
    BY <1>3
  <2>2. Walk(d, c)[j] \in Nat /\ Walk(d, c)[j] >= 2
    BY <1>5, <2>1
  <2>3. ASSUME NEW i \in 0 .. EntriesIn(d) - 1 PROVE SoundEntry(d, EntryNo(d, c, j, i))
    <3>1. 1 + i \in 1 .. EntriesIn(d)
      BY <1>2
    <3> QED BY <1>5, <2>1, <3>1 DEF EntryNo
  <2> QED BY <2>1, <2>2, <2>3
<1>7. c \in Nat /\ c >= 2
  <2>1. 0 \in 0 .. k /\ Walk(d, c)[0] = c
    BY <1>4, WalkSteps
  <2> QED BY <1>6, <2>1
<1>8. \E x \in Nat : x \in 1 .. (k + 1) * e /\ AllIn(d, c)[x] = End
  <2>1. PICK j \in 0 .. k, i \in 1 .. e : d.dir[Walk(d, c)[j]][i] = End
    BY <1>2, <1>3
  <2>2. i - 1 \in 0 .. e - 1 /\ 1 + (i - 1) = i
    OBVIOUS
  <2>3. PICK y : y = i - 1
    OBVIOUS
  <2>4. /\ j * e + y + 1 \in 1 .. (k + 1) * e
        /\ AllIn(d, c)[j * e + y + 1] = EntryNo(d, c, j, y)
    BY <1>2, <1>4, <2>2, <2>3, AllEntries
  <2>5. EntryNo(d, c, j, y) = End
    BY <2>1, <2>2, <2>3 DEF EntryNo
  <2>6. j * e + y + 1 \in Nat
    BY <2>2, <2>3
  <2> QED BY <2>4, <2>5, <2>6
<1>9. PICK x \in Nat : /\ x \in 1 .. (k + 1) * e /\ AllIn(d, c)[x] = End
                       /\ \A y \in 1 .. x - 1 : AllIn(d, c)[y] # End
  <2> DEFINE T == {x \in Nat : x \in 1 .. (k + 1) * e /\ AllIn(d, c)[x] = End}
  <2>1. T # {} /\ T \in SUBSET Nat
    BY <1>8
  <2>2. PICK x \in T : \A y \in T : x <= y
    BY <2>1, NatLeast
  <2>3. ASSUME NEW y \in 1 .. x - 1 PROVE AllIn(d, c)[y] # End
    <3>1. x \in Nat /\ x \in 1 .. (k + 1) * e /\ (k + 1) * e \in Nat
      BY <1>4, <2>2
    <3>2. y \in Nat /\ y \in 1 .. (k + 1) * e /\ ~(x <= y)
      BY <3>1
    <3>3. y \notin T
      BY <2>2, <3>2
    <3> QED BY <3>2, <3>3
  <2> QED BY <2>2, <2>3
<1>10. DOMAIN AllIn(d, c) = 1 .. (k + 1) * e
  BY <1>2, <1>4 DEF AllIn
<1>11. PICK z : z = EndIn(d, c)
  OBVIOUS
<1>12. z \in DOMAIN AllIn(d, c) /\ AllIn(d, c)[z] = End /\ \A y \in 1 .. z - 1 : AllIn(d, c)[y] # End
  <2>1. \E y \in DOMAIN AllIn(d, c) : AllIn(d, c)[y] = End /\ \A u \in 1 .. y - 1 : AllIn(d, c)[u] # End
    BY <1>9, <1>10
  <2> QED BY <1>11, <2>1, Zenon DEF EndIn
<1>13. /\ EndIn(d, c) \in 1 .. (LastIn(d, c) + 1) * EntriesIn(d) /\ AllIn(d, c)[EndIn(d, c)] = End
       /\ \A y \in 1 .. EndIn(d, c) - 1 : AllIn(d, c)[y] # End
  BY <1>2, <1>4, <1>10, <1>11, <1>12
<1> QED BY <1>1, <1>4, <1>6, <1>7, <1>13 DEF DirFacts

\* One entry more.
KeptStep(all, k) ==
  IF all[k] = Deleted THEN KeptOf(all)[k] = KeptOf(all)[k - 1]
  ELSE /\ Len(KeptOf(all)[k]) = Len(KeptOf(all)[k - 1]) + 1
       /\ KeptOf(all)[k][Len(KeptOf(all)[k - 1]) + 1] = all[k]
       /\ \A i \in 1 .. Len(KeptOf(all)[k - 1]) : KeptOf(all)[k][i] = KeptOf(all)[k - 1][i]

LEMMA KeptType ==
  ASSUME NEW all, NEW V, \A k \in Nat \ {0} : all[k] \in V, NEW m \in Nat
  PROVE  KeptOf(all)[m] \in Seq(V)
<1> DEFINE T == {k \in Nat : KeptOf(all)[k] \notin Seq(V)}
<1>1. SUFFICES ASSUME T # {} PROVE FALSE
  OBVIOUS
<1>2. T \in SUBSET Nat
  OBVIOUS
<1>3. PICK k \in T : \A y \in T : k <= y
  BY <1>1, <1>2, NatLeast
<1>4. k \in Nat
  BY <1>2
<1>5. <<>> \in Seq(V)
  OBVIOUS
<1>6. k # 0
  BY <1>3, <1>5, KeptSteps
<1>7. k - 1 \in Nat /\ ~(k <= k - 1) /\ k \in Nat \ {0}
  BY <1>4, <1>6
<1>8. KeptOf(all)[k - 1] \in Seq(V)
  BY <1>3, <1>7
<1>9. PICK s \in Seq(V) : s = KeptOf(all)[k - 1]
  BY <1>8
<1>10. KeptOf(all)[k] = IF all[k] = Deleted THEN s ELSE Append(s, all[k])
  BY <1>7, <1>9, KeptSteps
<1>11. Append(s, all[k]) \in Seq(V)
  BY <1>7
<1> QED BY <1>3, <1>10, <1>11

LEMMA KeptStepIs ==
  ASSUME NEW all, NEW k \in Nat \ {0}
  PROVE  KeptStep(all, k) /\ Len(KeptOf(all)[k]) \in Nat /\ Len(KeptOf(all)[k - 1]) \in Nat
<1>1. PICK V : V = {all[i] : i \in Nat \ {0}}
  OBVIOUS
<1>2. \A i \in Nat \ {0} : all[i] \in V
  BY <1>1
<1>3. k - 1 \in Nat /\ k \in Nat
  OBVIOUS
<1>4. PICK s \in Seq(V) : s = KeptOf(all)[k - 1]
  BY <1>2, <1>3, KeptType
<1>5. PICK t \in Seq(V) : t = KeptOf(all)[k]
  BY <1>2, <1>3, KeptType
<1>6. t = IF all[k] = Deleted THEN s ELSE Append(s, all[k])
  BY <1>4, <1>5, KeptSteps
<1>7. Len(s) \in Nat /\ Len(t) \in Nat
  OBVIOUS
<1>8. CASE all[k] = Deleted
  BY <1>4, <1>5, <1>6, <1>7, <1>8 DEF KeptStep
<1>9. CASE all[k] # Deleted
  <2>1. PICK x \in V : x = all[k]
    BY <1>2
  <2>2. t = Append(s, x)
    BY <1>6, <1>9, <2>1
  <2>3. Len(t) = Len(s) + 1 /\ t[Len(s) + 1] = x /\ \A i \in 1 .. Len(s) : t[i] = s[i]
    BY <2>2
  <2> QED BY <1>4, <1>5, <1>7, <1>9, <2>1, <2>3 DEF KeptStep
<1> QED BY <1>8, <1>9

\* The first entries stay, at their places, when more come.
KeptGrows(all, k, m) ==
  /\ Len(KeptOf(all)[k]) \in Nat /\ Len(KeptOf(all)[m]) \in Nat
  /\ Len(KeptOf(all)[k]) <= Len(KeptOf(all)[m])
  /\ \A i \in 1 .. Len(KeptOf(all)[k]) : KeptOf(all)[m][i] = KeptOf(all)[k][i]

LEMMA KeptStart == ASSUME NEW all PROVE KeptOf(all)[0] = <<>> /\ Len(KeptOf(all)[0]) = 0
<1>1. KeptOf(all)[0] = <<>>
  BY KeptSteps
<1> QED BY <1>1

LEMMA KeptMore ==
  ASSUME NEW all, NEW k \in Nat, NEW m \in Nat, k <= m
  PROVE  KeptGrows(all, k, m)
<1> DEFINE T == {j \in Nat : k <= j /\ ~KeptGrows(all, k, j)}
<1>1. SUFFICES ASSUME T # {} PROVE FALSE
  OBVIOUS
<1>2. T \in SUBSET Nat
  OBVIOUS
<1>3. PICK j \in T : \A y \in T : j <= y
  BY <1>1, <1>2, NatLeast
<1>4. j \in Nat /\ k <= j /\ ~KeptGrows(all, k, j)
  BY <1>3
<1>5. j # k
  <2>1. Len(KeptOf(all)[k]) \in Nat
    <3>1. k = 0 \/ k \in Nat \ {0}
      OBVIOUS
    <3> QED BY <3>1, KeptStart, KeptStepIs
  <2> QED BY <1>4, <2>1 DEF KeptGrows
<1>6. j - 1 \in Nat /\ k <= j - 1 /\ ~(j <= j - 1) /\ j \in Nat \ {0}
  BY <1>4, <1>5
<1>7. KeptGrows(all, k, j - 1)
  <2>1. j - 1 \notin T
    BY <1>3, <1>6
  <2> QED BY <1>6, <2>1
<1>8. KeptStep(all, j) /\ Len(KeptOf(all)[j]) \in Nat /\ Len(KeptOf(all)[j - 1]) \in Nat
  BY <1>6, KeptStepIs
<1>9. PICK a, b, c : a = KeptOf(all)[k] /\ b = KeptOf(all)[j - 1] /\ c = KeptOf(all)[j]
  OBVIOUS
<1>10. /\ Len(a) \in Nat /\ Len(b) \in Nat /\ Len(c) \in Nat /\ Len(a) <= Len(b)
       /\ \A i \in 1 .. Len(a) : b[i] = a[i]
  BY <1>7, <1>8, <1>9 DEF KeptGrows
<1>11. c = b \/ (Len(c) = Len(b) + 1 /\ \A i \in 1 .. Len(b) : c[i] = b[i])
  BY <1>8, <1>9 DEF KeptStep
<1>12. Len(a) <= Len(c) /\ \A i \in 1 .. Len(a) : c[i] = a[i]
  <2>1. CASE c = b
    BY <1>10, <2>1
  <2>2. CASE Len(c) = Len(b) + 1 /\ \A i \in 1 .. Len(b) : c[i] = b[i]
    <3>1. \A i \in 1 .. Len(a) : i \in 1 .. Len(b)
      BY <1>10
    <3> QED BY <1>10, <2>2, <3>1
  <2> QED BY <1>11, <2>1, <2>2
<1> QED BY <1>4, <1>9, <1>10, <1>12 DEF KeptGrows

\* Each of what is in use is one of the entries.
KeptFrom(all, m) ==
  \A i \in 1 .. Len(KeptOf(all)[m]) : \E k \in 1 .. m : KeptOf(all)[m][i] = all[k] /\ all[k] # Deleted

LEMMA KeptComes ==
  ASSUME NEW all, NEW m \in Nat
  PROVE  KeptFrom(all, m)
<1> DEFINE T == {j \in Nat : ~KeptFrom(all, j)}
<1>1. SUFFICES ASSUME T # {} PROVE FALSE
  OBVIOUS
<1>2. T \in SUBSET Nat
  OBVIOUS
<1>3. PICK j \in T : \A y \in T : j <= y
  BY <1>1, <1>2, NatLeast
<1>4. j \in Nat /\ ~KeptFrom(all, j)
  BY <1>3
<1>5. j # 0
  BY <1>4, KeptStart DEF KeptFrom
<1>6. j - 1 \in Nat /\ ~(j <= j - 1) /\ j \in Nat \ {0}
  BY <1>4, <1>5
<1>7. KeptFrom(all, j - 1)
  BY <1>3, <1>6
<1>8. KeptStep(all, j) /\ Len(KeptOf(all)[j]) \in Nat /\ Len(KeptOf(all)[j - 1]) \in Nat
  BY <1>6, KeptStepIs
<1>9. PICK b, c : b = KeptOf(all)[j - 1] /\ c = KeptOf(all)[j]
  OBVIOUS
<1>10. /\ \A i \in 1 .. Len(b) : \E k \in 1 .. j - 1 : b[i] = all[k] /\ all[k] # Deleted
       /\ Len(b) \in Nat /\ Len(c) \in Nat
  BY <1>7, <1>8, <1>9 DEF KeptFrom
<1>11. \/ c = b
       \/ /\ all[j] # Deleted /\ Len(c) = Len(b) + 1 /\ c[Len(b) + 1] = all[j]
          /\ \A i \in 1 .. Len(b) : c[i] = b[i]
  BY <1>8, <1>9 DEF KeptStep
<1>12. \A k \in 1 .. j - 1 : k \in 1 .. j
  BY <1>6
<1>13. ASSUME NEW i \in 1 .. Len(c) PROVE \E k \in 1 .. j : c[i] = all[k] /\ all[k] # Deleted
  <2>1. CASE i \in 1 .. Len(b)
    <3>1. c[i] = b[i]
      BY <1>11, <2>1
    <3>2. PICK k \in 1 .. j - 1 : b[i] = all[k] /\ all[k] # Deleted
      BY <1>10, <2>1
    <3> QED BY <1>12, <3>1, <3>2
  <2>2. CASE i \notin 1 .. Len(b)
    <3>1. c # b
      BY <2>2
    <3>2. i = Len(b) + 1
      BY <1>10, <1>11, <2>2, <3>1
    <3>3. j \in 1 .. j
      BY <1>6
    <3> QED BY <1>11, <3>1, <3>2, <3>3
  <2> QED BY <2>1, <2>2
<1> QED BY <1>4, <1>9, <1>13 DEF KeptFrom

\* The entries in use, by the layout of the card, are those of the lists above.
ChainAll(c) ==
  [i \in 1 .. Len(Chain(c)) * EntriesIn(disk) |->
     disk.dir[Chain(c)[1 + ((i - 1) \div EntriesIn(disk))]][1 + ((i - 1) % EntriesIn(disk))]]
FirstEnd(all) == CHOOSE i \in DOMAIN all : all[i] = End /\ \A j \in 1 .. i - 1 : all[j] # End

LEMMA EntriesAre ==
  ASSUME NEW c, LastIn(disk, c) \in Nat, EntriesIn(disk) \in Nat \ {0}
  PROVE  Entries(c) = UsedIn(disk, c)
<1>1. PICK l \in Nat : l = LastIn(disk, c)
  OBVIOUS
<1>2. PICK e \in Nat \ {0} : e = EntriesIn(disk)
  OBVIOUS
<1>3. Chain(c) = [i \in 1 .. l + 1 |-> Walk(disk, c)[i - 1]]
  BY <1>1, Zenon DEF Chain, LastIn
<1>4. Len(Chain(c)) = l + 1
  BY <1>3
<1>5. PICK all : all = ChainAll(c)
  OBVIOUS
<1>a. all = [i \in 1 .. Len(Chain(c)) * e |-> disk.dir[Chain(c)[1 + ((i - 1) \div e)]][1 + ((i - 1) % e)]]
  BY <1>2, <1>5, Zenon DEF ChainAll
<1>6. all = AllIn(disk, c)
  <2>1. Len(Chain(c)) * e = (l + 1) * e
    BY <1>4
  <2>2. ASSUME NEW i \in 1 .. (l + 1) * e
        PROVE  Chain(c)[1 + ((i - 1) \div e)] = Walk(disk, c)[(i - 1) \div e]
    <3>1. (l + 1) * e \in Nat
      OBVIOUS
    <3>2. PICK x \in Nat : x = i - 1 /\ x < (l + 1) * e
      BY <3>1
    <3>3. PICK q \in Nat : q = x \div e
      BY DivModOf
    <3>4. q < l + 1
      BY <3>2, <3>3, DivBelow
    <3>5. 1 + q \in 1 .. l + 1 /\ (1 + q) - 1 = q
      BY <3>4
    <3>6. Chain(c)[1 + q] = Walk(disk, c)[q]
      BY <1>3, <3>5
    <3> QED BY <3>2, <3>3, <3>6
  <2>3. all = [i \in 1 .. (l + 1) * e |-> disk.dir[Walk(disk, c)[(i - 1) \div e]][1 + ((i - 1) % e)]]
    BY <1>a, <2>1, <2>2
  <2> QED BY <1>1, <1>2, <2>3, Zenon DEF AllIn
<1>7. Entries(c) = KeptOf(ChainAll(c))[FirstEnd(ChainAll(c)) - 1]
  BY Zenon DEF Entries, KeptOf, FirstEnd, ChainAll
<1>8. EndIn(disk, c) = FirstEnd(AllIn(disk, c))
  BY Zenon DEF EndIn, FirstEnd
<1> QED BY <1>5, <1>6, <1>7, <1>8, Zenon DEF UsedIn

\* What is known of the entries in use of a directory.
UsedFacts(d, c) ==
  /\ Len(UsedIn(d, c)) \in Nat /\ DOMAIN UsedIn(d, c) = 1 .. Len(UsedIn(d, c))
  /\ Len(UsedIn(d, c)) = 0 => UsedIn(d, c) = <<>>
  /\ \A i \in 1 .. Len(UsedIn(d, c)) : SoundEntry(d, UsedIn(d, c)[i])

LEMMA DirUsed ==
  ASSUME NEW d, SoundCard(d), NEW c, SoundDirectory(d, c)
  PROVE  UsedFacts(d, c)
<1>1. PICK all : all = AllIn(d, c)
  OBVIOUS
<1>2. DirFacts(d, c)
  BY SoundDirFacts
<1>3. PICK e \in Nat \ {0} : e = EntriesIn(d)
  BY SoundSizes
<1>4. PICK l \in Nat : l = LastIn(d, c)
  BY <1>2 DEF DirFacts, ChainFacts
<1>5. (l + 1) * e \in Nat /\ (l + 1) * e > 0
  OBVIOUS
<1>6. PICK m \in Nat : m = EndIn(d, c) - 1 /\ m < (l + 1) * e
  BY <1>2, <1>3, <1>4, <1>5 DEF DirFacts
<1>7. UsedIn(d, c) = KeptOf(all)[m]
  BY <1>1, <1>6 DEF UsedIn
<1>8. PICK V : V = {all[i] : i \in Nat \ {0}}
  OBVIOUS
<1>9. KeptOf(all)[m] \in Seq(V)
  BY <1>8, KeptType
<1>10. ASSUME NEW k \in 1 .. m PROVE SoundEntry(d, all[k])
  <2>1. PICK x \in Nat : x = k - 1 /\ x < (l + 1) * e /\ k = x + 1
    BY <1>6
  <2>2. PICK j \in Nat : j = x \div e
    BY DivModOf
  <2>3. PICK i \in 0 .. e - 1 : x = e * j + i
    BY <2>2, DivModOf
  <2>4. j < l + 1
    BY <2>1, <2>2, DivBelow
  <2>5. j \in 0 .. l
    BY <2>4
  <2>6. all[j * e + i + 1] = EntryNo(d, c, j, i)
    BY <1>1, <1>3, <1>4, <2>5, AllEntries
  <2>7. j * e + i + 1 = k
    BY <2>1, <2>3
  <2>8. SoundEntry(d, EntryNo(d, c, j, i))
    BY <1>2, <1>3, <1>4, <2>5 DEF DirFacts
  <2> QED BY <2>6, <2>7, <2>8
<1>11. PICK s \in Seq(V) : s = UsedIn(d, c)
  BY <1>7, <1>9
<1>12. Len(s) \in Nat /\ DOMAIN s = 1 .. Len(s) /\ (Len(s) = 0 => s = <<>>)
  OBVIOUS
<1>13. \A i \in 1 .. Len(s) : \E k \in 1 .. m : s[i] = all[k]
  BY <1>7, <1>11, KeptComes DEF KeptFrom
<1>14. \A i \in 1 .. Len(s) : SoundEntry(d, s[i])
  BY <1>10, <1>13
<1> QED BY <1>11, <1>12, <1>14 DEF UsedFacts

-----------------------------------------------------------------------------
(* Memory, as the writes that made it.                                     *)

\* w writes none of the size bytes at p
Apart(w, p, size) == w.addr + w.size <= p \/ p + size <= w.addr
\* the write number i is the last to byte p, and to the size bytes from there
WrittenBy(ws, i, p, size) ==
  /\ i \in 1 .. Len(ws) /\ ws[i].addr <= p /\ p < ws[i].addr + ws[i].size
  /\ \A j \in i + 1 .. Len(ws) : Apart(ws[j], p, size)
\* byte p holds what the card has at an offset of a sector
SectorAt(ws, p, lba, off) ==
  \E i \in 1 .. Len(ws) :
    /\ WrittenBy(ws, i, p, 1) /\ ws[i].what[1] = "sd"
    /\ ws[i].what[2] + (p - ws[i].addr) \div NBYTES_PER_SECTOR = lba
    /\ (p - ws[i].addr) % NBYTES_PER_SECTOR = off
\* an entry of a result is at p
EntryAt(ws, p, e) ==
  \E i \in 1 .. Len(ws) :
    /\ WrittenBy(ws, i, p, PiDirentSize) /\ ws[i].addr = p
    /\ ws[i].what[1] = "dirent" /\ ws[i].what[2] = DirentConvert(e)

IsWrite(w) == w.addr \in Nat /\ w.size \in Nat
WritesOK(ws) == ws \in Seq({ws[i] : i \in 1 .. Len(ws)}) /\ \A i \in 1 .. Len(ws) : IsWrite(ws[i])
\* t is ws and one write more
OneMore(ws, w, t) ==
  /\ Len(ws) \in Nat /\ Len(t) = Len(ws) + 1 /\ t[Len(ws) + 1] = w
  /\ \A i \in 1 .. Len(ws) : t[i] = ws[i]

LEMMA MoreWrites ==
  ASSUME NEW ws, WritesOK(ws), NEW w, IsWrite(w), NEW t, t = Append(ws, w)
  PROVE  OneMore(ws, w, t) /\ WritesOK(t)
<1>1. PICK R : R = {ws[i] : i \in 1 .. Len(ws)} \cup {w}
  OBVIOUS
<1>2. PICK s \in Seq(R) : s = ws
  <2>1. ws \in Seq({ws[i] : i \in 1 .. Len(ws)})
    BY DEF WritesOK
  <2>2. {ws[i] : i \in 1 .. Len(ws)} \subseteq R
    BY <1>1
  <2>3. Seq({ws[i] : i \in 1 .. Len(ws)}) \subseteq Seq(R)
    BY <2>2
  <2> QED BY <2>1, <2>3
<1>3. w \in R
  BY <1>1
<1>4. Append(s, w) \in Seq(R)
  BY <1>3
<1>5. PICK u \in Seq(R) : u = t
  BY <1>2, <1>4
<1>6. /\ Len(s) \in Nat /\ Len(u) = Len(s) + 1 /\ u[Len(s) + 1] = w
      /\ \A i \in 1 .. Len(s) : u[i] = s[i]
  <2>1. u = Append(s, w)
    BY <1>2, <1>5
  <2> QED BY <1>3, <2>1
<1>7. OneMore(ws, w, t)
  BY <1>2, <1>5, <1>6 DEF OneMore
<1>8. u \in Seq({u[i] : i \in 1 .. Len(u)})
  <2>1. PICK S : S = {u[i] : i \in 1 .. Len(u)}
    OBVIOUS
  <2>2. \A i \in 1 .. Len(u) : u[i] \in S
    BY <2>1
  <2>3. Len(u) \in Nat /\ u = [i \in 1 .. Len(u) |-> u[i]]
    OBVIOUS
  <2>4. u \in Seq(S)
    BY <2>2, <2>3
  <2> QED BY <2>1, <2>4
<1>9. \A i \in 1 .. Len(u) : IsWrite(u[i])
  <2>1. \A i \in 1 .. Len(s) : IsWrite(s[i])
    BY <1>2 DEF WritesOK
  <2>2. \A i \in 1 .. Len(u) : i \in 1 .. Len(s) \/ i = Len(s) + 1
    BY <1>6
  <2> QED BY <1>6, <2>1, <2>2
<1> QED BY <1>5, <1>7, <1>8, <1>9 DEF WritesOK

LEMMA WrittenStays ==
  ASSUME NEW ws, NEW w, NEW t, OneMore(ws, w, t), NEW i \in 1 .. Len(ws), NEW p, NEW size,
         WrittenBy(ws, i, p, size), Apart(w, p, size)
  PROVE  WrittenBy(t, i, p, size) /\ i \in 1 .. Len(t) /\ t[i] = ws[i]
<1>1. i \in 1 .. Len(t) /\ t[i] = ws[i]
  BY DEF OneMore
<1>2. ASSUME NEW j \in i + 1 .. Len(t) PROVE Apart(t[j], p, size)
  <2>1. j \in i + 1 .. Len(ws) \/ j = Len(ws) + 1
    BY DEF OneMore
  <2>2. CASE j \in i + 1 .. Len(ws)
    <3>1. t[j] = ws[j]
      BY <2>2 DEF OneMore
    <3> QED BY <2>2, <3>1 DEF WrittenBy
  <2>3. CASE j = Len(ws) + 1
    BY <2>3 DEF OneMore
  <2> QED BY <2>1, <2>2, <2>3
<1> QED BY <1>1, <1>2 DEF WrittenBy

\* What lies apart from a write stays.
LEMMA SectorStays ==
  ASSUME NEW ws, NEW w, NEW t, OneMore(ws, w, t), NEW p, NEW lba, NEW off,
         SectorAt(ws, p, lba, off), Apart(w, p, 1)
  PROVE  SectorAt(t, p, lba, off)
<1>1. PICK i \in 1 .. Len(ws) :
        /\ WrittenBy(ws, i, p, 1) /\ ws[i].what[1] = "sd"
        /\ ws[i].what[2] + (p - ws[i].addr) \div NBYTES_PER_SECTOR = lba
        /\ (p - ws[i].addr) % NBYTES_PER_SECTOR = off
  BY DEF SectorAt
<1>2. WrittenBy(t, i, p, 1) /\ i \in 1 .. Len(t) /\ t[i] = ws[i]
  BY <1>1, WrittenStays
<1> QED BY <1>1, <1>2 DEF SectorAt

LEMMA EntryStays ==
  ASSUME NEW ws, NEW w, NEW t, OneMore(ws, w, t), NEW p, NEW e,
         EntryAt(ws, p, e), Apart(w, p, PiDirentSize)
  PROVE  EntryAt(t, p, e)
<1>1. PICK i \in 1 .. Len(ws) :
        /\ WrittenBy(ws, i, p, PiDirentSize) /\ ws[i].addr = p
        /\ ws[i].what[1] = "dirent" /\ ws[i].what[2] = DirentConvert(e)
  BY DEF EntryAt
<1>2. WrittenBy(t, i, p, PiDirentSize) /\ i \in 1 .. Len(t) /\ t[i] = ws[i]
  BY <1>1, WrittenStays
<1> QED BY <1>1, <1>2 DEF EntryAt

\* What a write puts into memory.
LEMMA SectorWritten ==
  ASSUME NEW ws, NEW w, IsWrite(w), NEW t, OneMore(ws, w, t), NEW lba, w.what = <<"sd", lba>>,
         NEW p \in Nat, w.addr <= p, p < w.addr + w.size
  PROVE  SectorAt(t, p, lba + (p - w.addr) \div NBYTES_PER_SECTOR, (p - w.addr) % NBYTES_PER_SECTOR)
<1>1. PICK i \in Nat : i = Len(ws) + 1
  BY DEF OneMore
<1>2. i \in 1 .. Len(t) /\ t[i] = w /\ i + 1 .. Len(t) = {}
  BY <1>1 DEF OneMore
<1>3. WrittenBy(t, i, p, 1)
  BY <1>2 DEF WrittenBy
<1>4. w.what[1] = "sd" /\ w.what[2] = lba
  OBVIOUS
<1> QED BY <1>2, <1>3, <1>4 DEF SectorAt

LEMMA EntryWritten ==
  ASSUME NEW ws, NEW w, IsWrite(w), NEW t, OneMore(ws, w, t), NEW e,
         w.what = <<"dirent", DirentConvert(e)>>, w.size = PiDirentSize
  PROVE  EntryAt(t, w.addr, e)
<1>1. PICK i \in Nat : i = Len(ws) + 1
  BY DEF OneMore
<1>2. i \in 1 .. Len(t) /\ t[i] = w /\ i + 1 .. Len(t) = {}
  BY <1>1 DEF OneMore
<1>3. WrittenBy(t, i, w.addr, PiDirentSize)
  BY <1>2, Sizes DEF WrittenBy, IsWrite
<1>4. w.what[1] = "dirent" /\ w.what[2] = DirentConvert(e)
  OBVIOUS
<1> QED BY <1>2, <1>3, <1>4 DEF EntryAt

\* What is read from memory.
LEMMA LastWriteIs ==
  ASSUME WritesOK(wrote), NEW p \in Nat, NEW size \in Nat \ {0}, NEW i \in 1 .. Len(wrote),
         WrittenBy(wrote, i, p, size)
  PROVE  LastWrite(p) = i /\ i # 0
<1>1. PICK C : C = {j \in 1 .. Len(wrote) : Covers(j, p)}
  OBVIOUS
<1>2. i \in C
  BY <1>1 DEF WrittenBy, Covers
<1>3. ASSUME NEW j \in C PROVE j <= i
  <2>1. j \in 1 .. Len(wrote) /\ Covers(j, p) /\ IsWrite(wrote[j])
    BY <1>1 DEF WritesOK
  <2>2. ~ Apart(wrote[j], p, size)
    BY <2>1 DEF Covers, Apart, IsWrite
  <2>3. j \notin i + 1 .. Len(wrote)
    BY <2>2 DEF WrittenBy
  <2> QED BY <2>1, <2>3
<1>4. PICK x : x = CHOOSE k \in C : \A j \in C : j <= k
  OBVIOUS
<1>5. x \in C /\ \A j \in C : j <= x
  BY <1>2, <1>3, <1>4, Zenon
<1>6. x = i
  <2>1. x \in Int /\ x <= i /\ i <= x
    BY <1>1, <1>2, <1>3, <1>5
  <2> QED BY <2>1
<1>7. LastWrite(p) = x
  <2>1. C # {}
    BY <1>2
  <2> QED BY <1>1, <1>4, <2>1, Zenon DEF LastWrite
<1> QED BY <1>6, <1>7

LEMMA SectorRead ==
  ASSUME WritesOK(wrote), NEW p \in Nat, NEW lba, NEW off, SectorAt(wrote, p, lba, off)
  PROVE  FromCard(p) /\ LbaAt(p) = lba /\ LbaOffset(p) = off
<1>1. PICK i \in 1 .. Len(wrote) :
        /\ WrittenBy(wrote, i, p, 1) /\ wrote[i].what[1] = "sd"
        /\ wrote[i].what[2] + (p - wrote[i].addr) \div NBYTES_PER_SECTOR = lba
        /\ (p - wrote[i].addr) % NBYTES_PER_SECTOR = off
  BY DEF SectorAt
<1>2. LastWrite(p) = i /\ i # 0
  BY <1>1, LastWriteIs
<1> QED BY <1>1, <1>2 DEF FromCard, LbaAt, LbaOffset, Offset

LEMMA EntryRead ==
  ASSUME WritesOK(wrote), NEW p \in Nat, NEW e, EntryAt(wrote, p, e)
  PROVE  IsPiDirentAt(p) /\ PiDirentAt(p) = DirentConvert(e)
<1>1. PICK i \in 1 .. Len(wrote) :
        /\ WrittenBy(wrote, i, p, PiDirentSize) /\ wrote[i].addr = p
        /\ wrote[i].what[1] = "dirent" /\ wrote[i].what[2] = DirentConvert(e)
  BY DEF EntryAt
<1>2. LastWrite(p) = i /\ i # 0
  BY <1>1, LastWriteIs, Sizes
<1>3. Whole(p, PiDirentSize)
  BY <1>1, <1>2 DEF Whole, WrittenBy, Apart
<1>4. Offset(p) = 0
  BY <1>1, <1>2 DEF Offset
<1> QED BY <1>1, <1>2, <1>3, <1>4 DEF IsPiDirentAt, PiDirentAt

-----------------------------------------------------------------------------
(* What a card's table and directories, and results, look like in memory.  *)

DataOf(d) == d.lba_start + d.boot.reserved_area_nsec + d.boot.nfats * d.boot.nsec_per_fat
\* the table of card d is at a
TableIn(ws, d, a) ==
  \A c \in DOMAIN d.fat :
    SectorAt(ws, a + WordSize * c,
             d.lba_start + d.boot.reserved_area_nsec + (WordSize * c) \div NBYTES_PER_SECTOR,
             (WordSize * c) % NBYTES_PER_SECTOR)
\* the first m clusters of directory c are at a
EntryLba(d, c, j, i) ==
  DataOf(d) + (Walk(d, c)[j] - 2) * d.boot.sec_per_cluster + i \div EntriesPerSector
RawIn(ws, d, a, c, m) ==
  \A j \in 0 .. m - 1, i \in 0 .. EntriesIn(d) - 1 :
    SectorAt(ws, a + DirentSize * (j * EntriesIn(d) + i), EntryLba(d, c, j, i),
             DirentSize * (i % EntriesPerSector))
\* the first m of some entries are at a, converted
ArrayIn(ws, a, es, m) == \A i \in 1 .. m : EntryAt(ws, a + PiDirentSize * (i - 1), es[i])

\* t is ws, or ws and one write that is not below b
Grows(ws, t, b) == t = ws \/ \E w : IsWrite(w) /\ w.addr >= b /\ OneMore(ws, w, t)

LEMMA SectorKept ==
  ASSUME NEW b \in Nat, NEW ws, NEW t, Grows(ws, t, b), NEW p \in Nat, p < b, NEW lba, NEW off,
         SectorAt(ws, p, lba, off)
  PROVE  SectorAt(t, p, lba, off)
<1>1. CASE t = ws
  BY <1>1
<1>2. CASE t # ws
  <2>1. PICK w : IsWrite(w) /\ w.addr >= b /\ OneMore(ws, w, t)
    BY <1>2 DEF Grows
  <2>2. Apart(w, p, 1)
    BY <2>1 DEF Apart, IsWrite
  <2> QED BY <2>1, <2>2, SectorStays
<1> QED BY <1>1, <1>2

LEMMA EntryKept ==
  ASSUME NEW b \in Nat, NEW ws, NEW t, Grows(ws, t, b), NEW p \in Nat, p + PiDirentSize <= b, NEW e,
         EntryAt(ws, p, e)
  PROVE  EntryAt(t, p, e)
<1>1. CASE t = ws
  BY <1>1
<1>2. CASE t # ws
  <2>1. PICK w : IsWrite(w) /\ w.addr >= b /\ OneMore(ws, w, t)
    BY <1>2 DEF Grows
  <2>2. Apart(w, p, PiDirentSize)
    BY <2>1, Sizes DEF Apart, IsWrite
  <2> QED BY <2>1, <2>2, EntryStays
<1> QED BY <1>1, <1>2

\* How far a table, directory or array reaches.
TableBytes(d) == d.boot.nsec_per_fat * NBYTES_PER_SECTOR
DirBytes(d, m) == DirentSize * (m * EntriesIn(d))

LEMMA TableKept ==
  ASSUME NEW d, SoundCard(d), NEW b \in Nat, NEW ws, NEW t, Grows(ws, t, b),
         NEW a \in Nat, a + TableBytes(d) <= b, TableIn(ws, d, a)
  PROVE  TableIn(t, d, a)
<1> SUFFICES ASSUME NEW c \in DOMAIN d.fat
             PROVE  SectorAt(t, a + WordSize * c,
                      d.lba_start + d.boot.reserved_area_nsec + (WordSize * c) \div NBYTES_PER_SECTOR,
                      (WordSize * c) % NBYTES_PER_SECTOR)
  BY DEF TableIn
<1>1. c \in Nat /\ WordSize * c < TableBytes(d)
  BY Sizes DEF SoundCard, TableBytes
<1>2. PICK x \in Nat : x = WordSize * c /\ x < TableBytes(d)
  BY <1>1, Sizes
<1>3. PICK y \in Nat : y = TableBytes(d)
  BY SoundSizes, Sizes DEF TableBytes
<1>4. a + x \in Nat /\ a + x < b
  BY <1>2, <1>3
<1>5. SectorAt(ws, a + x,
        d.lba_start + d.boot.reserved_area_nsec + (WordSize * c) \div NBYTES_PER_SECTOR,
        (WordSize * c) % NBYTES_PER_SECTOR)
  BY <1>2 DEF TableIn
<1>6. SectorAt(t, a + x,
        d.lba_start + d.boot.reserved_area_nsec + (WordSize * c) \div NBYTES_PER_SECTOR,
        (WordSize * c) % NBYTES_PER_SECTOR)
  BY <1>4, <1>5, SectorKept
<1> QED BY <1>2, <1>6

\* Entry number i of cluster number j is inside the first m clusters.
LEMMA EntryInside ==
  ASSUME NEW D \in Nat \ {0}, NEW e \in Nat \ {0}, NEW m \in Nat, NEW j \in 0 .. m - 1, NEW i \in 0 .. e - 1
  PROVE  D * (j * e + i) \in Nat /\ D * (j * e + i) < D * (m * e)
<1>1. j \in Nat /\ i \in Nat /\ j + 1 <= m /\ i + 1 <= e
  OBVIOUS
<1>2. PICK x \in Nat : x = j * e + i
  BY <1>1
<1>3. x + 1 <= m * e
  <2>1. PICK k \in Nat : k = m - (j + 1) /\ m = k + j + 1
    BY <1>1
  <2>2. m * e = k * e + j * e + e /\ k * e \in Nat
    BY <1>1, <2>1
  <2> QED BY <1>1, <1>2, <2>2
<1>4. PICK y \in Nat : y = m * e
  OBVIOUS
<1>5. D * x + D <= D * y
  <2>1. PICK k \in Nat : y = k + x + 1
    <3>1. y - (x + 1) \in Nat /\ y = (y - (x + 1)) + x + 1
      BY <1>3, <1>4
    <3> QED BY <3>1
  <2>2. D * y = D * k + D * x + D /\ D * k \in Nat
    BY <2>1
  <2> QED BY <2>2
<1>6. D * x \in Nat /\ D * y \in Nat
  OBVIOUS
<1> QED BY <1>2, <1>4, <1>5, <1>6

LEMMA RawKept ==
  ASSUME NEW d, SoundCard(d), NEW b \in Nat, NEW ws, NEW t, Grows(ws, t, b),
         NEW a \in Nat, NEW c, NEW m \in Nat, a + DirBytes(d, m) <= b, RawIn(ws, d, a, c, m)
  PROVE  RawIn(t, d, a, c, m)
<1> SUFFICES ASSUME NEW j \in 0 .. m - 1, NEW i \in 0 .. EntriesIn(d) - 1
             PROVE  SectorAt(t, a + DirentSize * (j * EntriesIn(d) + i), EntryLba(d, c, j, i),
                             DirentSize * (i % EntriesPerSector))
  BY DEF RawIn
<1>1. EntriesIn(d) \in Nat \ {0} /\ DirentSize \in Nat \ {0}
  BY SoundSizes, Sizes
<1>2. PICK x \in Nat : x = DirentSize * (j * EntriesIn(d) + i) /\ x < DirBytes(d, m)
  BY <1>1, EntryInside DEF DirBytes
<1>3. PICK y \in Nat : y = DirBytes(d, m)
  BY <1>1 DEF DirBytes
<1>4. a + x \in Nat /\ a + x < b
  BY <1>2, <1>3
<1>5. SectorAt(ws, a + x, EntryLba(d, c, j, i), DirentSize * (i % EntriesPerSector))
  BY <1>2 DEF RawIn
<1> QED BY <1>2, <1>4, <1>5, SectorKept

LEMMA ArrayKept ==
  ASSUME NEW b \in Nat, NEW ws, NEW t, Grows(ws, t, b), NEW a \in Nat, NEW es, NEW m \in Nat,
         a + PiDirentSize * m <= b, ArrayIn(ws, a, es, m)
  PROVE  ArrayIn(t, a, es, m)
<1> SUFFICES ASSUME NEW i \in 1 .. m
             PROVE  EntryAt(t, a + PiDirentSize * (i - 1), es[i])
  BY DEF ArrayIn
<1>1. PICK D \in Nat \ {0} : D = PiDirentSize
  BY Sizes
<1>2. PICK k \in Nat : m = k + i /\ i - 1 \in Nat
  <2>1. m - i \in Nat /\ m = (m - i) + i /\ i - 1 \in Nat
    OBVIOUS
  <2> QED BY <2>1
<1>3. D * (i - 1) \in Nat /\ D * (i - 1) + D = D * i /\ D * m = D * k + D * i /\ D * k \in Nat /\ D * i \in Nat
  BY <1>2
<1>4. a + D * (i - 1) \in Nat /\ (a + D * (i - 1)) + D <= b
  BY <1>1, <1>3
<1>5. EntryAt(ws, a + D * (i - 1), es[i])
  BY <1>1 DEF ArrayIn
<1>6. EntryAt(t, a + D * (i - 1), es[i])
  BY <1>1, <1>4, <1>5, EntryKept
<1> QED BY <1>1, <1>6

\* The table in memory is read as the card's.
LEMMA TableRead ==
  ASSUME WritesOK(wrote), SoundCard(disk), disk.boot.nfats = 2, fs.fat \in Nat,
         TableIn(wrote, disk, fs.fat), NEW c \in DOMAIN disk.fat
  PROVE  /\ FromCard(fs.fat + WordSize * c) /\ LbaAt(fs.fat + WordSize * c) \in FatLba .. DataLba - 1
         /\ FatAt(c) = disk.fat[c]
<1>1. PICK m \in Nat \ {0} : m = disk.boot.nsec_per_fat
  BY SoundSizes
<1>2. c \in Nat /\ WordSize * c < m * NBYTES_PER_SECTOR
  BY <1>1 DEF SoundCard
<1>3. PICK q \in 0 .. m - 1 : q = (WordSize * c) \div NBYTES_PER_SECTOR
  BY <1>1, <1>2, TableOffset
<1>4. PICK r : r = (WordSize * c) % NBYTES_PER_SECTOR
  OBVIOUS
<1>5. (q % m) * (NBYTES_PER_SECTOR \div WordSize) + r \div WordSize = c
  BY <1>1, <1>2, <1>3, <1>4, TableOffset
<1>6. PICK p \in Nat : p = fs.fat + WordSize * c
  BY <1>2, Sizes
<1>7. PICK f \in Nat : f = FatLba /\ f = disk.lba_start + disk.boot.reserved_area_nsec
  BY SoundSizes DEF FatLba
<1>8. SectorAt(wrote, p, f + q, r)
  BY <1>3, <1>4, <1>6, <1>7 DEF TableIn
<1>9. FromCard(p) /\ LbaAt(p) = f + q /\ LbaOffset(p) = r
  BY <1>8, SectorRead
<1>10. DataLba = f + 2 * m
  BY <1>1, <1>7 DEF DataLba
<1>11. LbaAt(p) \in f .. DataLba - 1
  BY <1>3, <1>9, <1>10
<1>12. FatAt(c) = disk.fat[((LbaAt(p) - FatLba) % m) * (NBYTES_PER_SECTOR \div WordSize) + LbaOffset(p) \div WordSize]
  BY <1>1, <1>6 DEF FatAt, FatOnDisk
<1>13. (f + q) - f = q
  OBVIOUS
<1>14. FatAt(c) = disk.fat[c]
  BY <1>5, <1>7, <1>9, <1>12, <1>13
<1> QED BY <1>6, <1>7, <1>9, <1>11, <1>14

\* A directory in memory is read as the card's.
LEMMA EntrySplit ==
  ASSUME NEW spc \in Nat \ {0}, NEW e \in Nat \ {0}, NEW i \in Nat, i < spc * e
  PROVE  \E q \in 0 .. spc - 1, r \in 0 .. e - 1 : q = i \div e /\ r = i % e /\ i = q * e + r
<1>1. PICK q \in Nat : q = i \div e
  BY DivModOf
<1>2. q < spc
  BY <1>1, DivBelow
<1>3. PICK r \in 0 .. e - 1 : r = i % e
  BY DivModOf
<1>4. i = e * q + r
  BY <1>1, <1>3, DivModOf
<1>5. i = q * e + r
  BY <1>4
<1> QED BY <1>1, <1>2, <1>3, <1>5

LEMMA RawRead ==
  ASSUME WritesOK(wrote), SoundCard(disk), NEW a \in Nat, NEW c, NEW m \in Nat, DirFacts(disk, c),
         RawIn(wrote, disk, a, c, m), m <= LastIn(disk, c) + 1,
         disk.boot.nfats \in Nat,
         NEW j \in 0 .. m - 1, NEW i \in 0 .. EntriesIn(disk) - 1
  PROVE  LET p == a + DirentSize * (j * EntriesIn(disk) + i)
         IN  IsDirentAt(p) /\ DirentAt(p) = EntryNo(disk, c, j, i)
<1>1. PICK spc \in Nat \ {0}, e \in Nat \ {0} : /\ spc = disk.boot.sec_per_cluster /\ e = EntriesPerSector
                                                /\ EntriesIn(disk) = spc * e
  BY SoundSizes, SectorWhole DEF EntriesIn
<1>2. PICK l \in Nat : l = LastIn(disk, c)
  BY DEF DirFacts, ChainFacts
<1>3. j \in 0 .. l /\ i \in Nat /\ i < spc * e
  <2>1. PICK z \in Nat : z = spc * e /\ z = EntriesIn(disk)
    BY <1>1
  <2> QED BY <1>2, <2>1
<1>4. PICK x \in Nat : Walk(disk, c)[j] = x + 2
  <2>1. Walk(disk, c)[j] \in 0 .. ClusterSpace - 1 /\ Walk(disk, c)[j] >= 2
    BY <1>2, <1>3 DEF DirFacts, ChainFacts
  <2>2. Walk(disk, c)[j] - 2 \in Nat /\ Walk(disk, c)[j] = (Walk(disk, c)[j] - 2) + 2
    BY <2>1, Sizes
  <2> QED BY <2>2
<1>5. PICK p \in Nat : p = a + DirentSize * (j * EntriesIn(disk) + i)
  <2>1. DirentSize * (j * EntriesIn(disk) + i) \in Nat
    BY EntryInside, Sizes, SoundSizes
  <2> QED BY <2>1
<1>6. PICK f \in Nat : f = DataLba /\ f = DataOf(disk)
  BY SoundSizes DEF FatLba, DataLba, DataOf
<1>7. PICK q \in 0 .. spc - 1, r \in 0 .. e - 1 : q = i \div e /\ r = i % e /\ i = q * e + r
  <2>1. spc \in Nat \ {0} /\ e \in Nat \ {0} /\ i \in Nat /\ i < spc * e
    BY <1>3
  <2>2. \E q \in 0 .. spc - 1, r \in 0 .. e - 1 : q = i \div e /\ r = i % e /\ i = q * e + r
    BY <2>1, EntrySplit, ZenonT(60)
  <2> QED BY <2>2
<1>8. SectorAt(wrote, p, f + x * spc + q, DirentSize * r)
  <2>1. SectorAt(wrote, p, EntryLba(disk, c, j, i), DirentSize * r)
    BY <1>1, <1>5, <1>7 DEF RawIn
  <2>2. EntryLba(disk, c, j, i) = f + ((x + 2) - 2) * spc + q
    BY <1>1, <1>4, <1>6, <1>7 DEF EntryLba
  <2>3. (x + 2) - 2 = x
    OBVIOUS
  <2> QED BY <2>1, <2>2, <2>3
<1>9. PICK y \in Nat : y = x * spc + q
  OBVIOUS
<1>10. y \div spc = x /\ y % spc = q
  <2>1. y = spc * x + q /\ x \in Int
    BY <1>9
  <2> QED BY <2>1, DivMod, SMTT(60)
<1>11. FromCard(p) /\ LbaAt(p) = f + y /\ LbaOffset(p) = DirentSize * r
  <2>1. f + x * spc + q = f + y
    BY <1>9
  <2> QED BY <1>8, <2>1, SectorRead
<1>12. ClusterOf(LbaAt(p)) = x + 2
  <2>1. (f + y) - f = y
    OBVIOUS
  <2> QED BY <1>1, <1>6, <1>10, <1>11, <2>1 DEF ClusterOf
<1>13. IsDirentAt(p)
  <2>1. x + 2 \in DOMAIN disk.dir
    BY <1>2, <1>3, <1>4 DEF DirFacts
  <2> QED BY <1>6, <1>11, <1>12, <2>1 DEF IsDirentAt
<1>14. DirentAt(p) = disk.dir[x + 2][1 + i]
  <2>1. (DirentSize * r) \div DirentSize = r
    BY <1>1, <1>3, <1>7, EntryOffset
  <2>2. DirentAt(p) = disk.dir[ClusterOf(LbaAt(p))]
                        [1 + ((LbaAt(p) - DataLba) % spc) * e + LbaOffset(p) \div DirentSize]
    BY <1>1 DEF DirentAt, EntryOnDisk
  <2>3. (f + y) - f = y
    OBVIOUS
  <2>4. DirentAt(p) = disk.dir[x + 2][1 + q * e + r]
    BY <1>6, <1>10, <1>11, <1>12, <2>1, <2>2, <2>3
  <2>5. 1 + q * e + r = 1 + i
    BY <1>7
  <2> QED BY <2>4, <2>5
<1> QED BY <1>4, <1>5, <1>13, <1>14 DEF EntryNo


-----------------------------------------------------------------------------
(* The inductive invariant.                                                *)

Mounting  == {"mbr", "info", "fat"}
Mounted   == pc \notin Mounting
\* the root directory's ".." apart, a call begins at a directory
IsStart(d, c) == c = 0 \/ SoundDirectory(d, c)

\* What is there to stay lies below; what is yet written, above.
Low == IF pc \in {"read", "scan", "array", "convert"} THEN buf ELSE alloc_top

TableAt(ws, d, low, a) == a \in Nat /\ a + TableBytes(d) <= low /\ TableIn(ws, d, a)
ListingAt(ws, d, low, l) ==
  /\ SoundDirectory(d, l.dir) /\ l.arr \in Nat /\ l.n = Len(UsedIn(d, l.dir))
  /\ l.arr + PiDirentSize * l.n <= low /\ ArrayIn(ws, l.arr, UsedIn(d, l.dir), l.n)
FoundAt(ws, d, low, s) ==
  /\ SoundDirectory(d, s.dir)
  /\ \A e \in FirstNamed(UsedIn(d, s.dir), s.name) :
       s.dirent \in Nat /\ s.dirent + PiDirentSize <= low /\ EntryAt(ws, s.dirent, e)

CardInv ==
  /\ disk \in Disks /\ WritesOK(wrote)
  /\ pc \notin {"mbr", "info"} => Passes(disk)
FsInv ==
  Mounted => /\ fs.cluster_begin_lba = DataOf(disk)
             /\ fs.sectors_per_cluster = disk.boot.sec_per_cluster
             /\ TableAt(wrote, disk, Low, fs.fat)
GivenInv ==
  /\ ~Mounted => listings = {} /\ found = {}
  /\ \A l \in listings : ListingAt(wrote, disk, Low, l)
  /\ \A s \in found : FoundAt(wrote, disk, Low, s)

OpInv ==
  /\ ~Mounted => op = "mk"
  /\ pc \notin Mounting \cup {"idle"} => op # "mk" /\ IsStart(disk, start)
  /\ pc = "idle" => fault = "none"
  /\ pc = "lookup" => op # "readdir"
  /\ pc \in {"filelength", "file", "struct"} => op = "read"
  /\ op \in {"stat", "read"} => name \in Names

\* The two walks: the one that counts, and the one that reads what was counted.
WalkInv ==
  /\ pc = "length" => /\ cnt \in 1 .. LastIn(disk, start) + 1
                      /\ cl = Walk(disk, start)[cnt - 1]
  /\ pc = "alloc"  => cnt = LastIn(disk, start) + 1
  /\ pc = "read"   =>
       /\ cnt \in 0 .. LastIn(disk, start) /\ cl = Walk(disk, start)[cnt]
       /\ start = 0 => cnt = 0
       /\ buf + DirBytes(disk, LastIn(disk, start) + 1) <= alloc_top
       /\ RawIn(wrote, disk, buf, start, cnt)
       /\ [addr |-> buf, size |-> DirBytes(disk, LastIn(disk, start) + 1), align |-> 4] \in blocks

\* The two scans: the one that counts, and the one that converts what was counted.
ScanInv ==
  /\ pc \in {"scan", "array", "convert"} =>
       /\ SoundDirectory(disk, start)
       /\ RawIn(wrote, disk, buf, start, LastIn(disk, start) + 1)
  /\ pc \in {"scan", "array"} => buf + DirBytes(disk, LastIn(disk, start) + 1) <= alloc_top
  /\ pc \in {"scan", "convert"} => index \in 0 .. EndIn(disk, start) - 1
  /\ pc = "scan"  => n = Len(KeptOf(AllIn(disk, start))[index])
  /\ pc = "array" => n = Len(UsedIn(disk, start))
ArrayInv ==
  /\ pc \in {"convert", "lookup", "filelength", "file"} =>
       /\ SoundDirectory(disk, start) /\ n = Len(UsedIn(disk, start))
       /\ arr + PiDirentSize * n <= alloc_top
  /\ pc = "convert" =>
       /\ buf + DirBytes(disk, LastIn(disk, start) + 1) <= arr
       /\ cnt = Len(KeptOf(AllIn(disk, start))[index])
       /\ ArrayIn(wrote, arr, UsedIn(disk, start), cnt)
       /\ [addr |-> arr, size |-> PiDirentSize * n, align |-> 4] \in blocks
  /\ pc \in {"lookup", "filelength", "file"} => ArrayIn(wrote, arr, UsedIn(disk, start), n)

\* i is the index of the first of some entries with a name, -1 if there is none
IsFirst(es, nm, i) ==
  \/ i = -1 /\ \A k \in 1 .. Len(es) : es[k].name # nm
  \/ /\ i \in 0 .. Len(es) - 1 /\ es[i + 1].name = nm
     /\ \A k \in 1 .. i : es[k].name # nm
FileCluster(es, i) == IF i = -1 THEN 0 ELSE es[i + 1].cluster
File == FileCluster(UsedIn(disk, start), index)
FileInv ==
  /\ pc \in {"filelength", "file"} =>
       /\ IsFirst(UsedIn(disk, start), name, index) /\ SoundChain(disk, File)
       /\ cnt \in 1 .. LastIn(disk, File) + 1
  /\ pc = "filelength" => cl = Walk(disk, File)[cnt - 1]

IInv ==
  /\ TypeOK /\ CardInv /\ FsInv /\ GivenInv /\ OpInv /\ WalkInv /\ ScanInv /\ ArrayInv /\ FileInv
  /\ StaysInBlock /\ StopsOnlyWhen

-----------------------------------------------------------------------------
(* Steps, of the heap and of memory.                                       *)

LEMMA BumpFacts ==
  ASSUME alloc_top \in Nat, NEW x \in Nat \ {0}, K!Bump(alloc_top, x, 4)
  PROVE  /\ alloc_top' \in Nat /\ alloc_top + x <= alloc_top' /\ alloc_top' <= MemEnd
         /\ blocks' = blocks \cup {[addr |-> alloc_top, size |-> x, align |-> 4]}
         /\ [addr |-> alloc_top, size |-> x, align |-> 4] \in K!A!Block
<1>1. /\ alloc_top + K!Taken(x) <= MemEnd /\ alloc_top' = alloc_top + K!Taken(x)
      /\ blocks' = blocks \cup {[addr |-> alloc_top, size |-> x, align |-> 4]}
  BY DEF K!Bump
<1>2. K!Taken(x) \in Nat /\ x <= K!Taken(x)
  <2>1. (x + (4 - 1)) % 4 \in 0 .. 3
    OBVIOUS
  <2> QED BY <2>1 DEF K!Taken, K!Roundup
<1>3. [addr |-> alloc_top, size |-> x, align |-> 4] \in K!A!Block
  BY DEF K!A!Block
<1> QED BY <1>1, <1>2, <1>3

\* What a directory's clusters take.
LEMMA ClusterSize ==
  ASSUME SoundCard(disk), fs.sectors_per_cluster = disk.boot.sec_per_cluster, NEW m \in Nat
  PROVE  /\ ClusterBytes * m = DirBytes(disk, m) /\ DirBytes(disk, m) \in Nat
         /\ m # 0 => DirBytes(disk, m) # 0
<1>1. PICK s \in Nat \ {0} : s = disk.boot.sec_per_cluster
  BY SoundSizes
<1>2. PICK D \in Nat \ {0}, e \in Nat \ {0} :
        D = DirentSize /\ e = EntriesPerSector /\ NBYTES_PER_SECTOR = D * e
  BY Sizes, SectorWhole
<1>3. DirBytes(disk, m) = D * (m * (s * e))
  BY <1>1, <1>2 DEF DirBytes, EntriesIn
<1>4. ClusterBytes * m = (s * (D * e)) * m
  BY <1>1, <1>2 DEF ClusterBytes
<1>5. (s * (D * e)) * m = D * (m * (s * e))
  OBVIOUS
<1>6. PICK y \in Nat \ {0} : y = s * e
  OBVIOUS
<1>7. PICK z \in Nat : z = m * y /\ (m # 0 => z # 0)
  OBVIOUS
<1>8. D * z \in Nat /\ (z # 0 => D * z # 0)
  OBVIOUS
<1> QED BY <1>3, <1>4, <1>5, <1>6, <1>7, <1>8

LEMMA TableAtKept ==
  ASSUME NEW d, SoundCard(d), NEW b \in Nat, NEW c \in Nat, b <= c, NEW ws, NEW t, Grows(ws, t, b),
         NEW a, TableAt(ws, d, b, a)
  PROVE  TableAt(t, d, c, a)
<1>1. a \in Nat /\ a + TableBytes(d) <= b /\ TableIn(ws, d, a)
  BY DEF TableAt
<1>2. TableBytes(d) \in Nat
  BY SoundSizes, Sizes DEF TableBytes
<1>3. TableIn(t, d, a)
  BY <1>1, TableKept
<1>4. a + TableBytes(d) <= c
  BY <1>1, <1>2
<1> QED BY <1>1, <1>3, <1>4 DEF TableAt

LEMMA ListingKept ==
  ASSUME NEW d, SoundCard(d), NEW b \in Nat, NEW c \in Nat, b <= c, NEW ws, NEW t, Grows(ws, t, b),
         NEW l, ListingAt(ws, d, b, l)
  PROVE  ListingAt(t, d, c, l)
<1>1. /\ SoundDirectory(d, l.dir) /\ l.arr \in Nat /\ l.n = Len(UsedIn(d, l.dir))
      /\ l.arr + PiDirentSize * l.n <= b /\ ArrayIn(ws, l.arr, UsedIn(d, l.dir), l.n)
  BY DEF ListingAt
<1>2. l.n \in Nat
  BY <1>1, DirUsed DEF UsedFacts
<1>3. ArrayIn(t, l.arr, UsedIn(d, l.dir), l.n)
  BY <1>1, <1>2, ArrayKept
<1>4. PICK x \in Nat : x = PiDirentSize * l.n
  BY <1>2, Sizes
<1>5. l.arr + PiDirentSize * l.n <= c
  BY <1>1, <1>4
<1> QED BY <1>1, <1>3, <1>5 DEF ListingAt

LEMMA FoundKept ==
  ASSUME NEW d, NEW b \in Nat, NEW c \in Nat, b <= c, NEW ws, NEW t, Grows(ws, t, b),
         NEW s, FoundAt(ws, d, b, s)
  PROVE  FoundAt(t, d, c, s)
<1>1. ASSUME NEW e \in FirstNamed(UsedIn(d, s.dir), s.name)
      PROVE  s.dirent \in Nat /\ s.dirent + PiDirentSize <= c /\ EntryAt(t, s.dirent, e)
  <2>1. s.dirent \in Nat /\ s.dirent + PiDirentSize <= b /\ EntryAt(ws, s.dirent, e)
    BY DEF FoundAt
  <2>2. EntryAt(t, s.dirent, e)
    BY <2>1, EntryKept
  <2> QED BY <2>1, <2>2, Sizes
<1>2. SoundDirectory(d, s.dir)
  BY DEF FoundAt
<1> QED BY <1>1, <1>2 DEF FoundAt

\* Every write of the driver is of a file's contents, or into a block.
FileData(d, w) ==
  w.what[1] = "sd" /\ w.what[2] >= DataOf(d)
    /\ 2 + (w.what[2] - DataOf(d)) \div d.boot.sec_per_cluster \notin DOMAIN d.dir
InBlock(bs, w) == \E b \in bs : b.addr <= w.addr /\ w.addr + w.size <= b.addr + b.size
Stays(d, bs, ws) == \A i \in 1 .. Len(ws) : FileData(d, ws[i]) \/ InBlock(bs, ws[i])

LEMMA StaysIs == StaysInBlock <=> Stays(disk, blocks, wrote)
<1>1. DataLba = DataOf(disk)
  BY DEF DataLba, FatLba, DataOf
<1>2. ASSUME NEW i \in 1 .. Len(wrote)
      PROVE  /\ IsFileData(wrote[i]) <=> FileData(disk, wrote[i])
             /\ Contained(wrote[i]) <=> InBlock(blocks, wrote[i])
  BY <1>1 DEF IsFileData, FileData, Contained, InBlock, ClusterOf
<1> QED BY <1>2 DEF StaysInBlock, Stays

LEMMA StaysMore ==
  ASSUME NEW d, NEW bs, NEW cs, bs \subseteq cs, NEW ws, NEW w, NEW t, OneMore(ws, w, t),
         Stays(d, bs, ws), FileData(d, w) \/ InBlock(cs, w)
  PROVE  Stays(d, cs, t)
<1> SUFFICES ASSUME NEW i \in 1 .. Len(t) PROVE FileData(d, t[i]) \/ InBlock(cs, t[i])
  BY DEF Stays
<1>1. i \in 1 .. Len(ws) \/ i = Len(ws) + 1
  BY DEF OneMore
<1>2. CASE i \in 1 .. Len(ws)
  <2>1. t[i] = ws[i]
    BY <1>2 DEF OneMore
  <2>2. FileData(d, ws[i]) \/ InBlock(bs, ws[i])
    BY <1>2 DEF Stays
  <2>3. InBlock(bs, ws[i]) => InBlock(cs, ws[i])
    BY DEF InBlock
  <2> QED BY <2>1, <2>2, <2>3
<1>3. CASE i = Len(ws) + 1
  BY <1>3 DEF OneMore
<1> QED BY <1>1, <1>2, <1>3

LEMMA StaysPrime == StaysInBlock' <=> Stays(disk', blocks', wrote')
<1>1. (StaysInBlock <=> Stays(disk, blocks, wrote))'
  BY StaysIs, PTL
<1> QED BY <1>1

LEMMA StaysKept ==
  ASSUME StaysInBlock, WritesOK(wrote), disk' = disk, blocks \subseteq blocks',
         NEW w, IsWrite(w), FileData(disk, w) \/ InBlock(blocks', w), wrote' = Append(wrote, w)
  PROVE  StaysInBlock' /\ WritesOK(wrote)' /\ OneMore(wrote, w, wrote')
<1>1. OneMore(wrote, w, wrote') /\ WritesOK(wrote')
  BY MoreWrites
<1>2. Stays(disk, blocks', wrote')
  BY <1>1, StaysIs, StaysMore
<1> QED BY <1>1, <1>2, StaysPrime

LEMMA StaysSame ==
  ASSUME StaysInBlock, WritesOK(wrote), disk' = disk, blocks \subseteq blocks', wrote' = wrote
  PROVE  StaysInBlock' /\ WritesOK(wrote)'
<1>1. WritesOK(wrote')
  BY Zenon
<1>2. Stays(disk, blocks, wrote)
  BY StaysIs
<1>3. Stays(disk', blocks', wrote')
  BY <1>2 DEF Stays, InBlock
<1> QED BY <1>1, <1>3, StaysPrime

\* What stays as it was, whatever a step of a mounted card's calls writes.
LEMMA BaseKept ==
  ASSUME CardInv, FsInv, GivenInv, Mounted, Mounted', disk' = disk, fs' = fs,
         Low \in Nat, Low' \in Nat, Low <= Low', Grows(wrote, wrote', Low), WritesOK(wrote)'
  PROVE  /\ CardInv' /\ FsInv'
         /\ \A l \in listings : ListingAt(wrote, disk, Low, l)'
         /\ \A s \in found : FoundAt(wrote, disk, Low, s)'
<1>1. SoundCard(disk) /\ Passes(disk)
  BY Fat32Assumption DEF CardInv, Mounted, Mounting
<1>2. CardInv'
  <2>1. Passes(disk)'
    BY <1>1 DEF Passes
  <2> QED BY <2>1 DEF CardInv
<1>3. FsInv'
  <2>1. TableAt(wrote, disk, Low, fs.fat)
    BY DEF FsInv
  <2>2. TableAt(wrote', disk, Low', fs.fat)
    BY <1>1, <2>1, TableAtKept
  <2>3. DataOf(disk)' = DataOf(disk) /\ disk'.boot.sec_per_cluster = disk.boot.sec_per_cluster
    BY DEF DataOf
  <2> QED BY <2>2, <2>3 DEF FsInv
<1>4. ASSUME NEW l \in listings PROVE ListingAt(wrote', disk, Low', l)
  BY <1>1, ListingKept DEF GivenInv
<1>5. ASSUME NEW s \in found PROVE FoundAt(wrote', disk, Low', s)
  BY FoundKept DEF GivenInv
<1> QED BY <1>2, <1>3, <1>4, <1>5

-----------------------------------------------------------------------------
(* What the invariant says of a mounted card, and of a step of its calls.  *)

LEMMA CardFacts ==
  ASSUME IInv, pc \notin {"mbr", "info"}
  PROVE  SoundCard(disk) /\ Passes(disk) /\ disk.boot.nfats = 2
<1>1. Passes(disk) /\ disk \in Disks
  BY DEF IInv, CardInv
<1> QED BY <1>1, Fat32Assumption DEF Passes

LEMMA LowFacts == ASSUME TypeOK PROVE alloc_top \in Nat /\ buf \in Nat /\ Low \in Nat
  BY Sizes DEF TypeOK, Low

LEMMA FsFacts ==
  ASSUME IInv, Mounted
  PROVE  /\ fs.cluster_begin_lba = DataLba /\ DataLba = DataOf(disk) /\ DataLba \in Nat
         /\ fs.sectors_per_cluster = disk.boot.sec_per_cluster
         /\ \A c \in DOMAIN disk.fat :
              FromCard(fs.fat + WordSize * c) /\ LbaAt(fs.fat + WordSize * c) \in FatLba .. DataLba - 1
                /\ FatAt(c) = disk.fat[c]
<1>1. SoundCard(disk) /\ disk.boot.nfats = 2
  BY CardFacts DEF Mounted, Mounting
<1>2. DataLba = DataOf(disk)
  BY DEF DataLba, FatLba, DataOf
<1>3. DataLba \in Nat
  BY <1>1, SoundSizes DEF DataLba, FatLba
<1>4. /\ fs.cluster_begin_lba = DataOf(disk) /\ fs.sectors_per_cluster = disk.boot.sec_per_cluster
      /\ TableAt(wrote, disk, Low, fs.fat)
  BY DEF IInv, FsInv
<1>5. WritesOK(wrote) /\ fs.fat \in Nat /\ TableIn(wrote, disk, fs.fat)
  BY <1>4 DEF IInv, CardInv, TableAt
<1>6. ASSUME NEW c \in DOMAIN disk.fat
      PROVE  FromCard(fs.fat + WordSize * c) /\ LbaAt(fs.fat + WordSize * c) \in FatLba .. DataLba - 1
               /\ FatAt(c) = disk.fat[c]
  BY <1>1, <1>5, TableRead
<1> QED BY <1>2, <1>3, <1>4, <1>6

\* A step that writes.
LEMMA MemoryStep ==
  ASSUME IInv, Mounted, Mounted', disk' = disk, fs' = fs, Low' \in Nat, Low <= Low', blocks \subseteq blocks',
         NEW w, IsWrite(w), w.addr >= Low, FileData(disk, w) \/ InBlock(blocks', w), wrote' = Append(wrote, w)
  PROVE  /\ CardInv' /\ FsInv' /\ StaysInBlock' /\ OneMore(wrote, w, wrote')
         /\ \A l \in listings : ListingAt(wrote, disk, Low, l)'
         /\ \A s \in found : FoundAt(wrote, disk, Low, s)'
<1>1. CardInv /\ FsInv /\ GivenInv /\ StaysInBlock /\ TypeOK
  BY DEF IInv
<1>2. WritesOK(wrote) /\ Low \in Nat
  BY <1>1, LowFacts DEF CardInv
<1>3. StaysInBlock' /\ WritesOK(wrote)' /\ OneMore(wrote, w, wrote')
  BY <1>1, <1>2, StaysKept
<1>4. Grows(wrote, wrote', Low)
  BY <1>3 DEF Grows
<1> QED BY <1>1, <1>2, <1>3, <1>4, BaseKept

\* A step that does not.
LEMMA QuietStep ==
  ASSUME IInv, Mounted, Mounted', disk' = disk, fs' = fs, Low' \in Nat, Low <= Low', blocks \subseteq blocks',
         wrote' = wrote
  PROVE  /\ CardInv' /\ FsInv' /\ StaysInBlock'
         /\ \A l \in listings : ListingAt(wrote, disk, Low, l)'
         /\ \A s \in found : FoundAt(wrote, disk, Low, s)'
<1>1. CardInv /\ FsInv /\ GivenInv /\ StaysInBlock /\ TypeOK
  BY DEF IInv
<1>2. WritesOK(wrote) /\ Low \in Nat
  BY <1>1, LowFacts DEF CardInv
<1>3. StaysInBlock' /\ WritesOK(wrote)'
  BY <1>1, <1>2, StaysSame
<1>4. Grows(wrote, wrote', Low)
  BY DEF Grows
<1> QED BY <1>1, <1>2, <1>3, <1>4, BaseKept

LEMMA GivenSame ==
  ASSUME Mounted', UNCHANGED <<listings, found>>,
         \A l \in listings : ListingAt(wrote, disk, Low, l)', \A s \in found : FoundAt(wrote, disk, Low, s)'
  PROVE  GivenInv'
  BY DEF GivenInv

\* What a link of a chain in memory leads to.
LEMMA Link ==
  ASSUME IInv, Mounted, NEW c, ChainFacts(disk, c), NEW k \in 0 .. LastIn(disk, c)
  PROVE  /\ Masked(Walk(disk, c)[k]) = Walk(disk, c)[k]
         /\ IsLast(FatAt(Walk(disk, c)[k])) => k = LastIn(disk, c)
         /\ ~IsLast(FatAt(Walk(disk, c)[k])) =>
              k + 1 \in 0 .. LastIn(disk, c) /\ FatAt(Walk(disk, c)[k]) = Walk(disk, c)[k + 1]
<1>1. PICK y \in 0 .. ClusterSpace - 1 : y = Walk(disk, c)[k] /\ y \in DOMAIN disk.fat
  BY DEF ChainFacts
<1>2. Masked(y) = y
  <2>1. y \in Nat /\ y < ClusterSpace /\ ClusterSpace \in Nat
    BY <1>1, Sizes
  <2> QED BY <2>1, SmallMod DEF Masked
<1>3. FatAt(y) = disk.fat[y]
  BY <1>1, FsFacts
<1>4. PICK v \in Nat : v = disk.fat[y]
  BY <1>1, CardFacts DEF SoundCard, Mounted, Mounting
<1>5. PICK u \in 0 .. ClusterSpace - 1 : u = v % ClusterSpace
  <2>1. ClusterSpace \in Nat \ {0}
    BY Sizes
  <2>2. v % ClusterSpace \in 0 .. ClusterSpace - 1
    BY <2>1, DivModOf
  <2> QED BY <2>2
<1>6. IsLast(v) <=> Ends(disk, y)
  <2>1. ClusterSpace \in Nat /\ ClusterSpace > 8
    BY Sizes
  <2>2. Ends(disk, y) <=> u \in ClusterSpace - 8 .. ClusterSpace - 1
    BY <1>4, <1>5 DEF Ends
  <2>3. IsLast(v) <=> u >= ClusterSpace - 8
    BY <1>5 DEF IsLast, Masked
  <2> QED BY <1>5, <2>1, <2>2, <2>3
<1>7. LastIn(disk, c) \in Nat
  BY DEF ChainFacts
<1>8. CASE k = LastIn(disk, c)
  <2>1. Ends(disk, y)
    BY <1>1, <1>8 DEF ChainFacts
  <2> QED BY <1>1, <1>2, <1>3, <1>4, <1>6, <1>8, <2>1
<1>9. CASE k # LastIn(disk, c)
  <2>1. k \in 0 .. LastIn(disk, c) - 1 /\ k + 1 \in 0 .. LastIn(disk, c)
    BY <1>7, <1>9
  <2>2. ~Ends(disk, y) /\ Walk(disk, c)[k + 1] = disk.fat[y]
    BY <1>1, <2>1 DEF ChainFacts
  <2> QED BY <1>1, <1>2, <1>3, <1>4, <1>6, <2>1, <2>2
<1> QED BY <1>8, <1>9

\* The chain that a call walks along.
LEMMA StartChain ==
  ASSUME IInv, Mounted, IsStart(disk, start)
  PROVE  ChainFacts(disk, start)
<1>1. SoundCard(disk)
  BY CardFacts DEF Mounted, Mounting
<1>2. SoundChain(disk, start)
  BY <1>1 DEF IsStart, SoundCard, SoundDirectory
<1> QED BY <1>1, <1>2, SoundChainFacts

\* An entry of the directory in memory.
LEMMA RawIs ==
  ASSUME IInv, Mounted, SoundDirectory(disk, start),
         RawIn(wrote, disk, buf, start, LastIn(disk, start) + 1), NEW k \in 0 .. EndIn(disk, start) - 1
  PROVE  /\ InDirectory(k) /\ Raw(k) = AllIn(disk, start)[k + 1]
         /\ k = EndIn(disk, start) - 1 <=> Raw(k) = End
<1>1. SoundCard(disk) /\ disk.boot.nfats = 2
  BY CardFacts DEF Mounted, Mounting
<1>2. DirFacts(disk, start)
  BY <1>1, SoundDirFacts
<1>3. PICK e \in Nat \ {0} : e = EntriesIn(disk)
  BY <1>1, SoundSizes
<1>4. PICK l \in Nat : l = LastIn(disk, start)
  BY <1>2 DEF DirFacts, ChainFacts
<1>5. PICK z \in Nat : z = (l + 1) * e
  OBVIOUS
<1>6. EndIn(disk, start) \in 1 .. z
  BY <1>2, <1>3, <1>4, <1>5 DEF DirFacts
<1>7. k \in Nat /\ k < z
  BY <1>6
<1>8. l + 1 \in Nat \ {0} /\ k < (l + 1) * e
  BY <1>5, <1>7
<1>9. PICK j \in 0 .. (l + 1) - 1, i \in 0 .. e - 1 : k = j * e + i
  <2>1. \E q \in 0 .. (l + 1) - 1, r \in 0 .. e - 1 : q = k \div e /\ r = k % e /\ k = q * e + r
    BY <1>7, <1>8, EntrySplit, ZenonT(60)
  <2> QED BY <2>1
<1>10. j \in 0 .. l
  <2>1. (l + 1) - 1 = l
    OBVIOUS
  <2> QED BY <1>9, <2>1
<1>11. AllIn(disk, start)[j * e + i + 1] = EntryNo(disk, start, j, i)
  BY <1>3, <1>4, <1>9, <1>10, AllEntries
<1>12. PICK p : p = buf + DirentSize * (j * e + i)
  OBVIOUS
<1>13. IsDirentAt(p) /\ DirentAt(p) = EntryNo(disk, start, j, i)
  <2>1. WritesOK(wrote) /\ buf \in Nat
    BY LowFacts DEF IInv, CardInv
  <2>2. l + 1 \in Nat /\ l + 1 <= LastIn(disk, start) + 1 /\ RawIn(wrote, disk, buf, start, l + 1)
    BY <1>4
  <2>3. LET q == buf + DirentSize * (j * EntriesIn(disk) + i)
        IN  IsDirentAt(q) /\ DirentAt(q) = EntryNo(disk, start, j, i)
    BY <1>1, <1>2, <1>3, <1>9, <2>1, <2>2, RawRead
  <2> QED BY <1>3, <1>12, <2>3
<1>14. InDirectory(k) /\ Raw(k) = AllIn(disk, start)[k + 1]
  BY <1>9, <1>11, <1>12, <1>13 DEF InDirectory, Raw
<1>15. k = EndIn(disk, start) - 1 <=> AllIn(disk, start)[k + 1] = End
  <2>1. CASE k = EndIn(disk, start) - 1
    <3>1. k + 1 = EndIn(disk, start)
      BY <1>6, <2>1
    <3> QED BY <1>2, <2>1, <3>1 DEF DirFacts
  <2>2. CASE k # EndIn(disk, start) - 1
    <3>1. k + 1 \in 1 .. EndIn(disk, start) - 1
      BY <1>6, <1>7, <2>2
    <3> QED BY <1>2, <2>2, <3>1 DEF DirFacts
  <2> QED BY <2>1, <2>2
<1> QED BY <1>14, <1>15

-----------------------------------------------------------------------------
(* One lemma a step.                                                       *)

LEMMA EntriesStart ==
  LastIn(disk, start) \in Nat /\ EntriesIn(disk) \in Nat \ {0} => Entries(start) = UsedIn(disk, start)
  BY EntriesAre

LEMMA EntriesStartPrime ==
  LastIn(disk', start') \in Nat /\ EntriesIn(disk') \in Nat \ {0} => Entries(start)' = UsedIn(disk', start')
<1>1. (LastIn(disk, start) \in Nat /\ EntriesIn(disk) \in Nat \ {0} => Entries(start) = UsedIn(disk, start))'
  BY EntriesStart, PTL
<1> QED BY <1>1

\* Entries(start), where a call has begun.
LEMMA EntriesHere ==
  ASSUME IInv, op # "mk", start >= 2, pc # "idle"
  PROVE  /\ LastIn(disk, start) \in Nat /\ EntriesIn(disk) \in Nat \ {0}
         /\ Entries(start) = UsedIn(disk, start)
<1>1. pc \notin Mounting \cup {"idle"}
  BY DEF IInv, OpInv, Mounted
<1>2. SoundCard(disk) /\ IsStart(disk, start)
  BY <1>1, CardFacts DEF IInv, OpInv, Mounting
<1>3. SoundDirectory(disk, start)
  BY <1>2 DEF IsStart
<1>4. LastIn(disk, start) \in Nat /\ EntriesIn(disk) \in Nat \ {0}
  BY <1>2, <1>3, SoundDirFacts, SoundSizes DEF DirFacts, ChainFacts
<1> QED BY <1>4, EntriesAre

\* Where an assertion stops the program, or nothing happens.
LEMMA Held ==
  ASSUME IInv, UNCHANGED <<disk, alloc_top, blocks, wrote, fs, pc, op, start, name, cl, cnt, buf>>,
         UNCHANGED <<index, n, arr, listings, found, files, calls>>,
         \/ fault' = "none"
         \/ /\ fault' = "panic" /\ pc # "idle"
            /\ \/ op = "mk" /\ ~Passes(disk)
               \/ op # "mk" /\ start < 2
               \/ op # "mk" /\ start >= 2 /\ UsedIn(disk, start) = <<>>
               \/ op = "read" /\ start >= 2
                    /\ \A d \in FirstNamed(UsedIn(disk, start), name) : d.cluster < 2
  PROVE  IInv'
<1>1. /\ UNCHANGED <<disk, alloc_top, blocks, wrote, fs, pc, op, start, name, cl, cnt, buf>>
      /\ UNCHANGED <<index, n, arr, listings, found, files, calls>>
      /\ fault' \in {"none", "panic"} /\ (pc = "idle" => fault' = "none")
  OBVIOUS
<1>2. TypeOK' /\ CardInv' /\ FsInv' /\ OpInv'
  <2>1. TypeOK'
    BY <1>1 DEF IInv, TypeOK
  <2>2. CardInv'
    <3>1. CardInv
      BY DEF IInv
    <3> QED BY <1>1, <3>1, Zenon DEF CardInv, WritesOK, IsWrite, Passes
  <2>3. FsInv'
    BY <1>1 DEF IInv, FsInv, Low, Mounted, Mounting
  <2>4. OpInv'
    BY <1>1 DEF IInv, OpInv, Mounted, Mounting
  <2> QED BY <2>1, <2>2, <2>3, <2>4
<1>3. GivenInv'
  BY <1>1 DEF IInv, GivenInv, Low, Mounted, Mounting
<1>4. WalkInv' /\ ScanInv'
  BY <1>1 DEF IInv, WalkInv, ScanInv
<1>5. ArrayInv' /\ FileInv'
  BY <1>1 DEF IInv, ArrayInv, FileInv, File
<1>6. StaysInBlock'
  BY <1>1, StaysSame DEF IInv, CardInv
<1>7. StopsOnlyWhen'
  <2>1. op = "read" => op # "mk"
    OBVIOUS
  <2>2. fault' = "panic" =>
          \/ op = "mk" /\ ~Passes(disk)
          \/ op # "mk" /\ start < 2
          \/ op # "mk" /\ start >= 2 /\ Entries(start) = <<>>
          \/ op = "read" /\ start >= 2
               /\ \A d \in FirstNamed(Entries(start), name) : d.cluster < 2
    BY <2>1, EntriesHere
  <2>3. StopsOnlyWhen' <=>
          /\ fault' # "outside"
          /\ fault' = "panic" =>
               \/ op' = "mk" /\ ~Passes(disk')
               \/ op' # "mk" /\ start' < 2
               \/ op' # "mk" /\ start' >= 2 /\ Entries(start)' = <<>>
               \/ op' = "read" /\ start' >= 2
                    /\ \A d \in FirstNamed(Entries(start)', name') : d.cluster < 2
    BY Zenon DEF StopsOnlyWhen
  <2>4. fault' = "panic" /\ op # "mk" /\ start >= 2 => Entries(start)' = Entries(start)
    <3>1. SUFFICES ASSUME fault' = "panic", op # "mk", start >= 2 PROVE Entries(start)' = UsedIn(disk, start)
      BY <1>1, EntriesHere
    <3>2. LastIn(disk', start') \in Nat /\ EntriesIn(disk') \in Nat \ {0}
      BY <1>1, <3>1, EntriesHere
    <3>3. Entries(start)' = UsedIn(disk', start')
      BY <3>2, EntriesStartPrime
    <3> QED BY <1>1, <3>3
  <2> QED BY <1>1, <2>1, <2>2, <2>3, <2>4
<1> QED BY <1>2, <1>3, <1>4, <1>5, <1>6, <1>7 DEF IInv

LEMMA Stopped ==
  ASSUME IInv, Panic, UNCHANGED <<disk, call, calls>>, pc # "idle",
         \/ op = "mk" /\ ~Passes(disk)
         \/ op # "mk" /\ start < 2
         \/ op # "mk" /\ start >= 2 /\ UsedIn(disk, start) = <<>>
         \/ op = "read" /\ start >= 2
              /\ \A d \in FirstNamed(UsedIn(disk, start), name) : d.cluster < 2
  PROVE  IInv'
<1>1. /\ UNCHANGED <<disk, alloc_top, blocks, wrote, fs, pc, op, start, name, cl, cnt, buf>>
      /\ UNCHANGED <<index, n, arr, listings, found, files, calls>> /\ fault' = "panic"
  BY DEF Panic, call, heap, locals, given
<1> QED BY <1>1, Held

LEMMA Stutter == ASSUME IInv, UNCHANGED vars PROVE IInv'
<1>1. /\ UNCHANGED <<disk, alloc_top, blocks, wrote, fs, pc, op, start, name, cl, cnt, buf>>
      /\ UNCHANGED <<index, n, arr, listings, found, files, calls>> /\ fault' = fault
  BY DEF vars
<1>2. TypeOK /\ (pc = "idle" => fault = "none")
  BY DEF IInv, OpInv
<1>3. fault = "panic" =>
        \/ op = "mk" /\ ~Passes(disk)
        \/ op # "mk" /\ start < 2
        \/ op # "mk" /\ start >= 2 /\ UsedIn(disk, start) = <<>>
        \/ op = "read" /\ start >= 2
             /\ \A d \in FirstNamed(UsedIn(disk, start), name) : d.cluster < 2
  <2>1. op = "read" => op # "mk"
    OBVIOUS
  <2>2. fault = "panic" =>
          \/ op = "mk" /\ ~Passes(disk)
          \/ op # "mk" /\ start < 2
          \/ op # "mk" /\ start >= 2 /\ Entries(start) = <<>>
          \/ op = "read" /\ start >= 2
               /\ \A d \in FirstNamed(Entries(start), name) : d.cluster < 2
    BY DEF IInv, StopsOnlyWhen
  <2> QED BY <1>2, <2>1, <2>2, EntriesHere
<1>4. fault \in {"none", "panic"}
  BY <1>2 DEF IInv, TypeOK, StopsOnlyWhen
<1> QED BY <1>1, <1>2, <1>3, <1>4, Held

LEMMA MbrReadKeeps == ASSUME IInv, MbrRead PROVE IInv'
<1>1. pc = "mbr" /\ pc' = "info" /\ fault = "none" /\ wrote' = SdRead(alloc_top, 0, 1)
  BY DEF MbrRead, Running
<1>2. /\ UNCHANGED <<disk, fs, op, start, name, cl, cnt, buf, index, n, arr>>
      /\ UNCHANGED <<listings, found, files, calls, fault>>
  BY DEF MbrRead, call, locals, given
<1>3. TypeOK /\ alloc_top \in Nat
  BY LowFacts DEF IInv
<1>4. /\ alloc_top' \in Nat /\ alloc_top + NBYTES_PER_SECTOR <= alloc_top' /\ alloc_top' <= MemEnd
      /\ blocks' = blocks \cup {[addr |-> alloc_top, size |-> NBYTES_PER_SECTOR, align |-> 4]}
      /\ [addr |-> alloc_top, size |-> NBYTES_PER_SECTOR, align |-> 4] \in K!A!Block
  <2>1. K!Bump(alloc_top, NBYTES_PER_SECTOR, 4)
    BY DEF MbrRead
  <2> QED BY <1>3, <2>1, Sizes, BumpFacts
<1>5. TypeOK'
  BY <1>1, <1>2, <1>3, <1>4, Sizes DEF TypeOK
<1>6. PICK w : w = [addr |-> alloc_top, size |-> 1 * NBYTES_PER_SECTOR, what |-> <<"sd", 0>>]
  OBVIOUS
<1>7. wrote' = Append(wrote, w) /\ IsWrite(w) /\ InBlock(blocks', w)
  BY <1>1, <1>3, <1>4, <1>6, Sizes, SMTT(60) DEF SdRead, Writing, IsWrite, InBlock
<1>8. StaysInBlock' /\ WritesOK(wrote)'
  BY <1>2, <1>4, <1>7, StaysKept DEF IInv, CardInv
<1>9. CardInv' /\ FsInv' /\ GivenInv' /\ OpInv'
  BY <1>1, <1>2, <1>8 DEF IInv, CardInv, FsInv, GivenInv, OpInv, Mounted, Mounting
<1>10. WalkInv' /\ ScanInv' /\ ArrayInv' /\ FileInv'
  BY <1>1 DEF WalkInv, ScanInv, ArrayInv, FileInv
<1>11. StopsOnlyWhen'
  BY <1>1, <1>2 DEF StopsOnlyWhen
<1> QED BY <1>5, <1>8, <1>9, <1>10, <1>11 DEF IInv

LEMMA MkInfoKeeps == ASSUME IInv, MkInfo PROVE IInv'
<1>1. pc = "info" /\ fault = "none" /\ UNCHANGED <<disk, call, calls>> /\ op = "mk"
  BY DEF MkInfo, Running, IInv, OpInv, Mounted, Mounting
<1>2. CASE ~Passes(disk)
  <2>1. Panic
    BY <1>2 DEF MkInfo
  <2> QED BY <1>1, <1>2, <2>1, Stopped
<1>3. CASE Passes(disk)
  <2>1. /\ K!Bump(alloc_top, NBYTES_PER_SECTOR, 4) /\ wrote' = SdRead(alloc_top, disk.lba_start + 1, 1)
        /\ pc' = "fat" /\ UNCHANGED <<fs, locals, given, fault>>
    BY <1>3 DEF MkInfo
  <2>2. /\ UNCHANGED <<disk, fs, op, start, name, cl, cnt, buf, index, n, arr>>
        /\ UNCHANGED <<listings, found, files, calls, fault>>
    BY <1>1, <2>1 DEF call, locals, given
  <2>3. TypeOK /\ alloc_top \in Nat
    BY LowFacts DEF IInv
  <2>4. /\ alloc_top' \in Nat /\ alloc_top + NBYTES_PER_SECTOR <= alloc_top' /\ alloc_top' <= MemEnd
        /\ blocks' = blocks \cup {[addr |-> alloc_top, size |-> NBYTES_PER_SECTOR, align |-> 4]}
        /\ [addr |-> alloc_top, size |-> NBYTES_PER_SECTOR, align |-> 4] \in K!A!Block
    BY <2>1, <2>3, Sizes, BumpFacts
  <2>5. TypeOK'
    BY <2>1, <2>2, <2>3, <2>4, Sizes DEF TypeOK
  <2>6. PICK w : w = [addr |-> alloc_top, size |-> 1 * NBYTES_PER_SECTOR, what |-> <<"sd", disk.lba_start + 1>>]
    OBVIOUS
  <2>7. wrote' = Append(wrote, w) /\ IsWrite(w) /\ InBlock(blocks', w)
    BY <2>1, <2>3, <2>4, <2>6, Sizes DEF SdRead, Writing, IsWrite, InBlock
  <2>8. StaysInBlock' /\ WritesOK(wrote)'
    BY <2>2, <2>4, <2>7, StaysKept DEF IInv, CardInv
  <2>9. CardInv' /\ FsInv' /\ GivenInv' /\ OpInv'
    BY <1>1, <1>3, <2>1, <2>2, <2>8 DEF IInv, CardInv, FsInv, GivenInv, OpInv, Mounted, Mounting, Passes
  <2>10. WalkInv' /\ ScanInv' /\ ArrayInv' /\ FileInv'
    BY <2>1 DEF WalkInv, ScanInv, ArrayInv, FileInv
  <2>11. StopsOnlyWhen'
    BY <1>1, <2>2 DEF StopsOnlyWhen
  <2> QED BY <2>5, <2>8, <2>9, <2>10, <2>11 DEF IInv
<1> QED BY <1>2, <1>3

LEMMA MkFatKeeps == ASSUME IInv, MkFat PROVE IInv'
<1>1. /\ pc = "fat" /\ pc' = "idle" /\ fault = "none"
      /\ fs' = LET b == disk.lba_start + disk.boot.reserved_area_nsec IN
             [fat_begin_lba       |-> b,
              cluster_begin_lba   |-> b + disk.boot.nfats * disk.boot.nsec_per_fat,
              sectors_per_cluster |-> disk.boot.sec_per_cluster,
              fat                 |-> alloc_top]
      /\ wrote' = SdRead(alloc_top, fs'.fat_begin_lba, disk.boot.nfats * disk.boot.nsec_per_fat)
  BY DEF MkFat, Running
<1>2. /\ UNCHANGED <<disk, op, start, name, cl, cnt, buf, index, n, arr>>
      /\ UNCHANGED <<listings, found, files, calls, fault>>
  BY DEF MkFat, call, locals, given
<1>3. TypeOK /\ alloc_top \in Nat
  BY LowFacts DEF IInv
<1>4. SoundCard(disk) /\ disk.boot.nfats = 2 /\ Passes(disk)
  BY <1>1, CardFacts
<1>5. PICK m \in Nat \ {0}, x \in Nat \ {0} :
        m = disk.boot.nsec_per_fat /\ x = (2 * m) * NBYTES_PER_SECTOR /\ x = FatBytes
  <2>1. PICK m \in Nat \ {0} : m = disk.boot.nsec_per_fat
    BY <1>4, SoundSizes
  <2>2. (2 * m) * NBYTES_PER_SECTOR \in Nat \ {0}
    BY Sizes
  <2>3. (2 * m) * NBYTES_PER_SECTOR = FatBytes
    BY <1>4, <2>1 DEF FatBytes
  <2> QED BY <2>1, <2>2, <2>3
<1>6. /\ alloc_top' \in Nat /\ alloc_top + x <= alloc_top' /\ alloc_top' <= MemEnd
      /\ blocks' = blocks \cup {[addr |-> alloc_top, size |-> x, align |-> 4]}
      /\ [addr |-> alloc_top, size |-> x, align |-> 4] \in K!A!Block
  <2>1. K!Bump(alloc_top, x, 4)
    BY <1>5 DEF MkFat
  <2> QED BY <1>3, <2>1, BumpFacts
<1>7. TypeOK'
  BY <1>1, <1>2, <1>3, <1>6, Sizes DEF TypeOK
<1>8. PICK b \in Nat : b = disk.lba_start + disk.boot.reserved_area_nsec
  BY <1>4, SoundSizes
<1>9. PICK w : w = [addr |-> alloc_top, size |-> x, what |-> <<"sd", b>>]
  OBVIOUS
<1>10. wrote' = Append(wrote, w) /\ IsWrite(w) /\ InBlock(blocks', w)
  <2>1. wrote' = SdRead(alloc_top, b, 2 * m)
    BY <1>1, <1>4, <1>5, <1>8
  <2>2. wrote' = Append(wrote, w)
    BY <1>5, <1>9, <2>1 DEF SdRead, Writing
  <2>3. IsWrite(w)
    BY <1>3, <1>9 DEF IsWrite
  <2>4. InBlock(blocks', w)
    BY <1>3, <1>6, <1>9 DEF InBlock
  <2> QED BY <2>2, <2>3, <2>4
<1>11. StaysInBlock' /\ WritesOK(wrote)' /\ OneMore(wrote, w, wrote')
  BY <1>2, <1>6, <1>10, StaysKept DEF IInv, CardInv
<1>12. CardInv'
  BY <1>1, <1>2, <1>4, <1>11 DEF IInv, CardInv, Passes
<1>13. TableIn(wrote', disk, alloc_top)
  <2> SUFFICES ASSUME NEW c \in DOMAIN disk.fat
               PROVE  SectorAt(wrote', alloc_top + WordSize * c,
                        disk.lba_start + disk.boot.reserved_area_nsec + (WordSize * c) \div NBYTES_PER_SECTOR,
                        (WordSize * c) % NBYTES_PER_SECTOR)
    BY DEF TableIn
  <2>1. c \in Nat /\ WordSize * c < m * NBYTES_PER_SECTOR
    BY <1>4, <1>5 DEF SoundCard
  <2>2. PICK y \in Nat : y = WordSize * c
    BY <2>1, Sizes
  <2>3. y < x
    <3>1. PICK z \in Nat : z = m * NBYTES_PER_SECTOR /\ x = z + z
      BY <1>5, Sizes
    <3> QED BY <2>1, <2>2, <3>1
  <2>4. PICK p \in Nat : p = alloc_top + y
    BY <1>3
  <2>5. w.addr <= p /\ p < w.addr + w.size /\ p - w.addr = y /\ w.what = <<"sd", b>>
    BY <1>3, <1>9, <2>3, <2>4
  <2>6. SectorAt(wrote', p, b + (p - w.addr) \div NBYTES_PER_SECTOR, (p - w.addr) % NBYTES_PER_SECTOR)
    BY <1>10, <1>11, <2>5, SectorWritten
  <2> QED BY <1>8, <2>2, <2>4, <2>5, <2>6
<1>14. FsInv'
  <2>1. TableAt(wrote', disk, alloc_top', alloc_top)
    <3>1. PICK z \in Nat : z = m * NBYTES_PER_SECTOR /\ x = z + z
      BY <1>5, Sizes
    <3>2. TableBytes(disk) = z
      BY <1>5, <3>1 DEF TableBytes
    <3>3. alloc_top + z <= alloc_top'
      BY <1>3, <1>6, <3>1
    <3> QED BY <1>3, <1>13, <3>2, <3>3 DEF TableAt
  <2>2. /\ fs'.cluster_begin_lba = DataOf(disk) /\ fs'.sectors_per_cluster = disk.boot.sec_per_cluster
        /\ fs'.fat = alloc_top
    BY <1>1 DEF DataOf
  <2>3. Low' = alloc_top'
    BY <1>1 DEF Low
  <2>4. DataOf(disk)' = DataOf(disk) /\ disk' = disk
    BY <1>2 DEF DataOf
  <2> QED BY <2>1, <2>2, <2>3, <2>4 DEF FsInv
<1>15. GivenInv' /\ OpInv'
  BY <1>1, <1>2 DEF IInv, GivenInv, OpInv, Mounted, Mounting
<1>16. WalkInv' /\ ScanInv' /\ ArrayInv' /\ FileInv'
  BY <1>1 DEF WalkInv, ScanInv, ArrayInv, FileInv
<1>17. StopsOnlyWhen'
  BY <1>1, <1>2 DEF StopsOnlyWhen
<1> QED BY <1>7, <1>11, <1>12, <1>14, <1>15, <1>16, <1>17 DEF IInv

\* A listing is read as the entries of its directory.
LEMMA ArrayRead ==
  ASSUME WritesOK(wrote), NEW a \in Nat, NEW es, NEW m \in Nat, ArrayIn(wrote, a, es, m), NEW i \in 0 .. m - 1
  PROVE  PiDirentAt(a + PiDirentSize * i) = DirentConvert(es[i + 1])
<1>1. i + 1 \in 1 .. m /\ (i + 1) - 1 = i
  OBVIOUS
<1>2. EntryAt(wrote, a + PiDirentSize * ((i + 1) - 1), es[i + 1])
  BY <1>1 DEF ArrayIn
<1>3. EntryAt(wrote, a + PiDirentSize * i, es[i + 1])
  BY <1>1, <1>2
<1>4. a + PiDirentSize * i \in Nat
  BY Sizes
<1> QED BY <1>3, <1>4, EntryRead

LEMMA DirectoryStart ==
  ASSUME IInv, Mounted, NEW d \in Directories
  PROVE  IsStart(disk, d.cluster_id) /\ d.cluster_id \in Nat
<1>1. SoundCard(disk) /\ WritesOK(wrote)
  BY CardFacts DEF Mounted, Mounting, IInv, CardInv
<1>2. d.is_dir_p
  BY DEF Directories
<1>3. CASE d = Root
  BY <1>1, <1>3 DEF Root, IsStart, SoundCard
<1>4. CASE d # Root
  <2>1. PICK l \in listings : d \in {PiDirentAt(l.arr + i * PiDirentSize) : i \in 0 .. l.n - 1}
    BY <1>4 DEF Directories
  <2>2. PICK i \in 0 .. l.n - 1 : d = PiDirentAt(l.arr + i * PiDirentSize)
    BY <2>1
  <2>3. /\ SoundDirectory(disk, l.dir) /\ l.arr \in Nat /\ l.n = Len(UsedIn(disk, l.dir))
        /\ ArrayIn(wrote, l.arr, UsedIn(disk, l.dir), l.n)
    BY DEF IInv, GivenInv, ListingAt
  <2>4. PICK m \in Nat : m = l.n /\ \A k \in 1 .. m : SoundEntry(disk, UsedIn(disk, l.dir)[k])
    BY <1>1, <2>3, DirUsed DEF UsedFacts
  <2>5. i \in Nat /\ i + 1 \in 1 .. m
    BY <2>4
  <2>6. PICK e : e = UsedIn(disk, l.dir)[i + 1]
    OBVIOUS
  <2>7. PiDirentAt(l.arr + PiDirentSize * i) = DirentConvert(e)
    BY <1>1, <2>3, <2>4, <2>6, ArrayRead
  <2>8. PiDirentSize * i = i * PiDirentSize
    BY <2>5, Sizes
  <2>9. d.is_dir_p = (e.attr = "dir") /\ d.cluster_id = e.cluster
    BY <2>2, <2>7, <2>8 DEF DirentConvert
  <2>10. SoundEntry(disk, e)
    BY <2>4, <2>5, <2>6
  <2> QED BY <1>2, <2>9, <2>10 DEF SoundEntry, IsStart
<1> QED BY <1>3, <1>4

LEMMA CallKeeps ==
  ASSUME IInv, NEW o \in {"readdir", "stat", "read"}, NEW d \in Directories, NEW f,
         o \in {"stat", "read"} => f \in Names, Call(o, d, f)
  PROVE  IInv'
<1>1. /\ pc = "idle" /\ pc' = "length" /\ fault = "none" /\ fault' = "none" /\ calls < MaxCalls
      /\ op' = o /\ start' = d.cluster_id /\ name' = f /\ cl' = d.cluster_id /\ cnt' = 1 /\ calls' = calls + 1
      /\ UNCHANGED <<disk, alloc_top, blocks, wrote, fs, buf, index, n, arr, listings, found, files>>
  BY DEF Call, Running, heap, given, ChainCount
<1>2. Mounted /\ Mounted' /\ Low = alloc_top /\ Low' = alloc_top
  BY <1>1 DEF Mounted, Mounting, Low
<1>3. TypeOK /\ alloc_top \in Nat
  BY LowFacts DEF IInv
<1>4. IsStart(disk, start') /\ start' \in Nat
  BY <1>1, <1>2, DirectoryStart
<1>5. TypeOK'
  BY <1>1, <1>3, <1>4, Sizes DEF TypeOK
<1>6. /\ CardInv' /\ FsInv' /\ StaysInBlock'
      /\ \A l \in listings : ListingAt(wrote, disk, Low, l)'
      /\ \A s \in found : FoundAt(wrote, disk, Low, s)'
  BY <1>1, <1>2, <1>3, QuietStep
<1>7. GivenInv'
  BY <1>1, <1>2, <1>6, GivenSame
<1>8. OpInv'
  BY <1>1, <1>4 DEF OpInv, IsStart, Mounted, Mounting
<1>9. WalkInv'
  <2>1. ChainFacts(disk, start')
    <3>1. SoundCard(disk)
      BY <1>2, CardFacts DEF Mounted, Mounting
    <3>2. SoundChain(disk, start')
      BY <1>4, <3>1 DEF IsStart, SoundCard, SoundDirectory
    <3> QED BY <3>1, <3>2, SoundChainFacts
  <2>2. LastIn(disk, start') \in Nat /\ Walk(disk, start')[0] = start'
    BY <2>1 DEF ChainFacts
  <2>3. 1 \in 1 .. LastIn(disk, start') + 1 /\ 1 - 1 = 0
    BY <2>2
  <2> QED BY <1>1, <2>2, <2>3 DEF WalkInv
<1>10. ScanInv' /\ ArrayInv' /\ FileInv'
  BY <1>1 DEF ScanInv, ArrayInv, FileInv
<1>11. StopsOnlyWhen'
  BY <1>1 DEF StopsOnlyWhen
<1> QED BY <1>5, <1>6, <1>7, <1>8, <1>9, <1>10, <1>11 DEF IInv

\* A step along the chain from c, with k - 1 links behind it.
LEMMA WalkOn ==
  ASSUME IInv, Mounted, NEW c, ChainFacts(disk, c), cnt \in 1 .. LastIn(disk, c) + 1, cl = Walk(disk, c)[cnt - 1]
  PROVE  /\ IsLast(FatAt(cl)) => cnt = LastIn(disk, c) + 1
         /\ ~IsLast(FatAt(cl)) => /\ cnt + 1 \in 1 .. LastIn(disk, c) + 1 /\ FatAt(cl) \in Nat
                                  /\ FatAt(cl) = Walk(disk, c)[(cnt + 1) - 1]
<1>1. PICK l \in Nat : l = LastIn(disk, c)
  BY DEF ChainFacts
<1>2. PICK k \in 0 .. l : k = cnt - 1 /\ cnt = k + 1 /\ (cnt + 1) - 1 = k + 1
  <2>1. cnt - 1 \in 0 .. l /\ cnt = (cnt - 1) + 1 /\ (cnt + 1) - 1 = (cnt - 1) + 1
    BY <1>1
  <2> QED BY <2>1
<1>3. cl = Walk(disk, c)[k]
  BY <1>2
<1>4. /\ IsLast(FatAt(cl)) => k = l
      /\ ~IsLast(FatAt(cl)) => k + 1 \in 0 .. l /\ FatAt(cl) = Walk(disk, c)[k + 1]
  BY <1>1, <1>2, <1>3, Link
<1>5. k + 1 \in 0 .. l => Walk(disk, c)[k + 1] \in Nat
  BY <1>1, Sizes DEF ChainFacts
<1> QED BY <1>1, <1>2, <1>4, <1>5

LEMMA LengthKeeps == ASSUME IInv, ChainLength("length", "alloc") PROVE IInv'
<1>1. /\ pc = "length" /\ fault = "none"
      /\ IF IsLast(FatAt(cl)) THEN pc' = "alloc" /\ UNCHANGED <<cl, cnt>>
         ELSE cl' = FatAt(cl) /\ cnt' = cnt + 1 /\ pc' = "length"
  BY DEF ChainLength, Running
<1>2. /\ UNCHANGED <<disk, alloc_top, blocks, wrote, fs, op, start, name, buf, index, n, arr>>
      /\ UNCHANGED <<listings, found, files, calls, fault>>
  BY DEF ChainLength, heap, call, given
<1>3. Mounted /\ Mounted' /\ Low = alloc_top /\ Low' = alloc_top
  BY <1>1, <1>2 DEF Mounted, Mounting, Low
<1>4. TypeOK /\ alloc_top \in Nat
  BY LowFacts DEF IInv
<1>5. op # "mk" /\ IsStart(disk, start)
  BY <1>1 DEF IInv, OpInv, Mounting
<1>6. cnt \in 1 .. LastIn(disk, start) + 1 /\ cl = Walk(disk, start)[cnt - 1]
  BY <1>1 DEF IInv, WalkInv
<1>7. /\ IsLast(FatAt(cl)) => cnt = LastIn(disk, start) + 1
      /\ ~IsLast(FatAt(cl)) => /\ cnt + 1 \in 1 .. LastIn(disk, start) + 1 /\ FatAt(cl) \in Nat
                               /\ FatAt(cl) = Walk(disk, start)[(cnt + 1) - 1]
  BY <1>3, <1>5, <1>6, StartChain, WalkOn
<1>8. TypeOK'
  BY <1>1, <1>2, <1>4, <1>7 DEF TypeOK
<1>9. /\ CardInv' /\ FsInv' /\ StaysInBlock'
      /\ \A l \in listings : ListingAt(wrote, disk, Low, l)'
      /\ \A s \in found : FoundAt(wrote, disk, Low, s)'
  BY <1>2, <1>3, <1>4, QuietStep
<1>10. GivenInv'
  BY <1>2, <1>3, <1>9, GivenSame
<1>11. OpInv'
  BY <1>1, <1>2 DEF IInv, OpInv, Mounted, Mounting
<1>12. WalkInv'
  BY <1>1, <1>2, <1>6, <1>7 DEF WalkInv
<1>13. ScanInv' /\ ArrayInv' /\ FileInv'
  BY <1>1 DEF ScanInv, ArrayInv, FileInv
<1>14. StopsOnlyWhen'
  BY <1>1, <1>2 DEF StopsOnlyWhen
<1> QED BY <1>8, <1>9, <1>10, <1>11, <1>12, <1>13, <1>14 DEF IInv

LEMMA FileLengthKeeps == ASSUME IInv, ChainLength("filelength", "file") PROVE IInv'
<1>1. /\ pc = "filelength" /\ fault = "none"
      /\ IF IsLast(FatAt(cl)) THEN pc' = "file" /\ UNCHANGED <<cl, cnt>>
         ELSE cl' = FatAt(cl) /\ cnt' = cnt + 1 /\ pc' = "filelength"
  BY DEF ChainLength, Running
<1>2. /\ UNCHANGED <<disk, alloc_top, blocks, wrote, fs, op, start, name, buf, index, n, arr>>
      /\ UNCHANGED <<listings, found, files, calls, fault>>
  BY DEF ChainLength, heap, call, given
<1>3. Mounted /\ Mounted' /\ Low = alloc_top /\ Low' = alloc_top
  BY <1>1, <1>2 DEF Mounted, Mounting, Low
<1>4. TypeOK /\ alloc_top \in Nat
  BY LowFacts DEF IInv
<1>5. PICK c : c = File
  OBVIOUS
<1>6. /\ SoundChain(disk, c) /\ cnt \in 1 .. LastIn(disk, c) + 1 /\ cl = Walk(disk, c)[cnt - 1]
      /\ IsFirst(UsedIn(disk, start), name, index)
  BY <1>1, <1>5 DEF IInv, FileInv
<1>7. /\ IsLast(FatAt(cl)) => cnt = LastIn(disk, c) + 1
      /\ ~IsLast(FatAt(cl)) => /\ cnt + 1 \in 1 .. LastIn(disk, c) + 1 /\ FatAt(cl) \in Nat
                               /\ FatAt(cl) = Walk(disk, c)[(cnt + 1) - 1]
  <2>1. ChainFacts(disk, c)
    BY <1>3, <1>6, CardFacts, SoundChainFacts DEF Mounted, Mounting
  <2> QED BY <1>3, <1>6, <2>1, WalkOn
<1>8. TypeOK'
  BY <1>1, <1>2, <1>4, <1>7 DEF TypeOK
<1>9. /\ CardInv' /\ FsInv' /\ StaysInBlock'
      /\ \A l \in listings : ListingAt(wrote, disk, Low, l)'
      /\ \A s \in found : FoundAt(wrote, disk, Low, s)'
  BY <1>2, <1>3, <1>4, QuietStep
<1>10. GivenInv'
  BY <1>2, <1>3, <1>9, GivenSame
<1>11. OpInv'
  BY <1>1, <1>2 DEF IInv, OpInv, Mounted, Mounting
<1>12. WalkInv' /\ ScanInv'
  BY <1>1 DEF WalkInv, ScanInv
<1>13. ArrayInv'
  BY <1>1, <1>2 DEF IInv, ArrayInv
<1>14. FileInv'
  <2>1. File' = c
    BY <1>2, <1>5 DEF File
  <2> QED BY <1>1, <1>2, <1>6, <1>7, <2>1 DEF FileInv
<1>15. StopsOnlyWhen'
  BY <1>1, <1>2 DEF StopsOnlyWhen
<1> QED BY <1>8, <1>9, <1>10, <1>11, <1>12, <1>13, <1>14, <1>15 DEF IInv

LEMMA AllocDirentsKeeps == ASSUME IInv, AllocDirents PROVE IInv'
<1>1. /\ pc = "alloc" /\ pc' = "read" /\ fault = "none"
      /\ buf' = alloc_top /\ cl' = start /\ cnt' = 0
  BY DEF AllocDirents, Running
<1>2. /\ UNCHANGED <<disk, wrote, fs, op, start, name, index, n, arr>>
      /\ UNCHANGED <<listings, found, files, calls, fault>>
  BY DEF AllocDirents, call, given
<1>3. Mounted /\ Mounted' /\ Low = alloc_top /\ Low' = alloc_top
  BY <1>1 DEF Mounted, Mounting, Low
<1>4. TypeOK /\ alloc_top \in Nat
  BY LowFacts DEF IInv
<1>5. op # "mk" /\ IsStart(disk, start) /\ cnt = LastIn(disk, start) + 1
  BY <1>1 DEF IInv, OpInv, WalkInv, Mounting
<1>6. PICK l \in Nat : l = LastIn(disk, start) /\ Walk(disk, start)[0] = start
  BY <1>3, <1>5, StartChain DEF ChainFacts
<1>7. PICK x \in Nat \ {0} : x = DirBytes(disk, l + 1) /\ x = ClusterBytes * cnt
  <2>1. SoundCard(disk) /\ fs.sectors_per_cluster = disk.boot.sec_per_cluster
    BY <1>3, CardFacts, FsFacts DEF Mounted, Mounting
  <2>2. l + 1 \in Nat /\ l + 1 # 0 /\ cnt = l + 1
    BY <1>5, <1>6
  <2> QED BY <2>1, <2>2, ClusterSize
<1>8. /\ alloc_top' \in Nat /\ alloc_top + x <= alloc_top' /\ alloc_top' <= MemEnd
      /\ blocks' = blocks \cup {[addr |-> alloc_top, size |-> x, align |-> 4]}
      /\ [addr |-> alloc_top, size |-> x, align |-> 4] \in K!A!Block
  <2>1. K!Bump(alloc_top, x, 4)
    BY <1>7 DEF AllocDirents
  <2> QED BY <1>4, <2>1, BumpFacts
<1>9. TypeOK'
  <2>1. Walk(disk, start)[0] \in Nat
    BY <1>3, <1>5, <1>6, StartChain, Sizes DEF ChainFacts
  <2>2. start \in Nat
    BY <1>6, <2>1
  <2> QED BY <1>1, <1>2, <1>4, <1>8, <2>2, Sizes DEF TypeOK
<1>10. /\ CardInv' /\ FsInv' /\ StaysInBlock'
       /\ \A i \in listings : ListingAt(wrote, disk, Low, i)'
       /\ \A s \in found : FoundAt(wrote, disk, Low, s)'
  BY <1>2, <1>3, <1>4, <1>8, QuietStep
<1>11. GivenInv'
  BY <1>2, <1>3, <1>10, GivenSame
<1>12. OpInv'
  BY <1>1, <1>2 DEF IInv, OpInv, Mounted, Mounting
<1>13. WalkInv'
  <2>1. RawIn(wrote', disk', buf', start', 0)
    BY DEF RawIn
  <2> QED BY <1>1, <1>2, <1>6, <1>7, <1>8, <2>1 DEF WalkInv
<1>14. ScanInv' /\ ArrayInv' /\ FileInv'
  BY <1>1 DEF ScanInv, ArrayInv, FileInv
<1>15. StopsOnlyWhen'
  BY <1>1, <1>2 DEF StopsOnlyWhen
<1> QED BY <1>9, <1>10, <1>11, <1>12, <1>13, <1>14, <1>15 DEF IInv

LEMMA DirBytesMore ==
  ASSUME NEW d, EntriesIn(d) \in Nat \ {0}, NEW m \in Nat, NEW k \in Nat, m <= k
  PROVE  /\ DirBytes(d, m) \in Nat /\ DirBytes(d, k) \in Nat /\ DirBytes(d, m) <= DirBytes(d, k)
         /\ DirBytes(d, m + 1) = DirBytes(d, m) + DirBytes(d, 1) /\ DirBytes(d, m + 1) \in Nat
<1>1. PICK D \in Nat \ {0}, e \in Nat \ {0} : D = DirentSize /\ e = EntriesIn(d)
  BY Sizes
<1>2. PICK i \in Nat : k = m + i
  <2>1. k - m \in Nat /\ k = m + (k - m)
    OBVIOUS
  <2> QED BY <2>1
<1>3. /\ D * (k * e) = D * (m * e) + D * (i * e) /\ D * (i * e) \in Nat
      /\ D * (m * e) \in Nat /\ D * (k * e) \in Nat
  <2>1. k * e = m * e + i * e /\ k * e \in Nat /\ m * e \in Nat /\ i * e \in Nat
    BY <1>2
  <2> QED BY <2>1
<1>4. D * ((m + 1) * e) = D * (m * e) + D * (1 * e) /\ D * ((m + 1) * e) \in Nat
  <2>1. (m + 1) * e = m * e + 1 * e /\ m * e \in Nat /\ 1 * e \in Nat
    OBVIOUS
  <2> QED BY <2>1
<1> QED BY <1>1, <1>3, <1>4 DEF DirBytes

\* One cluster more of a directory.
LEMMA ClusterRead ==
  ASSUME NEW d, SoundCard(d), NEW ws, NEW w, NEW t, OneMore(ws, w, t), IsWrite(w), NEW a \in Nat, NEW c,
         NEW m \in Nat, w.addr = a + DirBytes(d, m), w.size = DirBytes(d, 1),
         w.what = <<"sd", DataOf(d) + (Walk(d, c)[m] - 2) * d.boot.sec_per_cluster>>, RawIn(ws, d, a, c, m)
  PROVE  RawIn(t, d, a, c, m + 1)
<1>1. PICK D \in Nat \ {0}, e \in Nat \ {0} : D = DirentSize /\ e = EntriesIn(d)
  BY Sizes, SoundSizes
<1>2. RawIn(t, d, a, c, m)
  <2>1. w.addr \in Nat /\ Grows(ws, t, w.addr)
    BY DEF Grows, IsWrite
  <2> QED BY <2>1, RawKept
<1> SUFFICES ASSUME NEW j \in 0 .. (m + 1) - 1, NEW i \in 0 .. EntriesIn(d) - 1
             PROVE  SectorAt(t, a + DirentSize * (j * EntriesIn(d) + i), EntryLba(d, c, j, i),
                             DirentSize * (i % EntriesPerSector))
  BY DEF RawIn
<1>3. CASE j # m
  <2>1. j \in 0 .. m - 1
    BY <1>3
  <2> QED BY <1>2, <2>1 DEF RawIn
<1>4. CASE j = m
  <2>1. i \in Nat /\ i + 1 <= e
    BY <1>1
  <2>2. PICK x \in Nat : x = D * (m * e)
    OBVIOUS
  <2>3. PICK y \in Nat : y = D * i
    BY <2>1
  <2>4. D * (m * e + i) = x + y
    <3>1. m * e \in Nat
      OBVIOUS
    <3> QED BY <2>1, <2>2, <2>3, <3>1
  <2>5. y < D * (1 * e)
    <3>1. PICK k \in Nat : e = k + i + 1
      <4>1. e - (i + 1) \in Nat /\ e = (e - (i + 1)) + i + 1
        BY <2>1
      <4> QED BY <4>1
    <3>2. D * (1 * e) = D * k + D * i + D /\ D * k \in Nat
      BY <2>1, <3>1
    <3> QED BY <2>3, <3>2
  <2>6. PICK p \in Nat : p = a + D * (m * e + i) /\ p = w.addr + y /\ p - w.addr = y
    <3>1. w.addr = a + x
      BY <1>1, <2>2 DEF DirBytes
    <3>2. a + D * (m * e + i) = a + (x + y)
      BY <2>4
    <3>3. a + (x + y) \in Nat /\ a + (x + y) = (a + x) + y /\ (a + (x + y)) - (a + x) = y
      OBVIOUS
    <3> QED BY <3>1, <3>2, <3>3
  <2>7. w.addr <= p /\ p < w.addr + w.size
    <3>1. w.size = D * (1 * e) /\ w.size \in Nat /\ w.addr \in Nat
      BY <1>1 DEF DirBytes, IsWrite
    <3> QED BY <2>5, <2>6, <3>1
  <2>8. PICK b : b = DataOf(d) + (Walk(d, c)[m] - 2) * d.boot.sec_per_cluster
    OBVIOUS
  <2>9. SectorAt(t, p, b + y \div NBYTES_PER_SECTOR, y % NBYTES_PER_SECTOR)
    <3>1. w.what = <<"sd", b>>
      BY <2>8
    <3>2. SectorAt(t, p, b + (p - w.addr) \div NBYTES_PER_SECTOR, (p - w.addr) % NBYTES_PER_SECTOR)
      BY <2>7, <3>1, SectorWritten
    <3> QED BY <2>6, <3>2
  <2>10. y \div NBYTES_PER_SECTOR = i \div EntriesPerSector /\ y % NBYTES_PER_SECTOR = DirentSize * (i % EntriesPerSector)
    BY <1>1, <2>1, <2>3, EntryOffset
  <2>11. EntryLba(d, c, j, i) = b + i \div EntriesPerSector
    BY <1>4, <2>8 DEF EntryLba
  <2> QED BY <1>1, <1>4, <2>6, <2>9, <2>10, <2>11
<1> QED BY <1>3, <1>4

LEMMA ReadChainKeeps == ASSUME IInv, ReadChain PROVE IInv'
<1>1. pc = "read" /\ fault = "none" /\ UNCHANGED <<disk, op, start, name, calls>>
  BY DEF ReadChain, Running, call
<1>2. Mounted /\ TypeOK /\ alloc_top \in Nat /\ buf \in Nat /\ Low = buf
  BY <1>1, LowFacts DEF IInv, Mounted, Mounting, Low
<1>3. SoundCard(disk)
  BY <1>2, CardFacts DEF Mounted, Mounting
<1>4. op # "mk" /\ IsStart(disk, start)
  BY <1>1 DEF IInv, OpInv, Mounting
<1>5. ChainFacts(disk, start)
  BY <1>2, <1>4, StartChain
<1>6. PICK l \in Nat : l = LastIn(disk, start)
  BY <1>5 DEF ChainFacts
<1>7. /\ cnt \in 0 .. l /\ cl = Walk(disk, start)[cnt] /\ (start = 0 => cnt = 0)
      /\ buf + DirBytes(disk, l + 1) <= alloc_top /\ RawIn(wrote, disk, buf, start, cnt)
      /\ [addr |-> buf, size |-> DirBytes(disk, l + 1), align |-> 4] \in blocks
  BY <1>1, <1>6 DEF IInv, WalkInv
<1>8. /\ Masked(cl) = cl /\ cl \in Nat /\ (IsLast(FatAt(cl)) => cnt = l)
      /\ ~IsLast(FatAt(cl)) => cnt + 1 \in 0 .. l /\ FatAt(cl) = Walk(disk, start)[cnt + 1]
  <2>1. cl \in Nat
    BY <1>5, <1>6, <1>7, Sizes DEF ChainFacts
  <2> QED BY <1>2, <1>5, <1>6, <1>7, <2>1, Link
<1>9. start # 0 => SoundDirectory(disk, start) /\ DirFacts(disk, start) /\ Masked(cl) >= 2
  <2>1. SUFFICES ASSUME start # 0 PROVE SoundDirectory(disk, start) /\ DirFacts(disk, start) /\ Masked(cl) >= 2
    OBVIOUS
  <2>2. SoundDirectory(disk, start)
    BY <1>4, <2>1 DEF IsStart
  <2>3. DirFacts(disk, start)
    BY <1>3, <2>2, SoundDirFacts
  <2> QED BY <1>6, <1>7, <1>8, <2>2, <2>3 DEF DirFacts
<1>10. CASE Masked(cl) < 2
  <2>1. start = 0
    BY <1>8, <1>9, <1>10
  <2>2. Panic
    BY <1>1, <1>10 DEF ReadChain
  <2>3. UNCHANGED <<disk, call, calls>>
    BY DEF ReadChain
  <2> QED BY <1>1, <1>4, <2>1, <2>2, <2>3, Stopped
<1>11. CASE ~(Masked(cl) < 2)
  <2>1. /\ wrote' = SdRead(buf + ((ClusterBytes * cnt) \div DirentSize) * DirentSize,
                           ClusterToLba(cl), fs.sectors_per_cluster)
        /\ IF IsLast(FatAt(cl))
             THEN pc' = "scan" /\ index' = 0 /\ n' = 0 /\ UNCHANGED <<cl, cnt>>
             ELSE pc' = "read" /\ cl' = FatAt(cl) /\ cnt' = cnt + 1 /\ UNCHANGED <<index, n>>
        /\ UNCHANGED <<heap, fs, buf, arr, given, fault>>
    BY <1>1, <1>8, <1>11 DEF ReadChain
  <2>2. UNCHANGED <<disk, op, start, name, calls, alloc_top, blocks, fs, buf, arr, listings, found, files, fault>>
    BY <1>1, <2>1 DEF heap, given
  <2>3. start # 0
    <3>1. SUFFICES ASSUME start = 0 PROVE FALSE
      OBVIOUS
    <3>2. cl = 0
      BY <1>5, <1>7, <3>1 DEF ChainFacts
    <3> QED BY <1>8, <1>11, <3>2
  <2>4. SoundDirectory(disk, start) /\ DirFacts(disk, start) /\ cl >= 2
    BY <1>8, <1>9, <2>3
  <2>5. fs.cluster_begin_lba = DataOf(disk) /\ fs.sectors_per_cluster = disk.boot.sec_per_cluster
    BY <1>2, FsFacts
  <2>6. PICK x \in Nat, y \in Nat, z \in Nat :
          /\ x = DirBytes(disk, cnt) /\ y = DirBytes(disk, 1) /\ z = DirBytes(disk, l + 1) /\ x + y <= z
          /\ ClusterBytes * cnt = x /\ fs.sectors_per_cluster * NBYTES_PER_SECTOR = y
    <3>1. EntriesIn(disk) \in Nat \ {0} /\ cnt \in Nat /\ cnt + 1 \in Nat /\ cnt + 1 <= l + 1
      BY <1>3, <1>7, SoundSizes
    <3>2. /\ DirBytes(disk, cnt) \in Nat /\ DirBytes(disk, cnt + 1) = DirBytes(disk, cnt) + DirBytes(disk, 1)
      BY <3>1, DirBytesMore, SMTT(60)
    <3>3. DirBytes(disk, l + 1) \in Nat /\ DirBytes(disk, cnt + 1) <= DirBytes(disk, l + 1)
      BY <3>1, DirBytesMore, SMTT(60)
    <3>4. ClusterBytes * cnt = DirBytes(disk, cnt)
      BY <1>3, <2>5, <3>1, ClusterSize
    <3>5. ClusterBytes * 1 = DirBytes(disk, 1) /\ DirBytes(disk, 1) \in Nat
      BY <1>3, <2>5, ClusterSize
    <3>6. ClusterBytes * 1 = fs.sectors_per_cluster * NBYTES_PER_SECTOR
      <4>1. PICK s \in Nat : s = fs.sectors_per_cluster
        BY <1>3, <2>5, SoundSizes
      <4>2. s * NBYTES_PER_SECTOR \in Nat
        BY Sizes
      <4> QED BY <4>1, <4>2 DEF ClusterBytes
    <3> QED BY <3>2, <3>3, <3>4, <3>5, <3>6
  <2>7. (x \div DirentSize) * DirentSize = x
    <3>1. PICK D \in Nat \ {0}, k \in Nat : D = DirentSize /\ k = cnt * EntriesIn(disk) /\ x = D * k + 0
      <4>1. cnt * EntriesIn(disk) \in Nat
        BY <1>3, <1>7, SoundSizes
      <4>2. PICK D \in Nat \ {0} : D = DirentSize
        BY Sizes
      <4>3. x = D * (cnt * EntriesIn(disk))
        BY <2>6, <4>2 DEF DirBytes
      <4> QED BY <4>1, <4>2, <4>3
    <3>2. x \div D = k
      BY <3>1, DivMod
    <3>3. k * D = x
      BY <3>1
    <3> QED BY <3>1, <3>2, <3>3
  <2>8. PICK b : b = DataOf(disk) + (Walk(disk, start)[cnt] - 2) * disk.boot.sec_per_cluster
    OBVIOUS
  <2>9. PICK w : w = [addr |-> buf + x, size |-> y, what |-> <<"sd", b>>]
    OBVIOUS
  <2>10. IsWrite(w) /\ w.addr >= Low /\ InBlock(blocks, w) /\ wrote' = Append(wrote, w)
    <3>1. IsWrite(w) /\ w.addr >= Low
      BY <1>2, <2>9 DEF IsWrite
    <3>2. InBlock(blocks, w)
      <4>1. buf + x + y <= buf + z
        BY <1>2, <2>6
      <4> QED BY <1>2, <1>7, <2>6, <2>9, <4>1 DEF InBlock
    <3>3. ClusterToLba(cl) = b
      BY <1>7, <2>5, <2>8 DEF ClusterToLba, FirstCluster
    <3>4. wrote' = Append(wrote, w)
      BY <2>1, <2>6, <2>7, <2>9, <3>3 DEF SdRead, Writing
    <3> QED BY <3>1, <3>2, <3>4
  <2>11. Mounted' /\ Low' = buf /\ pc' \in {"read", "scan"}
    BY <2>1, <2>2 DEF Mounted, Mounting, Low
  <2>12. /\ CardInv' /\ FsInv' /\ StaysInBlock' /\ OneMore(wrote, w, wrote')
         /\ \A i \in listings : ListingAt(wrote, disk, Low, i)'
         /\ \A s \in found : FoundAt(wrote, disk, Low, s)'
    <3>1. Low' \in Nat /\ Low <= Low' /\ blocks \subseteq blocks' /\ InBlock(blocks', w)
      BY <1>2, <2>2, <2>10, <2>11
    <3> QED BY <1>2, <2>2, <2>10, <2>11, <3>1, MemoryStep
  <2>13. RawIn(wrote', disk, buf, start, cnt + 1)
    <3>1. cnt \in Nat
      BY <1>7
    <3>2. w.addr = buf + DirBytes(disk, cnt) /\ w.size = DirBytes(disk, 1) /\ w.what = <<"sd", b>>
      BY <2>6, <2>9
    <3> QED BY <1>2, <1>3, <1>7, <2>8, <2>10, <2>12, <3>1, <3>2, ClusterRead
  <2>14. TypeOK'
    <3>1. ~IsLast(FatAt(cl)) => FatAt(cl) \in Nat
      BY <1>5, <1>6, <1>8, Sizes DEF ChainFacts
    <3> QED BY <1>2, <2>1, <2>2, <3>1 DEF TypeOK
  <2>15. GivenInv'
    BY <2>2, <2>11, <2>12, GivenSame
  <2>16. OpInv'
    BY <1>1, <2>2, <2>11 DEF IInv, OpInv, Mounted, Mounting
  <2>17. CASE IsLast(FatAt(cl))
    <3>1. pc' = "scan" /\ index' = 0 /\ n' = 0 /\ UNCHANGED <<cl, cnt>> /\ cnt = l
      BY <1>8, <2>1, <2>17
    <3>2. ScanInv'
      <4>1. EndIn(disk, start) \in Nat /\ EndIn(disk, start) >= 1
        BY <2>4 DEF DirFacts
      <4>2. Len(KeptOf(AllIn(disk, start))[0]) = 0
        BY KeptStart
      <4>3. RawIn(wrote', disk', buf', start', LastIn(disk', start') + 1)
        BY <1>6, <2>2, <2>13, <3>1
      <4> QED BY <1>6, <1>7, <2>2, <2>4, <3>1, <4>1, <4>2, <4>3 DEF ScanInv
    <3>3. WalkInv' /\ ArrayInv' /\ FileInv'
      BY <3>1 DEF WalkInv, ArrayInv, FileInv
    <3>4. StopsOnlyWhen'
      BY <1>1, <2>2 DEF StopsOnlyWhen
    <3> QED BY <2>12, <2>14, <2>15, <2>16, <3>2, <3>3, <3>4 DEF IInv
  <2>18. CASE ~IsLast(FatAt(cl))
    <3>1. pc' = "read" /\ cl' = FatAt(cl) /\ cnt' = cnt + 1
      BY <2>1, <2>18
    <3>2. WalkInv'
      BY <1>6, <1>7, <1>8, <2>2, <2>3, <2>13, <2>18, <3>1 DEF WalkInv
    <3>3. ScanInv' /\ ArrayInv' /\ FileInv'
      BY <3>1 DEF ScanInv, ArrayInv, FileInv
    <3>4. StopsOnlyWhen'
      BY <1>1, <2>2 DEF StopsOnlyWhen
    <3> QED BY <2>12, <2>14, <2>15, <2>16, <3>2, <3>3, <3>4 DEF IInv
  <2> QED BY <2>17, <2>18
<1> QED BY <1>10, <1>11

\* The entry that the two scans are at, and what is in use before and after it.
LEMMA AtEntry ==
  ASSUME IInv, pc \in {"scan", "convert"}
  PROVE  /\ Mounted /\ SoundDirectory(disk, start) /\ index \in 0 .. EndIn(disk, start) - 1
         /\ InDirectory(index) /\ UsedFacts(disk, start)
         /\ Raw(index) = End => index = EndIn(disk, start) - 1
         /\ Raw(index) # End =>
              /\ index + 1 \in 0 .. EndIn(disk, start) - 1
              /\ Raw(index) = Deleted =>
                   KeptOf(AllIn(disk, start))[index + 1] = KeptOf(AllIn(disk, start))[index]
              /\ Raw(index) # Deleted =>
                   LET k == Len(KeptOf(AllIn(disk, start))[index])
                   IN  /\ Len(KeptOf(AllIn(disk, start))[index + 1]) = k + 1
                       /\ k + 1 \in 1 .. Len(UsedIn(disk, start))
                       /\ UsedIn(disk, start)[k + 1] = Raw(index)
<1>1. Mounted /\ SoundCard(disk)
  BY CardFacts DEF Mounted, Mounting
<1>2. /\ SoundDirectory(disk, start) /\ RawIn(wrote, disk, buf, start, LastIn(disk, start) + 1)
      /\ index \in 0 .. EndIn(disk, start) - 1
  BY DEF IInv, ScanInv
<1>3. /\ InDirectory(index) /\ Raw(index) = AllIn(disk, start)[index + 1]
      /\ index = EndIn(disk, start) - 1 <=> Raw(index) = End
  BY <1>1, <1>2, RawIs
<1>4. UsedFacts(disk, start) /\ DirFacts(disk, start)
  BY <1>1, <1>2, DirUsed, SoundDirFacts
<1>5. PICK all : all = AllIn(disk, start)
  OBVIOUS
<1>6. ASSUME Raw(index) # End
      PROVE  /\ index + 1 \in 0 .. EndIn(disk, start) - 1
             /\ Raw(index) = Deleted => KeptOf(all)[index + 1] = KeptOf(all)[index]
             /\ Raw(index) # Deleted =>
                   /\ Len(KeptOf(all)[index + 1]) = Len(KeptOf(all)[index]) + 1
                   /\ Len(KeptOf(all)[index]) + 1 \in 1 .. Len(UsedIn(disk, start))
                   /\ UsedIn(disk, start)[Len(KeptOf(all)[index]) + 1] = Raw(index)
  <2>1. PICK m \in Nat : m = EndIn(disk, start) - 1
    <3>1. EndIn(disk, start) \in Nat /\ EndIn(disk, start) >= 1
      BY <1>4 DEF DirFacts
    <3> QED BY <3>1
  <2>2. index \in Nat /\ index < m
    BY <1>2, <1>3, <1>6, <2>1
  <2>3. PICK k \in Nat \ {0} : k = index + 1 /\ k - 1 = index /\ k <= m
    BY <2>2
  <2>4. KeptStep(all, k) /\ Len(KeptOf(all)[k]) \in Nat /\ Len(KeptOf(all)[k - 1]) \in Nat
    BY KeptStepIs
  <2>5. Raw(index) = all[k]
    BY <1>3, <1>5, <2>3
  <2>6. CASE Raw(index) = Deleted
    BY <2>1, <2>2, <2>3, <2>4, <2>5, <2>6 DEF KeptStep
  <2>7. CASE Raw(index) # Deleted
    <3>1. PICK z \in Nat : z = Len(KeptOf(all)[index])
      BY <2>3, <2>4
    <3>2. Len(KeptOf(all)[k]) = z + 1 /\ KeptOf(all)[k][z + 1] = all[k]
      BY <2>3, <2>4, <2>5, <2>7, <3>1 DEF KeptStep
    <3>3. KeptGrows(all, k, m)
      BY <2>3, KeptMore
    <3>4. UsedIn(disk, start) = KeptOf(all)[m]
      BY <1>5, <2>1 DEF UsedIn
    <3>5. z + 1 \in 1 .. Len(KeptOf(all)[m]) /\ KeptOf(all)[m][z + 1] = all[k]
      BY <3>1, <3>2, <3>3 DEF KeptGrows
    <3> QED BY <2>1, <2>2, <2>3, <2>5, <2>7, <3>1, <3>2, <3>4, <3>5
  <2> QED BY <2>6, <2>7
<1> QED BY <1>1, <1>2, <1>3, <1>4, <1>5, <1>6

LEMMA ScanKeeps == ASSUME IInv, Scan PROVE IInv'
<1>1. /\ pc = "scan" /\ fault = "none"
      /\ UNCHANGED <<disk, alloc_top, blocks, wrote, fs, op, start, name, cl, cnt, buf, arr>>
      /\ UNCHANGED <<listings, found, files, calls>>
  BY DEF Scan, Running, heap, call, given
<1>2. /\ Mounted /\ SoundDirectory(disk, start) /\ index \in 0 .. EndIn(disk, start) - 1 /\ InDirectory(index)
      /\ UsedFacts(disk, start)
      /\ Raw(index) = End => index = EndIn(disk, start) - 1
  BY <1>1, AtEntry
<1>3. IF Raw(index) = End
        THEN pc' = "array" /\ UNCHANGED <<index, n, fault>>
        ELSE /\ n' = IF Listed(Raw(index)) THEN n + 1 ELSE n
             /\ index' = index + 1 /\ UNCHANGED <<pc, fault>>
  BY <1>2 DEF Scan, Advance
<1>4. /\ RawIn(wrote, disk, buf, start, LastIn(disk, start) + 1)
      /\ buf + DirBytes(disk, LastIn(disk, start) + 1) <= alloc_top
      /\ n = Len(KeptOf(AllIn(disk, start))[index])
  BY <1>1 DEF IInv, ScanInv
<1>5. TypeOK /\ Low = buf /\ buf \in Nat /\ alloc_top \in Nat
  BY <1>1, LowFacts DEF IInv, Low
<1>6. Mounted' /\ Low' = buf /\ pc' \in {"scan", "array"} /\ fault' = "none"
  BY <1>1, <1>3 DEF Mounted, Mounting, Low
<1>7. TypeOK'
  BY <1>1, <1>2, <1>3, <1>5, <1>6 DEF TypeOK
<1>8. /\ CardInv' /\ FsInv' /\ StaysInBlock'
      /\ \A l \in listings : ListingAt(wrote, disk, Low, l)'
      /\ \A s \in found : FoundAt(wrote, disk, Low, s)'
  BY <1>1, <1>2, <1>5, <1>6, QuietStep
<1>9. GivenInv'
  BY <1>1, <1>6, <1>8, GivenSame
<1>10. OpInv'
  BY <1>1, <1>6 DEF IInv, OpInv, Mounted, Mounting
<1>11. ScanInv'
  <2>1. CASE Raw(index) = End
    <3>1. pc' = "array" /\ n' = n
      BY <1>3, <2>1
    <3>2. n = Len(UsedIn(disk, start))
      BY <1>2, <1>4, <2>1 DEF UsedIn
    <3> QED BY <1>1, <1>2, <1>4, <3>1, <3>2 DEF ScanInv
  <2>2. CASE Raw(index) # End
    <3>1. pc' = "scan" /\ index' = index + 1 /\ n' = IF Listed(Raw(index)) THEN n + 1 ELSE n
      BY <1>1, <1>3, <2>2
    <3>2. Listed(Raw(index)) <=> Raw(index) # Deleted
      BY <2>2 DEF Listed
    <3>3. /\ index + 1 \in 0 .. EndIn(disk, start) - 1
          /\ Raw(index) = Deleted =>
               KeptOf(AllIn(disk, start))[index + 1] = KeptOf(AllIn(disk, start))[index]
          /\ Raw(index) # Deleted =>
               Len(KeptOf(AllIn(disk, start))[index + 1]) = Len(KeptOf(AllIn(disk, start))[index]) + 1
      BY <1>1, <2>2, AtEntry
    <3>4. n' = Len(KeptOf(AllIn(disk, start))[index + 1])
      BY <1>4, <3>1, <3>2, <3>3
    <3> QED BY <1>1, <1>2, <1>4, <3>1, <3>3, <3>4 DEF ScanInv
  <2> QED BY <2>1, <2>2
<1>12. WalkInv' /\ ArrayInv' /\ FileInv'
  BY <1>6 DEF WalkInv, ArrayInv, FileInv
<1>13. StopsOnlyWhen'
  BY <1>6 DEF StopsOnlyWhen
<1> QED BY <1>7, <1>8, <1>9, <1>10, <1>11, <1>12, <1>13 DEF IInv

LEMMA AllocArrayKeeps == ASSUME IInv, AllocArray PROVE IInv'
<1>1. pc = "array" /\ fault = "none" /\ UNCHANGED <<disk, op, start, name, calls>>
  BY DEF AllocArray, Running, call
<1>2. Mounted /\ TypeOK /\ alloc_top \in Nat /\ buf \in Nat /\ Low = buf
  BY <1>1, LowFacts DEF IInv, Mounted, Mounting, Low
<1>3. SoundCard(disk)
  BY <1>2, CardFacts DEF Mounted, Mounting
<1>4. /\ SoundDirectory(disk, start) /\ RawIn(wrote, disk, buf, start, LastIn(disk, start) + 1)
      /\ buf + DirBytes(disk, LastIn(disk, start) + 1) <= alloc_top
      /\ n = Len(UsedIn(disk, start)) /\ op # "mk"
  BY <1>1 DEF IInv, ScanInv, OpInv, Mounting
<1>5. UsedFacts(disk, start) /\ DirFacts(disk, start)
  BY <1>3, <1>4, DirUsed, SoundDirFacts
<1>6. CASE n = 0
  <2>1. Panic /\ UNCHANGED <<disk, call, calls>>
    BY <1>6 DEF AllocArray
  <2>2. UsedIn(disk, start) = <<>>
    BY <1>4, <1>5, <1>6 DEF UsedFacts
  <2>3. start >= 2
    BY <1>5 DEF DirFacts
  <2> QED BY <1>1, <1>4, <2>1, <2>2, <2>3, Stopped
<1>7. CASE n # 0
  <2>1. /\ K!Bump(alloc_top, n * PiDirentSize, 4)
        /\ arr' = alloc_top /\ index' = 0 /\ cnt' = 0 /\ pc' = "convert"
        /\ UNCHANGED <<wrote, fs, cl, buf, n, listings, found, files, fault>>
    BY <1>7 DEF AllocArray, ArrayBytes, given
  <2>2. PICK x \in Nat \ {0} : x = n * PiDirentSize /\ x = PiDirentSize * n
    BY <1>2, <1>7, Sizes DEF TypeOK
  <2>3. /\ alloc_top' \in Nat /\ alloc_top + x <= alloc_top' /\ alloc_top' <= MemEnd
        /\ blocks' = blocks \cup {[addr |-> alloc_top, size |-> x, align |-> 4]}
        /\ [addr |-> alloc_top, size |-> x, align |-> 4] \in K!A!Block
    <3>1. K!Bump(alloc_top, x, 4)
      BY <2>1, <2>2
    <3> QED BY <1>2, <3>1, BumpFacts
  <2>4. TypeOK'
    BY <1>1, <1>2, <2>1, <2>3, Sizes DEF TypeOK
  <2>5. Mounted' /\ Low' = buf
    BY <2>1 DEF Mounted, Mounting, Low
  <2>6. /\ CardInv' /\ FsInv' /\ StaysInBlock'
        /\ \A l \in listings : ListingAt(wrote, disk, Low, l)'
        /\ \A s \in found : FoundAt(wrote, disk, Low, s)'
    BY <1>1, <1>2, <2>1, <2>3, <2>5, QuietStep
  <2>7. GivenInv'
    BY <2>1, <2>5, <2>6, GivenSame
  <2>8. OpInv'
    BY <1>1, <2>1 DEF IInv, OpInv, Mounted, Mounting
  <2>9. 0 \in 0 .. EndIn(disk, start) - 1 /\ Len(KeptOf(AllIn(disk, start))[0]) = 0
    <3>1. EndIn(disk, start) \in Nat /\ EndIn(disk, start) >= 1
      BY <1>5 DEF DirFacts
    <3> QED BY <3>1, KeptStart
  <2>10. ScanInv'
    BY <1>1, <1>4, <2>1, <2>9 DEF ScanInv
  <2>11. ArrayInv'
    <3>1. ArrayIn(wrote', arr', UsedIn(disk', start'), 0)
      BY DEF ArrayIn
    <3>2. alloc_top + PiDirentSize * n <= alloc_top'
      BY <2>2, <2>3
    <3>3. [addr |-> alloc_top, size |-> PiDirentSize * n, align |-> 4] \in blocks'
      BY <2>2, <2>3
    <3> QED BY <1>1, <1>4, <2>1, <2>9, <3>1, <3>2, <3>3 DEF ArrayInv
  <2>12. WalkInv' /\ FileInv'
    BY <2>1 DEF WalkInv, FileInv
  <2>13. StopsOnlyWhen'
    BY <1>1, <2>1 DEF StopsOnlyWhen
  <2> QED BY <2>4, <2>6, <2>7, <2>8, <2>10, <2>11, <2>12, <2>13 DEF IInv
<1> QED BY <1>6, <1>7

LEMMA ConvertKeeps == ASSUME IInv, Convert PROVE IInv'
<1>1. /\ pc = "convert" /\ fault = "none" /\ fault' = "none"
      /\ UNCHANGED <<disk, alloc_top, blocks, fs, op, start, name, cl, buf, n, arr, found, files, calls>>
  BY DEF Convert, Running, heap, call
<1>2. Mounted /\ TypeOK /\ alloc_top \in Nat /\ buf \in Nat /\ arr \in Nat /\ n \in Nat /\ Low = buf
  BY <1>1, LowFacts DEF IInv, Mounted, Mounting, Low, TypeOK
<1>3. SoundCard(disk) /\ op # "mk" /\ op \in {"readdir", "stat", "read"} /\ IsStart(disk, start)
  BY <1>1, <1>2, CardFacts DEF IInv, OpInv, Mounted, Mounting, TypeOK
<1>4. /\ SoundDirectory(disk, start) /\ RawIn(wrote, disk, buf, start, LastIn(disk, start) + 1)
      /\ index \in 0 .. EndIn(disk, start) - 1 /\ n = Len(UsedIn(disk, start))
      /\ arr + PiDirentSize * n <= alloc_top
      /\ buf + DirBytes(disk, LastIn(disk, start) + 1) <= arr
      /\ cnt = Len(KeptOf(AllIn(disk, start))[index])
      /\ ArrayIn(wrote, arr, UsedIn(disk, start), cnt)
      /\ [addr |-> arr, size |-> PiDirentSize * n, align |-> 4] \in blocks
  BY <1>1 DEF IInv, ScanInv, ArrayInv
<1>5. UsedFacts(disk, start) /\ DirFacts(disk, start)
  BY <1>3, <1>4, DirUsed, SoundDirFacts
<1>6. PICK size \in Nat : size = DirBytes(disk, LastIn(disk, start) + 1) /\ buf + size <= arr
  <2>1. LastIn(disk, start) \in Nat /\ LastIn(disk, start) + 1 \in Nat
    BY <1>5 DEF DirFacts, ChainFacts
  <2>2. EntriesIn(disk) \in Nat \ {0}
    BY <1>3, SoundSizes
  <2>3. DirBytes(disk, LastIn(disk, start) + 1) \in Nat
    BY <2>1, <2>2, DirBytesMore
  <2> QED BY <1>4, <2>3
<1>7. PICK D \in Nat \ {0} : D = PiDirentSize
  BY Sizes
<1>8. PICK z \in Nat : z = D * n
  BY <1>2
<1>9. CASE Raw(index) = End
  <2>1. /\ pc' = IF op = "readdir" THEN "idle" ELSE "lookup"
        /\ listings' = IF op = "readdir" THEN listings \cup {[dir |-> start, arr |-> arr, n |-> n]}
                       ELSE listings
        /\ UNCHANGED <<wrote, index, cnt>>
    BY <1>9 DEF Convert
  <2>2. index = EndIn(disk, start) - 1
    BY <1>1, <1>9, AtEntry
  <2>3. cnt = n
    BY <1>4, <2>2 DEF UsedIn
  <2>4. pc' \in {"idle", "lookup"} /\ Mounted' /\ Low' = alloc_top
    BY <1>1, <2>1 DEF Mounted, Mounting, Low
  <2>5. buf <= alloc_top
    BY <1>2, <1>4, <1>6, <1>7, <1>8
  <2>6. /\ CardInv' /\ FsInv' /\ StaysInBlock'
        /\ \A l \in listings : ListingAt(wrote, disk, Low, l)'
        /\ \A s \in found : FoundAt(wrote, disk, Low, s)'
    BY <1>1, <1>2, <2>1, <2>4, <2>5, QuietStep
  <2>7. ListingAt(wrote, disk, alloc_top, [dir |-> start, arr |-> arr, n |-> n])
    BY <1>2, <1>4, <2>3 DEF ListingAt
  <2>8. GivenInv'
    <3>1. ASSUME NEW l \in listings' PROVE ListingAt(wrote', disk', Low', l)
      <4>1. CASE l \in listings
        BY <2>6, <4>1
      <4>2. CASE l \notin listings
        <5>1. l = [dir |-> start, arr |-> arr, n |-> n]
          BY <2>1, <4>2
        <5>2. wrote' = wrote /\ disk' = disk
          BY <1>1, <2>1
        <5> QED BY <2>4, <2>7, <5>1, <5>2
      <4> QED BY <4>1, <4>2
    <3>2. found' = found
      BY <1>1
    <3> QED BY <2>4, <2>6, <3>1, <3>2 DEF GivenInv
  <2>9. TypeOK'
    BY <1>1, <1>2, <2>1, <2>4 DEF TypeOK
  <2>10. OpInv'
    BY <1>1, <1>3, <2>1, <2>4 DEF IInv, OpInv, Mounted, Mounting
  <2>11. ArrayInv'
    BY <1>1, <1>4, <2>1, <2>3, <2>4 DEF ArrayInv
  <2>12. WalkInv' /\ ScanInv' /\ FileInv'
    BY <2>4 DEF WalkInv, ScanInv, FileInv
  <2>13. StopsOnlyWhen'
    BY <1>1 DEF StopsOnlyWhen
  <2> QED BY <2>6, <2>8, <2>9, <2>10, <2>11, <2>12, <2>13 DEF IInv
<1>10. CASE Raw(index) # End
  <2>1. /\ wrote' = IF Listed(Raw(index))
                      THEN Writing(arr + PiDirentSize * cnt, PiDirentSize,
                                   <<"dirent", DirentConvert(Raw(index))>>)
                      ELSE wrote
        /\ cnt' = IF Listed(Raw(index)) THEN cnt + 1 ELSE cnt
        /\ index' = index + 1 /\ pc' = "convert" /\ listings' = listings
    BY <1>1, <1>10 DEF Convert, Advance
  <2>2. Mounted' /\ Low' = buf
    BY <1>1, <2>1 DEF Mounted, Mounting, Low
  <2>3. index + 1 \in 0 .. EndIn(disk, start) - 1
    BY <1>1, <1>10, AtEntry
  <2>4. Listed(Raw(index)) <=> Raw(index) # Deleted
    BY <1>10 DEF Listed
  <2>5. OpInv' /\ WalkInv' /\ FileInv'
    BY <1>1, <1>3, <2>1 DEF IInv, OpInv, WalkInv, FileInv, Mounted, Mounting
  <2>6. StopsOnlyWhen'
    BY <1>1 DEF StopsOnlyWhen
  <2>7. PICK e : e = Raw(index)
    OBVIOUS
  <2>8. cnt \in Nat /\ TypeOK'
    <3>1. cnt \in Nat /\ cnt + 1 \in Nat /\ index + 1 \in Int
      BY <1>2 DEF TypeOK
    <3>2. cnt' \in Nat /\ index' \in Int
      BY <2>1, <3>1
    <3> QED BY <1>1, <1>2, <2>1, <3>1, <3>2 DEF TypeOK
  <2>9. CASE e = Deleted
    <3>1. wrote' = wrote /\ cnt' = cnt
      BY <2>1, <2>4, <2>7, <2>9
    <3>2. cnt = Len(KeptOf(AllIn(disk, start))[index + 1])
      BY <1>1, <1>4, <1>10, <2>7, <2>9, AtEntry
    <3>3. /\ CardInv' /\ FsInv' /\ StaysInBlock'
          /\ \A l \in listings : ListingAt(wrote, disk, Low, l)'
          /\ \A s \in found : FoundAt(wrote, disk, Low, s)'
      BY <1>1, <1>2, <2>2, <3>1, QuietStep
    <3>4. GivenInv'
      BY <1>1, <2>1, <2>2, <3>3, GivenSame
    <3>5. ScanInv'
      BY <1>1, <1>4, <2>1, <2>3, <3>1 DEF ScanInv
    <3>6. ArrayInv'
      BY <1>1, <1>4, <2>1, <3>1, <3>2 DEF ArrayInv
    <3> QED BY <2>5, <2>6, <2>8, <3>3, <3>4, <3>5, <3>6 DEF IInv
  <2>10. CASE e # Deleted
    <3>1. PICK k \in Nat : k = cnt
      BY <2>8
    <3>2. /\ Len(KeptOf(AllIn(disk, start))[index + 1]) = k + 1
          /\ k + 1 \in 1 .. n /\ UsedIn(disk, start)[k + 1] = e
      BY <1>1, <1>4, <1>10, <2>7, <2>10, <3>1, AtEntry
    <3>3. PICK y \in Nat : y = D * k /\ y + D <= z
      <4>1. PICK i \in Nat : n = k + 1 + i
        <5>1. n - (k + 1) \in Nat /\ n = k + 1 + (n - (k + 1))
          BY <1>2, <3>2
        <5> QED BY <5>1
      <4>2. D * n = D * k + D + D * i /\ D * i \in Nat /\ D * k \in Nat
        BY <4>1
      <4> QED BY <1>8, <4>2
    <3>4. PICK w : w = [addr |-> arr + y, size |-> D, what |-> <<"dirent", DirentConvert(e)>>]
      OBVIOUS
    <3>5. wrote' = Append(wrote, w) /\ cnt' = k + 1
      BY <1>7, <2>1, <2>4, <2>7, <2>10, <3>1, <3>3, <3>4 DEF Writing
    <3>6. IsWrite(w) /\ w.addr >= Low /\ InBlock(blocks, w)
      <4>1. IsWrite(w)
        BY <1>2, <3>4 DEF IsWrite
      <4>2. w.addr >= Low
        BY <1>2, <1>6, <3>4
      <4>3. InBlock(blocks, w)
        <5>1. (arr + y) + D <= arr + z /\ arr <= arr + y
          BY <1>2, <3>3
        <5>2. [addr |-> arr, size |-> z, align |-> 4] \in blocks
          BY <1>4, <1>7, <1>8
        <5> QED BY <3>4, <5>1, <5>2 DEF InBlock
      <4> QED BY <4>1, <4>2, <4>3
    <3>7. /\ CardInv' /\ FsInv' /\ StaysInBlock' /\ OneMore(wrote, w, wrote')
          /\ \A l \in listings : ListingAt(wrote, disk, Low, l)'
          /\ \A s \in found : FoundAt(wrote, disk, Low, s)'
      <4>1. InBlock(blocks', w) /\ Low' \in Nat /\ Low <= Low' /\ blocks \subseteq blocks'
        BY <1>1, <1>2, <2>2, <3>6
      <4> QED BY <1>1, <1>2, <2>2, <3>5, <3>6, <4>1, MemoryStep
    <3>8. GivenInv'
      BY <1>1, <2>1, <2>2, <3>7, GivenSame
    <3>9. RawIn(wrote', disk, buf, start, LastIn(disk, start) + 1)
      <4>1. w.addr \in Nat /\ w.addr >= arr /\ arr \in Nat
        BY <1>2, <3>4
      <4>2. Grows(wrote, wrote', arr)
        BY <3>6, <3>7, <4>1 DEF Grows
      <4>3. LastIn(disk, start) + 1 \in Nat
        BY <1>5 DEF DirFacts, ChainFacts
      <4> QED BY <1>2, <1>3, <1>4, <4>1, <4>2, <4>3, RawKept
    <3>10. ScanInv'
      BY <1>1, <1>4, <2>1, <2>3, <3>9 DEF ScanInv
    <3>11. ArrayIn(wrote', arr, UsedIn(disk, start), k + 1)
      <4> SUFFICES ASSUME NEW i \in 1 .. k + 1
                   PROVE  EntryAt(wrote', arr + PiDirentSize * (i - 1), UsedIn(disk, start)[i])
        BY DEF ArrayIn
      <4>1. CASE i = k + 1
        <5>1. EntryAt(wrote', w.addr, e)
          <6>1. w.what = <<"dirent", DirentConvert(e)>> /\ w.size = PiDirentSize
            BY <1>7, <3>4
          <6> QED BY <3>6, <3>7, <6>1, EntryWritten
        <5>2. arr + PiDirentSize * (i - 1) = w.addr
          <6>1. i - 1 = k
            BY <4>1
          <6> QED BY <1>7, <3>3, <3>4, <6>1
        <5>3. UsedIn(disk, start)[i] = e
          BY <3>2, <4>1
        <5> QED BY <5>1, <5>2, <5>3
      <4>2. CASE i # k + 1
        <5>1. i \in 1 .. k
          BY <4>2
        <5>2. Grows(wrote, wrote', arr + y)
          BY <1>2, <3>4, <3>6, <3>7 DEF Grows
        <5>3. arr + y \in Nat /\ arr + PiDirentSize * k <= arr + y
          BY <1>2, <1>7, <3>3
        <5>4. ArrayIn(wrote, arr, UsedIn(disk, start), k)
          BY <1>4, <3>1
        <5>5. ArrayIn(wrote', arr, UsedIn(disk, start), k)
          BY <1>2, <5>2, <5>3, <5>4, ArrayKept
        <5> QED BY <5>1, <5>5 DEF ArrayIn
      <4> QED BY <4>1, <4>2
    <3>12. ArrayInv'
      BY <1>1, <1>4, <2>1, <3>2, <3>5, <3>11 DEF ArrayInv
    <3> QED BY <2>5, <2>6, <2>8, <3>7, <3>8, <3>10, <3>12 DEF IInv
  <2> QED BY <2>9, <2>10
<1> QED BY <1>9, <1>10

-----------------------------------------------------------------------------
(* Finding a name, and reading a file.                                     *)

LEMMA FirstIs ==
  ASSUME NEW es, Len(es) \in Nat, DOMAIN es = 1 .. Len(es), NEW nm, NEW i, IsFirst(es, nm, i),
         NEW e \in FirstNamed(es, nm)
  PROVE  i \in 0 .. Len(es) - 1 /\ e = es[i + 1]
<1>1. PICK k \in 1 .. Len(es) : e = es[k] /\ es[k].name = nm /\ \A j \in 1 .. k - 1 : es[j].name # nm
  BY DEF FirstNamed
<1>2. i \in 0 .. Len(es) - 1 /\ es[i + 1].name = nm /\ \A j \in 1 .. i : es[j].name # nm
  BY <1>1 DEF IsFirst
<1>3. i + 1 = k
  <2>1. ~(k < i + 1)
    BY <1>1, <1>2
  <2>2. ~(i + 1 < k)
    BY <1>1, <1>2
  <2> QED BY <1>2, <2>1, <2>2
<1> QED BY <1>1, <1>2, <1>3

LEMMA FindFirst ==
  ASSUME WritesOK(wrote), arr \in Nat, n \in Nat, NEW es, n = Len(es), ArrayIn(wrote, arr, es, n)
  PROVE  IsFirst(es, name, FindDirent)
<1>1. ASSUME NEW i \in 0 .. n - 1 PROVE PiDirentAt(arr + PiDirentSize * i).name = es[i + 1].name
  <2>1. PiDirentAt(arr + PiDirentSize * i) = DirentConvert(es[i + 1])
    BY ArrayRead
  <2> QED BY <2>1 DEF DirentConvert
<1>2. PICK N : N = Named
  OBVIOUS
<1>3. N = {i \in 0 .. n - 1 : es[i + 1].name = name}
  BY <1>1, <1>2 DEF Named
<1>4. CASE N = {}
  <2>1. FindDirent = -1
    BY <1>2, <1>4 DEF FindDirent
  <2>2. ASSUME NEW k \in 1 .. n PROVE es[k].name # name
    <3>1. k - 1 \in 0 .. n - 1 /\ (k - 1) + 1 = k
      OBVIOUS
    <3> QED BY <1>3, <1>4, <3>1
  <2> QED BY <2>1, <2>2 DEF IsFirst
<1>5. CASE N # {}
  <2>1. N \subseteq Nat
    BY <1>3
  <2>2. \E i \in N : \A j \in N : i <= j
    BY <1>5, <2>1, NatLeast
  <2>3. PICK f : f = CHOOSE i \in N : \A j \in N : i <= j
    OBVIOUS
  <2>4. f \in N /\ \A j \in N : f <= j
    BY <2>2, <2>3, Zenon
  <2>5. FindDirent = f
    BY <1>2, <1>5, <2>3, Zenon DEF FindDirent
  <2>6. f \in 0 .. n - 1 /\ es[f + 1].name = name
    BY <1>3, <2>4
  <2>7. ASSUME NEW k \in 1 .. f PROVE es[k].name # name
    <3>1. k - 1 \in 0 .. n - 1 /\ (k - 1) + 1 = k /\ ~(f <= k - 1)
      BY <2>6
    <3>2. k - 1 \notin N
      BY <2>4, <3>1
    <3> QED BY <1>3, <3>1, <3>2
  <2> QED BY <2>5, <2>6, <2>7 DEF IsFirst
<1> QED BY <1>4, <1>5

\* The chain of what was found, or not found.
LEMMA FileChain ==
  ASSUME SoundCard(disk), SoundDirectory(disk, start), name \in Names, NEW i,
         IsFirst(UsedIn(disk, start), name, i)
  PROVE  LET c == FileCluster(UsedIn(disk, start), i)
         IN  SoundChain(disk, c) /\ c \in Nat /\ (i # -1 => c \notin DOMAIN disk.dir)
<1>1. PICK es : es = UsedIn(disk, start)
  OBVIOUS
<1>2. Len(es) \in Nat /\ \A k \in 1 .. Len(es) : SoundEntry(disk, es[k])
  BY <1>1, DirUsed DEF UsedFacts
<1>3. CASE i = -1
  BY <1>3 DEF FileCluster, SoundCard
<1>4. CASE i # -1
  <2>1. i \in 0 .. Len(es) - 1 /\ es[i + 1].name = name
    BY <1>1, <1>4 DEF IsFirst
  <2>2. SoundEntry(disk, es[i + 1])
    BY <1>2, <2>1
  <2>3. es[i + 1].cluster \in Nat /\ es[i + 1].cluster \notin DOMAIN disk.dir /\ SoundChain(disk, es[i + 1].cluster)
    BY <2>1, <2>2 DEF SoundEntry
  <2> QED BY <1>1, <1>4, <2>3 DEF FileCluster
<1> QED BY <1>3, <1>4

LEMMA DirentIs ==
  ASSUME WritesOK(wrote), arr \in Nat, n \in Nat, NEW es, n = Len(es), ArrayIn(wrote, arr, es, n),
         NEW nm, NEW i, IsFirst(es, nm, i)
  PROVE  Dirent(i).cluster_id = FileCluster(es, i)
<1>1. CASE i = -1
  BY <1>1 DEF Dirent, FileCluster, NotFound
<1>2. CASE i # -1
  <2>1. i \in 0 .. n - 1
    BY <1>2 DEF IsFirst
  <2>2. PiDirentAt(arr + PiDirentSize * i) = DirentConvert(es[i + 1])
    BY <2>1, ArrayRead
  <2> QED BY <1>2, <2>2 DEF Dirent, FileCluster, DirentConvert
<1> QED BY <1>1, <1>2

LEMMA LookupKeeps == ASSUME IInv, Lookup PROVE IInv'
<1>1. /\ pc = "lookup" /\ fault = "none" /\ fault' = "none" /\ index' = FindDirent
      /\ UNCHANGED <<disk, alloc_top, blocks, wrote, fs, op, start, name, buf, n, arr, listings, files, calls>>
  BY DEF Lookup, Running, heap, call
<1>2. Mounted /\ TypeOK /\ alloc_top \in Nat /\ arr \in Nat /\ n \in Nat /\ Low = alloc_top
  BY <1>1, LowFacts DEF IInv, Mounted, Mounting, Low, TypeOK
<1>3. SoundCard(disk) /\ WritesOK(wrote)
  BY <1>2, CardFacts DEF Mounted, Mounting, IInv, CardInv
<1>4. /\ SoundDirectory(disk, start) /\ n = Len(UsedIn(disk, start))
      /\ arr + PiDirentSize * n <= alloc_top /\ ArrayIn(wrote, arr, UsedIn(disk, start), n)
      /\ op \in {"stat", "read"} /\ name \in Names /\ IsStart(disk, start)
  <2>1. op \in {"stat", "read"}
    BY <1>1, <1>2 DEF IInv, OpInv, Mounting, TypeOK
  <2>2. name \in Names /\ IsStart(disk, start)
    BY <1>1, <2>1 DEF IInv, OpInv, Mounting
  <2> QED BY <1>1, <2>1, <2>2 DEF IInv, ArrayInv
<1>5. PICK es : es = UsedIn(disk, start)
  OBVIOUS
<1>6. PICK i : i = index'
  OBVIOUS
<1>7. IsFirst(es, name, i)
  BY <1>1, <1>2, <1>3, <1>4, <1>5, <1>6, FindFirst
<1>8. i \in Int /\ Mounted' /\ Low' = alloc_top /\ pc' \in {"idle", "filelength"}
  <2>1. i \in Int
    BY <1>2, <1>4, <1>5, <1>7 DEF IsFirst
  <2>2. pc' \in {"idle", "filelength"}
    BY <1>1 DEF Lookup
  <2> QED BY <1>1, <2>1, <2>2 DEF Mounted, Mounting, Low
<1>9. /\ CardInv' /\ FsInv' /\ StaysInBlock'
      /\ \A l \in listings : ListingAt(wrote, disk, Low, l)'
      /\ \A s \in found : FoundAt(wrote, disk, Low, s)'
  BY <1>1, <1>2, <1>8, QuietStep
<1>10. OpInv'
  BY <1>1, <1>4, <1>8 DEF Lookup, OpInv, Mounted, Mounting
<1>11. WalkInv' /\ ScanInv'
  BY <1>8 DEF WalkInv, ScanInv
<1>12. ArrayInv'
  BY <1>1, <1>4, <1>8 DEF ArrayInv
<1>13. StopsOnlyWhen'
  BY <1>1 DEF StopsOnlyWhen
<1>14. CASE op = "stat"
  <2>1. /\ found' = found \cup {[dir |-> start, name |-> name, dirent |-> arr + PiDirentSize * i]}
        /\ pc' = "idle" /\ UNCHANGED <<cl, cnt>>
    BY <1>6, <1>14 DEF Lookup
  <2>2. PICK r : r = [dir |-> start, name |-> name, dirent |-> arr + PiDirentSize * i]
    OBVIOUS
  <2>3. FoundAt(wrote, disk, alloc_top, r)
    <3>1. ASSUME NEW e \in FirstNamed(UsedIn(disk, r.dir), r.name)
          PROVE  r.dirent \in Nat /\ r.dirent + PiDirentSize <= alloc_top /\ EntryAt(wrote, r.dirent, e)
      <4>1. e \in FirstNamed(es, name)
        BY <1>5, <2>2
      <4>2. Len(es) \in Nat /\ DOMAIN es = 1 .. Len(es)
        BY <1>3, <1>4, <1>5, DirUsed DEF UsedFacts
      <4>3. i \in 0 .. n - 1 /\ e = es[i + 1]
        BY <1>4, <1>5, <1>7, <4>1, <4>2, FirstIs
      <4>4. PICK D \in Nat \ {0} : D = PiDirentSize
        BY Sizes
      <4>5. PICK k \in Nat : n = i + 1 + k /\ i \in Nat
        <5>1. n - (i + 1) \in Nat /\ n = i + 1 + (n - (i + 1)) /\ i \in Nat
          BY <1>2, <4>3
        <5> QED BY <5>1
      <4>6. D * n = D * i + D + D * k /\ D * i \in Nat /\ D * k \in Nat
        BY <4>5
      <4>7. r.dirent \in Nat /\ r.dirent + PiDirentSize <= alloc_top
        BY <1>2, <1>4, <2>2, <4>4, <4>6
      <4>8. i + 1 \in 1 .. n /\ (i + 1) - 1 = i
        BY <1>2, <4>3
      <4>9. EntryAt(wrote, arr + PiDirentSize * ((i + 1) - 1), es[i + 1])
        BY <1>4, <1>5, <4>8 DEF ArrayIn
      <4> QED BY <2>2, <4>3, <4>7, <4>8, <4>9
    <3> QED BY <1>4, <2>2, <3>1 DEF FoundAt
  <2>4. GivenInv'
    <3>1. ASSUME NEW s \in found' PROVE FoundAt(wrote', disk', Low', s)
      <4>1. CASE s \in found
        BY <1>9, <4>1
      <4>2. CASE s \notin found
        <5>1. s = r
          BY <2>1, <2>2, <4>2
        <5> QED BY <1>1, <1>8, <2>3, <5>1
      <4> QED BY <4>1, <4>2
    <3> QED BY <1>1, <1>8, <1>9, <3>1 DEF GivenInv
  <2>5. TypeOK'
    BY <1>1, <1>2, <1>6, <1>8, <2>1 DEF TypeOK
  <2>6. FileInv'
    BY <2>1 DEF FileInv
  <2> QED BY <1>9, <1>10, <1>11, <1>12, <1>13, <2>4, <2>5, <2>6 DEF IInv
<1>15. CASE op # "stat"
  <2>1. cl' = Dirent(i).cluster_id /\ cnt' = 1 /\ pc' = "filelength" /\ found' = found
    BY <1>6, <1>15 DEF Lookup, ChainCount
  <2>2. GivenInv'
    BY <1>1, <1>8, <1>9, <2>1, GivenSame
  <2>3. PICK c : c = FileCluster(es, i)
    OBVIOUS
  <2>4. SoundChain(disk, c) /\ c \in Nat
    BY <1>3, <1>4, <1>5, <1>7, <2>3, FileChain
  <2>5. Dirent(i).cluster_id = c
    BY <1>2, <1>3, <1>4, <1>5, <1>7, <2>3, DirentIs
  <2>6. TypeOK'
    BY <1>1, <1>2, <1>6, <1>8, <2>1, <2>4, <2>5 DEF TypeOK
  <2>7. FileInv'
    <3>1. File' = c
      BY <1>1, <1>5, <1>6, <2>3 DEF File
    <3>2. LastIn(disk, c) \in Nat /\ Walk(disk, c)[0] = c
      BY <1>3, <2>4, SoundChainFacts DEF ChainFacts
    <3>3. 1 \in 1 .. LastIn(disk, c) + 1 /\ 1 - 1 = 0
      BY <3>2
    <3> QED BY <1>1, <1>5, <1>6, <1>7, <2>1, <2>4, <2>5, <3>1, <3>2, <3>3 DEF FileInv
  <2> QED BY <1>9, <1>10, <1>11, <1>12, <1>13, <2>2, <2>6, <2>7 DEF IInv
<1> QED BY <1>14, <1>15

LEMMA ReadFileKeeps == ASSUME IInv, ReadFile PROVE IInv'
<1>1. pc = "file" /\ fault = "none" /\ UNCHANGED <<disk, op, start, name, calls>> /\ op = "read"
  BY DEF ReadFile, Running, call, IInv, OpInv
<1>2. Mounted /\ TypeOK /\ alloc_top \in Nat /\ arr \in Nat /\ n \in Nat /\ Low = alloc_top
  BY <1>1, LowFacts DEF IInv, Mounted, Mounting, Low, TypeOK
<1>3. SoundCard(disk) /\ WritesOK(wrote)
  BY <1>2, CardFacts DEF Mounted, Mounting, IInv, CardInv
<1>4. /\ SoundDirectory(disk, start) /\ n = Len(UsedIn(disk, start))
      /\ ArrayIn(wrote, arr, UsedIn(disk, start), n)
      /\ IsFirst(UsedIn(disk, start), name, index)
      /\ cnt \in 1 .. LastIn(disk, File) + 1 /\ name \in Names
  BY <1>1 DEF IInv, ArrayInv, FileInv, OpInv
<1>5. PICK es : es = UsedIn(disk, start)
  OBVIOUS
<1>6. Len(es) \in Nat /\ DOMAIN es = 1 .. Len(es) /\ start >= 2
  BY <1>3, <1>4, <1>5, DirUsed, SoundDirFacts DEF UsedFacts, DirFacts
<1>7. PICK c \in Nat : /\ c = FileCluster(es, index) /\ c = Dirent(index).cluster_id
                       /\ index # -1 => c \notin DOMAIN disk.dir
  <2>1. FileCluster(es, index) \in Nat /\ (index # -1 => FileCluster(es, index) \notin DOMAIN disk.dir)
    BY <1>3, <1>4, <1>5, FileChain
  <2>2. Dirent(index).cluster_id = FileCluster(es, index)
    BY <1>2, <1>3, <1>4, <1>5, DirentIs
  <2> QED BY <2>1, <2>2
<1>8. CASE c < 2
  <2>1. Panic /\ UNCHANGED <<disk, call, calls>>
    BY <1>7, <1>8 DEF ReadFile
  <2>2. ASSUME NEW d \in FirstNamed(es, name) PROVE d.cluster < 2
    <3>1. index \in 0 .. Len(es) - 1 /\ d = es[index + 1]
      BY <1>4, <1>5, <1>6, FirstIs
    <3>2. c = d.cluster
      BY <1>7, <3>1 DEF FileCluster
    <3> QED BY <1>8, <3>2
  <2> QED BY <1>1, <1>5, <1>6, <2>1, <2>2, Stopped
<1>9. CASE ~(c < 2)
  <2>1. /\ K!Bump(alloc_top, cnt, 4) /\ buf' = alloc_top /\ pc' = "struct"
        /\ wrote' = SdRead(alloc_top, ClusterToLba(c), cnt)
        /\ UNCHANGED <<fs, cl, cnt, index, n, arr, listings, found, files, fault>>
    BY <1>7, <1>9 DEF ReadFile, FileBytes, given
  <2>2. cnt \in Nat \ {0}
    BY <1>2, <1>4 DEF TypeOK
  <2>3. /\ alloc_top' \in Nat /\ alloc_top + cnt <= alloc_top' /\ alloc_top' <= MemEnd
        /\ blocks' = blocks \cup {[addr |-> alloc_top, size |-> cnt, align |-> 4]}
        /\ [addr |-> alloc_top, size |-> cnt, align |-> 4] \in K!A!Block
    BY <1>2, <2>1, <2>2, BumpFacts
  <2>4. TypeOK'
    BY <1>1, <1>2, <2>1, <2>3, Sizes DEF TypeOK
  <2>5. PICK s \in Nat \ {0}, b \in Nat : s = disk.boot.sec_per_cluster /\ b = DataOf(disk)
    BY <1>2, <1>3, FsFacts, SoundSizes
  <2>6. PICK x \in Nat : c = x + 2 /\ c - 2 = x
    <3>1. c - 2 \in Nat /\ c = (c - 2) + 2
      BY <1>9
    <3> QED BY <3>1
  <2>7. PICK y \in Nat : y = x * s /\ y = s * x + 0
    OBVIOUS
  <2>8. y \div s = x
    <3>1. 0 \in 0 .. s - 1 /\ y \in Int /\ x \in Int
      OBVIOUS
    <3> QED BY <2>7, <3>1, DivMod
  <2>9. ClusterToLba(c) = b + y
    <3>1. fs.cluster_begin_lba = b /\ fs.sectors_per_cluster = s
      BY <1>2, <2>5, FsFacts
    <3> QED BY <2>6, <2>7, <3>1 DEF ClusterToLba, FirstCluster
  <2>10. PICK z \in Nat : z = cnt * NBYTES_PER_SECTOR
    BY <2>2, Sizes
  <2>11. PICK w : w = [addr |-> alloc_top, size |-> z, what |-> <<"sd", b + y>>]
    OBVIOUS
  <2>12. wrote' = Append(wrote, w)
    BY <2>1, <2>9, <2>10, <2>11 DEF SdRead, Writing
  <2>13. IsWrite(w) /\ w.addr >= Low
    BY <1>2, <2>11 DEF IsWrite
  <2>14. FileData(disk, w)
    <3>1. index # -1
      BY <1>7, <1>9 DEF FileCluster
    <3>2. w.what[1] = "sd" /\ w.what[2] = b + y
      BY <2>11
    <3>3. (b + y) - b = y /\ b + y >= b
      OBVIOUS
    <3>4. 2 + y \div s = c
      BY <2>6, <2>8
    <3> QED BY <1>7, <2>5, <3>1, <3>2, <3>3, <3>4 DEF FileData
  <2>15. Mounted' /\ Low' = alloc_top' /\ Low <= Low' /\ blocks \subseteq blocks'
    BY <1>2, <2>1, <2>2, <2>3 DEF Mounted, Mounting, Low
  <2>16. /\ CardInv' /\ FsInv' /\ StaysInBlock'
         /\ \A l \in listings : ListingAt(wrote, disk, Low, l)'
         /\ \A i \in found : FoundAt(wrote, disk, Low, i)'
    BY <1>1, <1>2, <2>1, <2>3, <2>12, <2>13, <2>14, <2>15, MemoryStep
  <2>17. GivenInv'
    BY <2>1, <2>15, <2>16, GivenSame
  <2>18. OpInv'
    BY <1>1, <2>1 DEF IInv, OpInv, Mounted, Mounting
  <2>19. WalkInv' /\ ScanInv' /\ ArrayInv' /\ FileInv'
    BY <2>1 DEF WalkInv, ScanInv, ArrayInv, FileInv
  <2>20. StopsOnlyWhen'
    BY <1>1, <2>1 DEF StopsOnlyWhen
  <2> QED BY <2>4, <2>16, <2>17, <2>18, <2>19, <2>20 DEF IInv
<1> QED BY <1>8, <1>9

LEMMA FileStructKeeps == ASSUME IInv, FileStruct PROVE IInv'
<1>1. /\ pc = "struct" /\ pc' = "idle" /\ fault = "none" /\ K!Bump(alloc_top, PiFileSize, 4)
      /\ wrote' = Writing(alloc_top, PiFileSize, <<"file", cnt>>)
      /\ UNCHANGED <<disk, fs, op, start, name, cl, cnt, buf, index, n, arr, listings, found, calls, fault>>
  BY DEF FileStruct, Running, call, locals
<1>2. Mounted /\ TypeOK /\ alloc_top \in Nat /\ Low = alloc_top
  BY <1>1, LowFacts DEF IInv, Mounted, Mounting, Low
<1>3. PICK x \in Nat \ {0} : x = PiFileSize
  BY Sizes
<1>4. /\ alloc_top' \in Nat /\ alloc_top + x <= alloc_top' /\ alloc_top' <= MemEnd
      /\ blocks' = blocks \cup {[addr |-> alloc_top, size |-> x, align |-> 4]}
      /\ [addr |-> alloc_top, size |-> x, align |-> 4] \in K!A!Block
  BY <1>1, <1>2, <1>3, BumpFacts
<1>5. TypeOK'
  BY <1>1, <1>2, <1>4, Sizes DEF TypeOK
<1>6. PICK w : w = [addr |-> alloc_top, size |-> x, what |-> <<"file", cnt>>]
  OBVIOUS
<1>7. wrote' = Append(wrote, w) /\ IsWrite(w) /\ w.addr >= Low /\ InBlock(blocks', w)
  <2>1. wrote' = Append(wrote, w)
    BY <1>1, <1>3, <1>6 DEF Writing
  <2>2. IsWrite(w) /\ w.addr >= Low
    BY <1>2, <1>6 DEF IsWrite
  <2>3. InBlock(blocks', w)
    BY <1>2, <1>4, <1>6 DEF InBlock
  <2> QED BY <2>1, <2>2, <2>3
<1>8. Mounted' /\ Low' = alloc_top' /\ Low <= Low' /\ blocks \subseteq blocks'
  BY <1>1, <1>2, <1>4 DEF Mounted, Mounting, Low
<1>9. /\ CardInv' /\ FsInv' /\ StaysInBlock'
      /\ \A l \in listings : ListingAt(wrote, disk, Low, l)'
      /\ \A i \in found : FoundAt(wrote, disk, Low, i)'
  BY <1>1, <1>2, <1>4, <1>7, <1>8, MemoryStep
<1>10. GivenInv'
  BY <1>1, <1>8, <1>9, GivenSame
<1>11. OpInv'
  BY <1>1 DEF IInv, OpInv, Mounted, Mounting
<1>12. WalkInv' /\ ScanInv' /\ ArrayInv' /\ FileInv'
  BY <1>1 DEF WalkInv, ScanInv, ArrayInv, FileInv
<1>13. StopsOnlyWhen'
  BY <1>1 DEF StopsOnlyWhen
<1> QED BY <1>5, <1>9, <1>10, <1>11, <1>12, <1>13 DEF IInv

-----------------------------------------------------------------------------
(* The theorems.                                                           *)

LEMMA InitInv == ASSUME Init PROVE IInv
<1>1. /\ disk \in Disks /\ alloc_top = HeapStart /\ blocks = {} /\ wrote = <<>>
      /\ pc = "mbr" /\ op = "mk" /\ start = 0
      /\ cl = 0 /\ cnt = 0 /\ buf = 0 /\ index = 0 /\ n = 0 /\ arr = 0
      /\ listings = {} /\ found = {} /\ calls = 0 /\ fault = "none"
  BY DEF Init
<1>2. TypeOK
  BY <1>1, Sizes DEF TypeOK
<1>3. WritesOK(wrote) /\ StaysInBlock
  <2>1. <<>> \in Seq({wrote[i] : i \in 1 .. Len(wrote)}) /\ Len(<<>>) = 0
    OBVIOUS
  <2>2. 1 .. Len(wrote) = {}
    BY <1>1, <2>1
  <2> QED BY <1>1, <2>1, <2>2 DEF WritesOK, StaysInBlock
<1>4. CardInv /\ FsInv /\ GivenInv /\ OpInv
  BY <1>1, <1>3 DEF CardInv, FsInv, GivenInv, OpInv, Mounted, Mounting
<1>5. WalkInv /\ ScanInv /\ ArrayInv /\ FileInv
  BY <1>1 DEF WalkInv, ScanInv, ArrayInv, FileInv
<1>6. StopsOnlyWhen
  BY <1>1 DEF StopsOnlyWhen
<1> QED BY <1>2, <1>3, <1>4, <1>5, <1>6 DEF IInv

LEMMA NextInv == ASSUME IInv, [Next]_vars PROVE IInv'
<1>1. CASE MbrRead BY <1>1, MbrReadKeeps
<1>2. CASE MkInfo BY <1>2, MkInfoKeeps
<1>3. CASE MkFat BY <1>3, MkFatKeeps
<1>4. ASSUME NEW d \in Directories, Call("readdir", d, "") PROVE IInv'
  BY <1>4, CallKeeps
<1>5. ASSUME NEW o \in {"stat", "read"}, NEW d \in Directories, NEW f \in Names, Call(o, d, f) PROVE IInv'
  BY <1>5, CallKeeps
<1>6. CASE ChainLength("length", "alloc") BY <1>6, LengthKeeps
<1>7. CASE AllocDirents BY <1>7, AllocDirentsKeeps
<1>8. CASE ReadChain BY <1>8, ReadChainKeeps
<1>9. CASE Scan BY <1>9, ScanKeeps
<1>10. CASE AllocArray BY <1>10, AllocArrayKeeps
<1>11. CASE Convert BY <1>11, ConvertKeeps
<1>12. CASE Lookup BY <1>12, LookupKeeps
<1>13. CASE ChainLength("filelength", "file") BY <1>13, FileLengthKeeps
<1>14. CASE ReadFile BY <1>14, ReadFileKeeps
<1>15. CASE FileStruct BY <1>15, FileStructKeeps
<1>16. CASE UNCHANGED vars BY <1>16, Stutter
<1> QED BY <1>1, <1>2, <1>3, <1>4, <1>5, <1>6, <1>7, <1>8, <1>9, <1>10, <1>11, <1>12,
           <1>13, <1>14, <1>15, <1>16 DEF Next, Step

\* The inductive invariant: the table, the directory being read, and every
\* result lie below what is yet to be written.
THEOREM Invariance == Spec => []IInv
<1>1. Init => IInv
  BY InitInv
<1>2. IInv /\ [Next]_vars => IInv'
  BY NextInv
<1> QED BY <1>1, <1>2, PTL DEF Spec

LEMMA TableStays == ASSUME IInv PROVE FatIntact
  BY FsFacts DEF FatIntact, Mounted, Mounting

LEMMA EntriesOf ==
  ASSUME IInv, Mounted, NEW c, SoundDirectory(disk, c)
  PROVE  Entries(c) = UsedIn(disk, c) /\ UsedFacts(disk, c)
<1>1. SoundCard(disk)
  BY CardFacts DEF Mounted, Mounting
<1>2. LastIn(disk, c) \in Nat /\ EntriesIn(disk) \in Nat \ {0}
  BY <1>1, SoundDirFacts, SoundSizes DEF DirFacts, ChainFacts
<1> QED BY <1>1, <1>2, EntriesAre, DirUsed

LEMMA ListingsStay == ASSUME IInv PROVE ListingsExact
<1> SUFFICES ASSUME NEW l \in listings
             PROVE  /\ l.n = Len(Entries(l.dir))
                    /\ \A i \in 1 .. l.n :
                         /\ IsPiDirentAt(l.arr + PiDirentSize * (i - 1))
                         /\ PiDirentAt(l.arr + PiDirentSize * (i - 1)) = DirentConvert(Entries(l.dir)[i])
  BY DEF ListingsExact
<1>1. Mounted /\ WritesOK(wrote)
  BY DEF IInv, GivenInv, CardInv
<1>2. /\ SoundDirectory(disk, l.dir) /\ l.arr \in Nat /\ l.n = Len(UsedIn(disk, l.dir))
      /\ ArrayIn(wrote, l.arr, UsedIn(disk, l.dir), l.n)
  BY DEF IInv, GivenInv, ListingAt
<1>3. Entries(l.dir) = UsedIn(disk, l.dir) /\ l.n \in Nat
  BY <1>1, <1>2, EntriesOf DEF UsedFacts
<1>4. ASSUME NEW i \in 1 .. l.n
      PROVE  /\ IsPiDirentAt(l.arr + PiDirentSize * (i - 1))
             /\ PiDirentAt(l.arr + PiDirentSize * (i - 1)) = DirentConvert(Entries(l.dir)[i])
  <2>1. EntryAt(wrote, l.arr + PiDirentSize * (i - 1), UsedIn(disk, l.dir)[i])
    BY <1>2 DEF ArrayIn
  <2>2. l.arr + PiDirentSize * (i - 1) \in Nat
    <3>1. i - 1 \in Nat
      BY <1>3
    <3> QED BY <1>2, <3>1, Sizes
  <2> QED BY <1>1, <1>3, <2>1, <2>2, EntryRead
<1> QED BY <1>2, <1>3, <1>4

LEMMA FoundStays == ASSUME IInv PROVE StatFindsFirst
<1> SUFFICES ASSUME NEW s \in found, NEW e \in FirstNamed(Entries(s.dir), s.name)
             PROVE  IsPiDirentAt(s.dirent) /\ PiDirentAt(s.dirent) = DirentConvert(e)
  BY DEF StatFindsFirst
<1>1. Mounted /\ WritesOK(wrote) /\ FoundAt(wrote, disk, Low, s)
  BY DEF IInv, GivenInv, CardInv
<1>2. Entries(s.dir) = UsedIn(disk, s.dir)
  BY <1>1, EntriesOf DEF FoundAt
<1>3. s.dirent \in Nat /\ EntryAt(wrote, s.dirent, e)
  BY <1>1, <1>2 DEF FoundAt
<1> QED BY <1>1, <1>3, EntryRead

\* The table in memory, and whatever the heap's other blocks hold, survive every
\* call: fat32_mk's table read back entry by entry is the card's, and all that
\* read_cluster_chain, dirent_convert and fat32_read write, but for the contents
\* of files, goes into a block allocated for it.
THEOREM MemoryStays == Spec => []MemoryIntact
<1>1. IInv => MemoryIntact
  BY TableStays DEF IInv, MemoryIntact
<1> QED BY <1>1, Invariance, PTL

\* What fat32_readdir returned has the directory's valid entries, each in its
\* place, what fat32_stat found is the first with the name if that is valid, and
\* both stay so whatever is called next.
THEOREM ResultsStay == Spec => []ResultsExact
<1>1. IInv => ResultsExact
  BY ListingsStay, FoundStays DEF ResultsExact
<1> QED BY <1>1, Invariance, PTL

\* No scan leaves its directory, and no assertion fails but for the four causes
\* that StopsOnlyWhen names.
THEOREM StopsFor == Spec => []StopsOnlyWhen
<1>1. IInv => StopsOnlyWhen
  BY DEF IInv
<1> QED BY <1>1, Invariance, PTL
====
