------------------------------ MODULE MCFat32 ------------------------------
(* Cards for Fat32: FATs of one sector with 16 entries, sectors of two       *)
(* directory entries, chains that are scattered and run backwards.           *)
EXTENDS Fat32

Entry(nm, at, c, size) == [name |-> nm, attr |-> at, cluster |-> c, nbytes |-> size]
F == Entry("F", "archive", 6, 100)     \* clusters 6 and 3
G == Entry("G", "archive", 10, 20)     \* one cluster
Z == Entry("Z", "archive", 0, 0)       \* an empty file
L == Entry("long", "lfn", 0, 0)        \* part of a long file name
V == Entry("G", "volume", 0, 0)        \* a volume label that reads like a file
D == Entry("D", "dir", 5, 0)           \* clusters 5 and 4

Contents == {<<>>, <<F>>, <<Deleted>>, <<Deleted, G>>, <<D, Deleted, F>>, <<V, L, G, D, Z>>}
SubDir   == <<Entry(".", "dir", 5, 0), Entry("..", "dir", 0, 0), G>>
RootChains == {<<2>>, <<2, 12, 7>>}

\* the table in which each of the chains is linked, its last entry being last
Linked(chains, last) ==
  [c \in 0 .. 15 |->
     IF c = 0 THEN ClusterSpace - 8
     ELSE IF \E s \in chains : \E i \in 1 .. Len(s) - 1 : s[i] = c
       THEN CHOOSE d \in 2 .. 15 : \E s \in chains : \E i \in 1 .. Len(s) - 1 : s[i] = c /\ s[i + 1] = d
     ELSE IF \E s \in chains : s[Len(s)] = c THEN last ELSE 0]

\* entries laid out over the clusters of a chain
Laid(es, chain, per) ==
  [c \in {chain[i] : i \in 1 .. Len(chain)} |->
     [k \in 1 .. per |->
        LET i == (CHOOSE j \in 1 .. Len(chain) : chain[j] = c)
            at == (i - 1) * per + k
        IN  IF at <= Len(es) THEN es[at] ELSE End]]

Card(root, contents, spc, last, boot_ok, nfats) ==
  [lba_start |-> 3,
   boot |-> [ok |-> boot_ok, reserved_area_nsec |-> 2, nfats |-> nfats, nsec_per_fat |-> 1,
             sec_per_cluster |-> spc],
   info_ok |-> TRUE,
   fat |-> Linked({root, <<6, 3>>, <<10>>, <<5, 4>>}, last),
   dir |-> LET a == Laid(contents, root, 2 * spc)
               b == Laid(SubDir, <<5, 4>>, 2 * spc)
           IN  [c \in DOMAIN a \cup DOMAIN b |-> IF c \in DOMAIN a THEN a[c] ELSE b[c]]]

\* A chain ends with all ones, or with the least last entry and top bits set.
Last(spc) == IF spc = 1 THEN ClusterSpace - 1 ELSE 16 * ClusterSpace - 8

\* every directory with room for its end, and two cards that fail the checks
Cards ==
  {Card(x[1], x[2], x[3], Last(x[3]), TRUE, 2) :
     x \in {y \in RootChains \X Contents \X {1, 2} : Len(y[2]) < 2 * y[3] * Len(y[1])}}
  \cup {Card(<<2>>, <<F>>, 1, ClusterSpace - 1, FALSE, 2),
        Card(<<2>>, <<F>>, 1, ClusterSpace - 1, TRUE, 1)}
=============================================================================
