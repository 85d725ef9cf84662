---------------------------- MODULE StorageProofs ----------------------------
(***************************************************************************)
(* The safety properties of Storage for every set of tags and values, every *)
(* size of the entries and of the region, and any number of power losses.   *)
(***************************************************************************)
EXTENDS Storage, FiniteSetTheorems, SequenceTheorems, TLAPS

\* The entries of a region that storage_save wrote: no tag twice.
TagsOnce(entries) ==
  \A i, j \in DOMAIN entries : entries[i].tag = entries[j].tag => i = j

\* What a tag may have after power losses.
MayHave(tag) == {saved[tag], Damaged} \cup unsure[tag]

\* Load from any region.
LoadFrom(r, tag) ==
  LET found == FindEntry(r.entries, tag)
  IN  IF ~r.valid \/ found = {} THEN Nothing
      ELSE LET e == r.entries[CHOOSE i \in found : TRUE]
           IN  IF e.val = Damaged THEN Nothing ELSE e.val

SaveType ==
  save = Idle \/ save \in [stage : {"erase", "program"}, tag : Tags, val : Values, img : Region]

RegionOK ==
  /\ TagsOnce(flash.entries)
  /\ \A i \in DOMAIN flash.entries : flash.entries[i].val \in MayHave(flash.entries[i].tag)

\* The image of a save that is under way.
ImageOK ==
  save # Idle =>
    /\ save.img.valid /\ TagsOnce(save.img.entries) /\ Occupied(save.img.entries) <= RegionSize
    /\ \A i \in DOMAIN save.img.entries :
         LET e == save.img.entries[i]
         IN  e.val \in IF e.tag = save.tag THEN {save.val} ELSE MayHave(e.tag)
    /\ \E i \in DOMAIN save.img.entries : save.img.entries[i].tag = save.tag

\* Until the power went for the first time.
ExactOK ==
  power_losses = 0 =>
    /\ save = Idle \/ save.stage = "erase" => \A t \in Tags : Load(t) = saved[t]
    /\ save # Idle => \A t \in Tags \ {save.tag} : LoadFrom(save.img, t) = saved[t]

Inv == TypeOK /\ SaveType /\ power_losses \in Nat /\ RegionOK /\ ImageOK /\ ExactOK

-----------------------------------------------------------------------------
(* The numbers of a finite set in their order.                              *)

UpTo(S, i) == {j \in S : j <= i}

LEMMA UpToFacts ==
  ASSUME NEW S \in SUBSET Nat, IsFiniteSet(S), NEW i \in S
  PROVE  Cardinality(UpTo(S, i)) \in 1 .. Cardinality(S)
<1>1. UpTo(S, i) \in SUBSET S /\ i \in UpTo(S, i)
  BY DEF UpTo
<1>2. /\ IsFiniteSet(UpTo(S, i)) /\ Cardinality(UpTo(S, i)) \in Nat /\ Cardinality(S) \in Nat
      /\ Cardinality(UpTo(S, i)) <= Cardinality(S)
  BY <1>1, FS_Subset, FS_CardinalityType
<1>3. Cardinality(UpTo(S, i)) # 0
  BY <1>1, <1>2, FS_EmptySet
<1> QED BY <1>2, <1>3

\* No two of them have as many up to them.
LEMMA UpToInjective ==
  ASSUME NEW S \in SUBSET Nat, IsFiniteSet(S), NEW i \in S, NEW j \in S,
         Cardinality(UpTo(S, i)) = Cardinality(UpTo(S, j))
  PROVE  i = j
<1>1. ASSUME NEW a \in S, NEW b \in S, a < b
      PROVE  Cardinality(UpTo(S, a)) # Cardinality(UpTo(S, b))
  <2>1. UpTo(S, a) \in SUBSET UpTo(S, b) /\ b \in UpTo(S, b) /\ b \notin UpTo(S, a)
    <3>1. a \in Nat /\ b \in Nat /\ \A m \in S : m \in Nat
      OBVIOUS
    <3>2. \A m \in S : m <= a => m <= b
      BY <1>1, <3>1
    <3>3. ~(b <= a) /\ b <= b
      BY <1>1, <3>1
    <3> QED BY <3>2, <3>3 DEF UpTo
  <2>2. UpTo(S, b) \in SUBSET S
    BY DEF UpTo
  <2>3. IsFiniteSet(UpTo(S, b))
    BY <2>2, FS_Subset
  <2> QED BY <2>1, <2>3, FS_Subset
<1>2. i \in Nat /\ j \in Nat
  OBVIOUS
<1> QED BY <1>1, <1>2

LEMMA NthFacts ==
  ASSUME NEW S \in SUBSET Nat, IsFiniteSet(S)
  PROVE  /\ \A k \in 1 .. Cardinality(S) :
              Nth(S, k) \in S /\ Cardinality(UpTo(S, Nth(S, k))) = k
         /\ \A i \in S : Cardinality(UpTo(S, i)) \in 1 .. Cardinality(S)
                         /\ Nth(S, Cardinality(UpTo(S, i))) = i
<1> DEFINE n == Cardinality(S)
           rank == [i \in S |-> Cardinality(UpTo(S, i))]
<1>1. n \in Nat
  BY FS_CardinalityType
<1>2. IsFiniteSet(1 .. n) /\ Cardinality(1 .. n) = n
  <2>1. IsFiniteSet(1 .. n) /\ Cardinality(1 .. n) = IF 1 > n THEN 0 ELSE n - 1 + 1
    BY <1>1, FS_Interval
  <2> QED BY <1>1, <2>1
<1>3. \A i \in S : Cardinality(UpTo(S, i)) \in 1 .. n
  BY UpToFacts
<1>4. rank \in [S -> 1 .. n]
  BY <1>3
<1>5. \A i, j \in S : rank[i] = rank[j] => i = j
  BY UpToInjective
<1>6. rank \in Injection(S, 1 .. n)
  BY <1>4, <1>5 DEF Injection, IsInjective
<1>7. rank \in Surjection(S, 1 .. n)
  BY <1>2, <1>6, FS_Injection
<1>8. ASSUME NEW k \in 1 .. n
      PROVE  Nth(S, k) \in S /\ Cardinality(UpTo(S, Nth(S, k))) = k
  <2>1. \E i \in S : Cardinality(UpTo(S, i)) = k
    BY <1>7 DEF Surjection
  <2> QED BY <2>1 DEF Nth, UpTo
<1>9. ASSUME NEW i \in S
      PROVE  Nth(S, Cardinality(UpTo(S, i))) = i
  <2>1. Cardinality(UpTo(S, i)) \in 1 .. n
    BY <1>3
  <2> QED BY <1>8, <2>1, UpToInjective
<1> QED BY <1>3, <1>8, <1>9

-----------------------------------------------------------------------------
(* The words that entries take.                                             *)

LEMMA SizeType ==
  ASSUME NEW t \in Tags
  PROVE  /\ Size[t] \in Nat /\ Size[t] > 0
         /\ IsFiniteSet(1 .. Size[t]) /\ Cardinality(1 .. Size[t]) = Size[t]
<1>1. Size[t] \in Nat /\ Size[t] > 0
  BY StorageAssumption
<1> DEFINE n == Size[t]
<1>2. n \in Int /\ 1 \in Int /\ n > 0
  BY <1>1
<1> HIDE DEF n
<1>3. IsFiniteSet(1 .. n) /\ Cardinality(1 .. n) = IF 1 > n THEN 0 ELSE n - 1 + 1
  BY ONLY <1>2, FS_Interval
<1>4. Cardinality(1 .. n) = n
  BY ONLY <1>2, <1>3
<1> QED BY <1>1, <1>3, <1>4 DEF n

\* The words of one entry.
WordsOf(i, t) == {i} \X (1 .. Size[t])

LEMMA WordsOfFacts ==
  ASSUME NEW i, NEW t \in Tags
  PROVE  IsFiniteSet(WordsOf(i, t)) /\ Cardinality(WordsOf(i, t)) = Size[t]
<1>1. IsFiniteSet({i}) /\ Cardinality({i}) = 1
  BY FS_Singleton
<1>2. /\ IsFiniteSet({i} \X (1 .. Size[t]))
      /\ Cardinality({i} \X (1 .. Size[t])) = Cardinality({i}) * Cardinality(1 .. Size[t])
  BY <1>1, SizeType, FS_Product
<1>3. 1 * Size[t] = Size[t]
  BY SizeType
<1> QED BY <1>1, <1>2, <1>3, SizeType DEF WordsOf

LEMMA EntriesFacts ==
  ASSUME NEW q \in Seq(Entry)
  PROVE  /\ Len(q) \in Nat /\ DOMAIN q = 1 .. Len(q)
         /\ \A i \in 1 .. Len(q) : /\ q[i] \in Entry /\ q[i].tag \in Tags
                                   /\ q[i].val \in Values \cup {Damaged}
<1>1. Len(q) \in Nat /\ DOMAIN q = 1 .. Len(q)
  BY LenProperties
<1>2. \A i \in 1 .. Len(q) : q[i] \in Entry
  BY ElementOfSeq
<1> QED BY <1>1, <1>2 DEF Entry

LEMMA WordsMember ==
  ASSUME NEW q \in Seq(Entry), NEW x
  PROVE  x \in Words(q) <=> \E i \in 1 .. Len(q) : x \in WordsOf(i, q[i].tag)
BY EntriesFacts DEF Words, WordsOf

LEMMA WordsFinite ==
  ASSUME NEW q \in Seq(Entry)
  PROVE  IsFiniteSet(Words(q)) /\ Occupied(q) \in Nat
<1> DEFINE all == {WordsOf(i, q[i].tag) : i \in 1 .. Len(q)}
           f == [i \in 1 .. Len(q) |-> WordsOf(i, q[i].tag)]
<1>1. Len(q) \in Nat /\ \A i \in 1 .. Len(q) : q[i].tag \in Tags
  BY EntriesFacts
<1>2. IsFiniteSet(1 .. Len(q))
  BY <1>1, FS_Interval
<1>3. f \in Surjection(1 .. Len(q), all)
  BY DEF Surjection
<1>4. IsFiniteSet(all)
  BY <1>2, <1>3, FS_Surjection
<1>5. \A T \in all : IsFiniteSet(T)
  BY <1>1, WordsOfFacts
<1>6. IsFiniteSet(UNION all)
  BY <1>4, <1>5, FS_UNION
<1>7. Words(q) = UNION all
  BY EntriesFacts DEF Words, WordsOf
<1> QED BY <1>6, <1>7, FS_CardinalityType DEF Occupied

\* One more entry takes its own words.
LEMMA OccupiedAppend ==
  ASSUME NEW q \in Seq(Entry), NEW e \in Entry
  PROVE  /\ Append(q, e) \in Seq(Entry)
         /\ Occupied(Append(q, e)) = Occupied(q) + Size[e.tag]
<1> DEFINE a == Append(q, e)
           more == WordsOf(Len(q) + 1, e.tag)
<1>1. /\ a \in Seq(Entry) /\ Len(a) = Len(q) + 1
      /\ \A i \in 1 .. Len(q) : a[i] = q[i]
      /\ a[Len(q) + 1] = e
  BY AppendProperties
<1>2. Len(q) \in Nat /\ e.tag \in Tags
  BY EntriesFacts DEF Entry
<1> HIDE DEF a
<1>3. 1 .. Len(q) + 1 = (1 .. Len(q)) \cup {Len(q) + 1}
  BY <1>2
<1>4. ASSUME NEW x
      PROVE  x \in Words(a) <=> x \in Words(q) \/ x \in more
  <2>1. x \in Words(a) <=> \E i \in 1 .. Len(q) + 1 : x \in WordsOf(i, a[i].tag)
    BY <1>1, WordsMember
  <2>2. x \in Words(q) <=> \E i \in 1 .. Len(q) : x \in WordsOf(i, q[i].tag)
    BY WordsMember
  <2>3. (\E i \in 1 .. Len(q) + 1 : x \in WordsOf(i, a[i].tag))
          <=> (\E i \in 1 .. Len(q) : x \in WordsOf(i, a[i].tag)) \/ x \in WordsOf(Len(q) + 1, a[Len(q) + 1].tag)
    BY <1>3
  <2> QED BY <1>1, <2>1, <2>2, <2>3
<1>5. Words(a) = Words(q) \cup more
  BY <1>4
<1>6. ASSUME NEW x \in Words(q), x \in more
      PROVE  FALSE
  <2>1. PICK i \in 1 .. Len(q) : x \in WordsOf(i, q[i].tag)
    BY WordsMember
  <2>2. x[1] = i /\ x[1] = Len(q) + 1
    BY <1>6, <2>1 DEF WordsOf
  <2> QED BY <1>2, <2>2
<1>7. Words(q) \cap more = {}
  BY <1>6
<1>8. IsFiniteSet(more) /\ Cardinality(more) = Size[e.tag] /\ Size[e.tag] \in Nat
  BY <1>2, WordsOfFacts, SizeType
<1>9. IsFiniteSet(Words(q)) /\ Cardinality(Words(q)) \in Nat
  BY WordsFinite DEF Occupied
<1>10. Cardinality({}) = 0
  BY FS_EmptySet
<1>11. Cardinality(Words(q) \cup more) = Cardinality(Words(q)) + Cardinality(more) - 0
  <2>1. Cardinality(Words(q) \cup more)
          = Cardinality(Words(q)) + Cardinality(more) - Cardinality(Words(q) \cap more)
    BY <1>8, <1>9, FS_Union
  <2>2. Cardinality(Words(q) \cap more) = 0
    BY <1>7, <1>10
  <2> QED BY <2>1, <2>2
<1>12. Occupied(a) = Occupied(q) + Size[e.tag]
  BY <1>5, <1>8, <1>9, <1>11 DEF Occupied
<1> QED BY <1>1, <1>12 DEF a

\* Fewer entries with the same tags take no more.
LEMMA OccupiedPrefix ==
  ASSUME NEW p \in Seq(Entry), NEW q \in Seq(Entry), Len(p) <= Len(q),
         \A i \in 1 .. Len(p) : p[i].tag = q[i].tag
  PROVE  Occupied(p) <= Occupied(q)
<1>1. Len(p) \in Nat /\ Len(q) \in Nat
  BY EntriesFacts
<1>2. \A x : x \in Words(p) => x \in Words(q)
  <2> TAKE x
  <2>1. x \in Words(p) <=> \E i \in 1 .. Len(p) : x \in WordsOf(i, p[i].tag)
    BY WordsMember
  <2>2. x \in Words(q) <=> \E i \in 1 .. Len(q) : x \in WordsOf(i, q[i].tag)
    BY WordsMember
  <2>3. \A i \in 1 .. Len(p) : i \in 1 .. Len(q)
    BY <1>1
  <2> QED BY <2>1, <2>2, <2>3
<1> QED BY <1>2, WordsFinite, FS_Subset DEF Occupied

-----------------------------------------------------------------------------
(* The entries that a new image keeps.                                      *)

Kept(tag) == {i \in DOMAIN flash.entries : flash.valid /\ flash.entries[i].tag # tag}

LEMMA KeptFacts ==
  ASSUME flash \in Region, NEW tag
  PROVE  /\ Kept(tag) \in SUBSET Nat /\ IsFiniteSet(Kept(tag)) /\ Cardinality(Kept(tag)) \in Nat
         /\ flash.entries \in Seq(Entry)
         /\ Kept(tag) \subseteq 1 .. Len(flash.entries)
<1>1. flash.entries \in Seq(Entry)
  BY DEF Region
<1>2. DOMAIN flash.entries = 1 .. Len(flash.entries) /\ Len(flash.entries) \in Nat
  BY <1>1, EntriesFacts
<1>3. Kept(tag) \in SUBSET (1 .. Len(flash.entries))
  BY <1>2 DEF Kept
<1>4. IsFiniteSet(1 .. Len(flash.entries))
  BY <1>2, FS_Interval
<1>5. IsFiniteSet(Kept(tag)) /\ Cardinality(Kept(tag)) \in Nat
  BY <1>3, <1>4, FS_Subset, FS_CardinalityType
<1> QED BY <1>1, <1>2, <1>3, <1>5

\* They are those of the region with another tag, each once and in their order.
LEMMA OthersFacts ==
  ASSUME flash \in Region, NEW tag
  PROVE  /\ Others(tag) \in Seq(Entry) /\ Len(Others(tag)) = Cardinality(Kept(tag))
         /\ \A k \in 1 .. Len(Others(tag)) :
              /\ Nth(Kept(tag), k) \in Kept(tag)
              /\ Others(tag)[k] = flash.entries[Nth(Kept(tag), k)]
         /\ \A i \in Kept(tag) : \E k \in 1 .. Len(Others(tag)) : Nth(Kept(tag), k) = i
         /\ \A k, l \in 1 .. Len(Others(tag)) : Nth(Kept(tag), k) = Nth(Kept(tag), l) => k = l
<1> DEFINE K == Kept(tag)
           n == Cardinality(K)
           o == Others(tag)
<1>1. K \in SUBSET Nat /\ IsFiniteSet(K) /\ n \in Nat /\ K \subseteq 1 .. Len(flash.entries)
  BY KeptFacts
<1>2. o = [k \in 1 .. n |-> flash.entries[Nth(K, k)]]
  BY DEF Others, Kept
<1> HIDE DEF K, n, o
<1>3. /\ \A k \in 1 .. n : Nth(K, k) \in K /\ Cardinality(UpTo(K, Nth(K, k))) = k
      /\ \A i \in K : Cardinality(UpTo(K, i)) \in 1 .. n /\ Nth(K, Cardinality(UpTo(K, i))) = i
  BY <1>1, NthFacts DEF n
<1>4. \A i \in 1 .. Len(flash.entries) : flash.entries[i] \in Entry
  BY KeptFacts, EntriesFacts
<1>5. \A k \in 1 .. n : flash.entries[Nth(K, k)] \in Entry
  BY <1>1, <1>3, <1>4
<1>6. o \in Seq(Entry) /\ Len(o) = n
  BY <1>1, <1>2, <1>5
<1>7. \A k \in 1 .. n : o[k] = flash.entries[Nth(K, k)]
  BY <1>2
<1>8. \A i \in K : \E k \in 1 .. n : Nth(K, k) = i
  BY <1>3
<1>9. \A k, l \in 1 .. n : Nth(K, k) = Nth(K, l) => k = l
  BY <1>3
<1> QED BY <1>3, <1>6, <1>7, <1>8, <1>9 DEF K, n, o

LEMMA OthersTags ==
  ASSUME flash \in Region, TagsOnce(flash.entries), NEW tag
  PROVE  /\ TagsOnce(Others(tag))
         /\ \A k \in 1 .. Len(Others(tag)) :
              /\ Others(tag)[k].tag # tag
              /\ \E i \in DOMAIN flash.entries : flash.valid /\ Others(tag)[k] = flash.entries[i]
         /\ \A i \in DOMAIN flash.entries : flash.valid /\ flash.entries[i].tag # tag =>
              \E k \in 1 .. Len(Others(tag)) : Others(tag)[k] = flash.entries[i]
<1> DEFINE o == Others(tag)
<1>1. /\ o \in Seq(Entry)
      /\ \A k \in 1 .. Len(o) : Nth(Kept(tag), k) \in Kept(tag)
                                /\ o[k] = flash.entries[Nth(Kept(tag), k)]
      /\ \A i \in Kept(tag) : \E k \in 1 .. Len(o) : Nth(Kept(tag), k) = i
      /\ \A k, l \in 1 .. Len(o) : Nth(Kept(tag), k) = Nth(Kept(tag), l) => k = l
  BY OthersFacts
<1>2. DOMAIN o = 1 .. Len(o)
  BY <1>1, EntriesFacts
<1> HIDE DEF o
<1>3. \A i \in Kept(tag) : i \in DOMAIN flash.entries /\ flash.valid /\ flash.entries[i].tag # tag
  BY DEF Kept
<1>4. TagsOnce(o)
  BY <1>1, <1>2, <1>3 DEF TagsOnce
<1>5. \A k \in 1 .. Len(o) : o[k].tag # tag /\ \E i \in DOMAIN flash.entries : flash.valid /\ o[k] = flash.entries[i]
  BY <1>1, <1>3
<1>6. ASSUME NEW i \in DOMAIN flash.entries, flash.valid, flash.entries[i].tag # tag
      PROVE  \E k \in 1 .. Len(o) : o[k] = flash.entries[i]
  <2>1. i \in Kept(tag)
    BY <1>6 DEF Kept
  <2>2. PICK k \in 1 .. Len(o) : Nth(Kept(tag), k) = i
    BY <1>1, <2>1
  <2> QED BY <1>1, <2>2
<1> QED BY <1>4, <1>5, <1>6 DEF o

\* Without the entry that is replaced there is room for it.
LEMMA OthersRoom ==
  ASSUME flash \in Region, flash.valid, NEW tag \in Tags, NEW at \in DOMAIN flash.entries,
         flash.entries[at].tag = tag
  PROVE  Occupied(Others(tag)) + Size[tag] <= Occupied(flash.entries)
<1> DEFINE o == Others(tag)
           all == Words(flash.entries)
           own == WordsOf(at, tag)
           f == [x \in Words(o) |-> <<Nth(Kept(tag), x[1]), x[2]>>]
<1>1. /\ o \in Seq(Entry) /\ flash.entries \in Seq(Entry) /\ at \in 1 .. Len(flash.entries)
      /\ \A k \in 1 .. Len(o) : Nth(Kept(tag), k) \in Kept(tag)
                                /\ o[k] = flash.entries[Nth(Kept(tag), k)]
      /\ \A k, l \in 1 .. Len(o) : Nth(Kept(tag), k) = Nth(Kept(tag), l) => k = l
  BY OthersFacts, KeptFacts, EntriesFacts
<1>2. \A k \in 1 .. Len(o) : /\ Nth(Kept(tag), k) \in 1 .. Len(flash.entries)
                             /\ Nth(Kept(tag), k) # at
  BY <1>1, KeptFacts DEF Kept
<1> HIDE DEF o
<1>3. \A x \in Words(o) : \E k \in 1 .. Len(o) :
        x[1] = k /\ x = <<x[1], x[2]>> /\ x[2] \in 1 .. Size[o[k].tag]
  BY <1>1, WordsMember DEF WordsOf
<1>4. IsFiniteSet(all) /\ IsFiniteSet(Words(o)) /\ Occupied(o) \in Nat /\ Occupied(flash.entries) \in Nat
  BY <1>1, WordsFinite
<1>5. ASSUME NEW x \in Words(o)
      PROVE  f[x] \in all \ own
  <2>1. PICK k \in 1 .. Len(o) : x[1] = k /\ x[2] \in 1 .. Size[o[k].tag]
    BY <1>3
  <2>2. f[x] = <<Nth(Kept(tag), k), x[2]>>
    BY <2>1
  <2>3. f[x] \in WordsOf(Nth(Kept(tag), k), flash.entries[Nth(Kept(tag), k)].tag)
    BY <1>1, <2>1, <2>2 DEF WordsOf
  <2>4. f[x] \in all
    BY <1>1, <1>2, <2>3, WordsMember
  <2>5. f[x] \notin own
    BY <1>2, <2>2 DEF WordsOf
  <2> QED BY <2>4, <2>5
<1>6. ASSUME NEW x \in Words(o), NEW y \in Words(o), f[x] = f[y]
      PROVE  x = y
  <2>1. x[1] \in 1 .. Len(o) /\ y[1] \in 1 .. Len(o) /\ x = <<x[1], x[2]>> /\ y = <<y[1], y[2]>>
    BY <1>3
  <2>2. f[x] = <<Nth(Kept(tag), x[1]), x[2]>> /\ f[y] = <<Nth(Kept(tag), y[1]), y[2]>>
    OBVIOUS
  <2>3. Nth(Kept(tag), x[1]) = Nth(Kept(tag), y[1]) /\ x[2] = y[2]
    BY <1>6, <2>2
  <2> QED BY <1>1, <2>1, <2>3
<1>7. f \in Injection(Words(o), all \ own)
  BY <1>5, <1>6 DEF Injection, IsInjective
<1>8. /\ IsFiniteSet(all \ own)
      /\ Cardinality(all \ own) = Cardinality(all) - Cardinality(all \cap own)
  BY <1>4, FS_Difference
<1>9. own \subseteq all
  BY <1>1, WordsMember
<1>10. Cardinality(all \cap own) = Size[tag]
  <2>1. all \cap own = own
    BY <1>9
  <2> QED BY <2>1, WordsOfFacts
<1>11. Cardinality(Words(o)) <= Cardinality(all \ own)
  BY <1>7, <1>8, FS_Injection
<1>12. Cardinality(Words(o)) \in Nat /\ Cardinality(all) \in Nat /\ Size[tag] \in Nat
  BY <1>4, SizeType DEF Occupied
<1>13. Cardinality(Words(o)) + Size[tag] <= Cardinality(all)
  BY <1>8, <1>10, <1>11, <1>12
<1> QED BY <1>13 DEF Occupied, o

-----------------------------------------------------------------------------
(* Loading.                                                                 *)

\* A tag that is in a valid region once is loaded from there.
LEMMA LoadFound ==
  ASSUME NEW r \in Region, TagsOnce(r.entries), r.valid, NEW i \in DOMAIN r.entries
  PROVE  LoadFrom(r, r.entries[i].tag)
           = IF r.entries[i].val = Damaged THEN Nothing ELSE r.entries[i].val
<1>1. r.entries \in Seq(Entry)
  BY DEF Region
<1>2. \A j \in DOMAIN r.entries : j \in Nat
  BY <1>1, EntriesFacts
<1>3. FindEntry(r.entries, r.entries[i].tag) = {i}
  BY <1>2 DEF FindEntry, TagsOnce
<1>4. (CHOOSE j \in {i} : TRUE) = i
  OBVIOUS
<1> QED BY <1>3, <1>4 DEF LoadFrom

LEMMA LoadMissing ==
  ASSUME NEW r, NEW tag, ~r.valid \/ \A i \in DOMAIN r.entries : r.entries[i].tag # tag
  PROVE  LoadFrom(r, tag) = Nothing
BY DEF LoadFrom, FindEntry

\* A load finds nothing, or a value that is there.
LEMMA LoadCases ==
  ASSUME NEW r \in Region, TagsOnce(r.entries), NEW tag
  PROVE  \/ LoadFrom(r, tag) = Nothing
         \/ \E i \in DOMAIN r.entries : /\ r.entries[i].tag = tag
                                        /\ LoadFrom(r, tag) = r.entries[i].val
                                        /\ r.entries[i].val # Damaged
<1>1. CASE ~r.valid \/ \A i \in DOMAIN r.entries : r.entries[i].tag # tag
  BY <1>1, LoadMissing
<1>2. CASE r.valid /\ \E i \in DOMAIN r.entries : r.entries[i].tag = tag
  <2>1. PICK i \in DOMAIN r.entries : r.entries[i].tag = tag
    BY <1>2
  <2>2. LoadFrom(r, tag) = IF r.entries[i].val = Damaged THEN Nothing ELSE r.entries[i].val
    BY <1>2, <2>1, LoadFound
  <2> QED BY <2>1, <2>2
<1> QED BY <1>1, <1>2

LEMMA LoadIs == \A tag : Load(tag) = LoadFrom(flash, tag)
BY DEF Load, LoadFrom

-----------------------------------------------------------------------------
(* The steps.                                                               *)

\* What a region that was cut short or damaged keeps.
LEMMA CutOK ==
  ASSUME NEW q \in Seq(Entry), TagsOnce(q), NEW p \in Seq(Entry), Len(p) <= Len(q),
         \A i \in 1 .. Len(p) : p[i].tag = q[i].tag
  PROVE  TagsOnce(p) /\ Occupied(p) <= Occupied(q)
<1>1. DOMAIN p = 1 .. Len(p) /\ DOMAIN q = 1 .. Len(q) /\ Len(p) \in Nat /\ Len(q) \in Nat
  BY EntriesFacts
<1>2. \A i \in 1 .. Len(p) : i \in 1 .. Len(q)
  BY <1>1
<1>3. TagsOnce(p)
  BY <1>1, <1>2 DEF TagsOnce
<1> QED BY <1>3, OccupiedPrefix

LEMMA NoEntries ==
  /\ <<>> \in Seq(Entry) /\ Len(<<>>) = 0 /\ Occupied(<<>>) = 0 /\ TagsOnce(<<>>)
  /\ Erased \in Region /\ Erased.entries = <<>> /\ Erased.valid = FALSE
<1>1. <<>> \in Seq(Entry) /\ Len(<<>>) = 0 /\ DOMAIN <<>> = {}
  OBVIOUS
<1>2. Words(<<>>) = {}
  BY <1>1 DEF Words
<1>3. Occupied(<<>>) = 0
  BY <1>2, FS_EmptySet DEF Occupied
<1> QED BY <1>1, <1>3 DEF TagsOnce, Erased, Region

LEMMA InitOK == Init => Inv
<1> SUFFICES ASSUME Init PROVE Inv
  OBVIOUS
<1>1. /\ flash = Erased /\ save = Idle /\ power_losses = 0
      /\ saved = [t \in Tags |-> Nothing] /\ unsure = [t \in Tags |-> {}]
  BY DEF Init
<1>2. TypeOK
  BY <1>1, NoEntries, StorageAssumption DEF TypeOK, Idle
<1>3. RegionOK
  BY <1>1, NoEntries DEF RegionOK, TagsOnce
<1>4. \A t \in Tags : Load(t) = saved[t]
  BY <1>1, NoEntries DEF Load
<1> QED BY <1>1, <1>2, <1>3, <1>4 DEF Inv, SaveType, ImageOK, ExactOK

LEMMA SaveFacts ==
  ASSUME SaveType
  PROVE  /\ Idle.stage = "idle"
         /\ save.stage = "idle" => save = Idle
         /\ save.stage \in {"erase", "program"} =>
              /\ save \in [stage : {"erase", "program"}, tag : Tags, val : Values, img : Region]
              /\ save # Idle /\ save.tag \in Tags /\ save.val \in Values /\ save.img \in Region
              /\ save.img.entries \in Seq(Entry)
BY DEF SaveType, Idle, Region

LEMMA SaveBeginOK ==
  ASSUME Inv, NEW tag \in Tags, NEW val \in Values, SaveBegin(tag, val)
  PROVE  Inv'
<1> DEFINE new == [tag |-> tag, val |-> val]
           o == Others(tag)
           img == Image(tag, val)
<1>1. /\ save = Idle /\ Fits(tag) /\ save' = [stage |-> "erase", tag |-> tag, val |-> val, img |-> img]
      /\ UNCHANGED <<flash, saved, unsure, power_losses>>
  BY SaveFacts DEF SaveBegin, Inv
<1>2. /\ flash \in Region /\ flash.entries \in Seq(Entry) /\ TagsOnce(flash.entries)
      /\ \A i \in DOMAIN flash.entries : flash.entries[i].val \in MayHave(flash.entries[i].tag)
  BY DEF Inv, TypeOK, RegionOK, Region
<1>3. new \in Entry /\ new.tag = tag /\ new.val = val
  BY DEF Entry
<1>4. /\ o \in Seq(Entry) /\ TagsOnce(o)
      /\ \A k \in 1 .. Len(o) : /\ o[k].tag # tag
                                /\ \E i \in DOMAIN flash.entries : flash.valid /\ o[k] = flash.entries[i]
      /\ \A i \in DOMAIN flash.entries : flash.valid /\ flash.entries[i].tag # tag =>
           \E k \in 1 .. Len(o) : o[k] = flash.entries[i]
  BY <1>2, OthersFacts, OthersTags
<1>5. img.valid = TRUE /\ img.entries = Append(o, new) /\ img = [valid |-> TRUE, entries |-> Append(o, new)]
  BY DEF Image
<1>6. Occupied(o) + Size[tag] <= RegionSize
  BY <1>1 DEF Fits
<1> HIDE DEF new, o, img
<1> DEFINE q == img.entries
<1>7. /\ q \in Seq(Entry) /\ Len(q) = Len(o) + 1 /\ Len(o) \in Nat /\ DOMAIN q = 1 .. Len(q)
      /\ DOMAIN o = 1 .. Len(o)
      /\ \A k \in 1 .. Len(o) : q[k] = o[k]
      /\ q[Len(o) + 1] = new
      /\ Occupied(q) <= RegionSize
  <2>1. /\ Append(o, new) \in Seq(Entry) /\ Len(Append(o, new)) = Len(o) + 1
        /\ \A k \in 1 .. Len(o) : Append(o, new)[k] = o[k]
        /\ Append(o, new)[Len(o) + 1] = new
    BY <1>3, <1>4, AppendProperties
  <2>2. Occupied(Append(o, new)) = Occupied(o) + Size[tag]
    BY <1>3, <1>4, OccupiedAppend
  <2> QED BY <1>4, <1>5, <1>6, <2>1, <2>2, EntriesFacts
<1>8. img \in Region
  BY <1>5, <1>7 DEF Region
<1> HIDE DEF q
<1>9. \A k \in 1 .. Len(q) : k \in 1 .. Len(o) \/ k = Len(o) + 1
  BY <1>7
<1>10. TagsOnce(q)
  BY <1>3, <1>4, <1>7, <1>9 DEF TagsOnce
<1>11. ASSUME NEW k \in 1 .. Len(q)
       PROVE  q[k].val \in IF q[k].tag = tag THEN {val} ELSE MayHave(q[k].tag)
  <2>1. CASE k \in 1 .. Len(o)
    BY <1>2, <1>4, <1>7, <2>1
  <2>2. CASE k = Len(o) + 1
    BY <1>3, <1>7, <2>2
  <2> QED BY <1>9, <2>1, <2>2
<1>12. \A t : MayHave(t)' = MayHave(t)
  BY <1>1 DEF MayHave
<1>13. /\ save'.tag = tag /\ save'.val = val /\ save'.img = img /\ save'.stage = "erase"
       /\ save' \in [stage : {"erase", "program"}, tag : Tags, val : Values, img : Region]
  BY <1>1, <1>8
<1>14. Len(o) + 1 \in 1 .. Len(q) /\ q[Len(o) + 1].tag = tag
  BY <1>3, <1>7
<1>15. ImageOK'
  BY <1>5, <1>7, <1>10, <1>11, <1>12, <1>13, <1>14 DEF ImageOK, q
<1>16. ASSUME NEW t \in Tags \ {tag}
       PROVE  LoadFrom(img, t) = LoadFrom(flash, t)
  <2>1. CASE flash.valid /\ \E i \in DOMAIN flash.entries : flash.entries[i].tag = t
    <3>1. PICK i \in DOMAIN flash.entries : flash.entries[i].tag = t
      BY <2>1
    <3>2. PICK k \in 1 .. Len(o) : o[k] = flash.entries[i]
      BY <1>4, <2>1, <3>1
    <3>3. k \in DOMAIN q /\ q[k] = flash.entries[i]
      BY <1>7, <3>2
    <3>4. /\ k \in DOMAIN img.entries /\ img.entries[k] = flash.entries[i]
          /\ TagsOnce(img.entries)
      BY <1>10, <3>3 DEF q
    <3>5. img \in Region /\ img.valid
      BY <1>5, <1>8
    <3> HIDE DEF img, q, o
    <3>6. LoadFrom(img, t) = IF flash.entries[i].val = Damaged THEN Nothing ELSE flash.entries[i].val
      BY <3>1, <3>4, <3>5, LoadFound
    <3>7. LoadFrom(flash, t) = IF flash.entries[i].val = Damaged THEN Nothing ELSE flash.entries[i].val
      BY <1>2, <2>1, <3>1, LoadFound
    <3> QED BY <3>6, <3>7
  <2>2. CASE ~flash.valid \/ \A i \in DOMAIN flash.entries : flash.entries[i].tag # t
    <3>1. \A k \in DOMAIN q : q[k].tag # t
      BY <1>3, <1>4, <1>7, <1>9, <2>2
    <3>2. LoadFrom(img, t) = Nothing
      BY <3>1, LoadMissing DEF q
    <3> QED BY <2>2, <3>2, LoadMissing
  <2> QED BY <2>1, <2>2
<1>17. power_losses = 0 => \A t \in Tags : Load(t) = saved[t]
  BY <1>1 DEF Inv, ExactOK
<1>18. \A t \in Tags : Load(t)' = Load(t)
  BY <1>1 DEF Load
<1>19. ExactOK'
  <2>1. power_losses = 0 => \A t \in Tags \ {tag} : LoadFrom(img, t) = saved[t]
    BY <1>16, <1>17, LoadIs
  <2> QED BY <1>1, <1>13, <1>17, <1>18, <2>1 DEF ExactOK
<1>20. TypeOK' /\ SaveType' /\ RegionOK' /\ power_losses' \in Nat
  BY <1>1, <1>12, <1>13 DEF Inv, TypeOK, SaveType, RegionOK
<1> QED BY <1>15, <1>19, <1>20 DEF Inv

LEMMA EraseOK ==
  ASSUME Inv, Erase
  PROVE  Inv'
<1>1. /\ save.stage = "erase" /\ flash' = Erased /\ save' = [save EXCEPT !.stage = "program"]
      /\ UNCHANGED <<saved, unsure, power_losses>>
  BY DEF Erase
<1>2. /\ save \in [stage : {"erase", "program"}, tag : Tags, val : Values, img : Region]
      /\ save # Idle
  BY <1>1, SaveFacts DEF Inv
<1>3. /\ save' \in [stage : {"erase", "program"}, tag : Tags, val : Values, img : Region]
      /\ save'.stage = "program" /\ save'.tag = save.tag /\ save'.val = save.val
      /\ save'.img = save.img
  BY <1>1, <1>2
<1>4. save' # Idle
  BY <1>3 DEF Idle
<1>5. \A t : MayHave(t)' = MayHave(t)
  BY <1>1 DEF MayHave
<1>6. ImageOK'
  BY <1>2, <1>3, <1>5 DEF Inv, ImageOK
<1>7. TypeOK'
  BY <1>1, <1>3, NoEntries, StorageAssumption DEF Inv, TypeOK
<1>8. RegionOK'
  BY <1>1, NoEntries DEF RegionOK, TagsOnce
<1>9. ExactOK'
  BY <1>1, <1>2, <1>3, <1>4 DEF Inv, ExactOK
<1> QED BY <1>1, <1>3, <1>6, <1>7, <1>8, <1>9 DEF Inv, SaveType

LEMMA ProgramOK ==
  ASSUME Inv, Program
  PROVE  Inv'
<1>1. /\ save.stage = "program" /\ flash' = save.img /\ save' = Idle
      /\ saved' = [saved EXCEPT ![save.tag] = save.val]
      /\ unsure' = [unsure EXCEPT ![save.tag] = {}]
      /\ power_losses' = power_losses
  BY DEF Program
<1>2. /\ save # Idle /\ save.tag \in Tags /\ save.val \in Values /\ save.img \in Region
      /\ save.img.entries \in Seq(Entry) /\ Idle.stage = "idle"
      /\ saved \in [Tags -> Values \cup {Nothing}] /\ unsure \in [Tags -> SUBSET Values]
  BY <1>1, SaveFacts DEF Inv, TypeOK
<1>3. /\ save.img.valid /\ TagsOnce(save.img.entries) /\ Occupied(save.img.entries) <= RegionSize
      /\ \A i \in DOMAIN save.img.entries :
           LET e == save.img.entries[i]
           IN  e.val \in IF e.tag = save.tag THEN {save.val} ELSE MayHave(e.tag)
      /\ \E i \in DOMAIN save.img.entries : save.img.entries[i].tag = save.tag
  BY <1>2 DEF Inv, ImageOK
<1>4. /\ saved' \in [Tags -> Values \cup {Nothing}] /\ unsure' \in [Tags -> SUBSET Values]
      /\ saved'[save.tag] = save.val
      /\ \A t \in Tags \ {save.tag} : saved'[t] = saved[t] /\ unsure'[t] = unsure[t]
  BY <1>1, <1>2
<1>5. TypeOK'
  BY <1>1, <1>2, <1>3, <1>4 DEF TypeOK
<1>6. RegionOK'
  <2>1. ASSUME NEW i \in DOMAIN save.img.entries, NEW t \in Tags, t = save.img.entries[i].tag
        PROVE  save.img.entries[i].val \in MayHave(t)'
    <3>1. CASE t = save.tag
      <4>1. save.img.entries[i].val = save.val
        BY <1>3, <2>1, <3>1
      <4> QED BY <1>4, <3>1, <4>1 DEF MayHave
    <3>2. CASE t # save.tag
      <4>1. save.img.entries[i].val \in MayHave(t)
        BY <1>3, <2>1, <3>2
      <4> QED BY <1>4, <3>2, <4>1 DEF MayHave
    <3> QED BY <3>1, <3>2
  <2>2. \A i \in DOMAIN save.img.entries : save.img.entries[i].tag \in Tags
    BY <1>2, EntriesFacts
  <2>3. \A i \in DOMAIN save.img.entries :
          save.img.entries[i].val \in {saved'[save.img.entries[i].tag], Damaged}
                                        \cup unsure'[save.img.entries[i].tag]
    BY <2>1, <2>2 DEF MayHave
  <2> QED BY <1>1, <1>3, <2>3 DEF RegionOK, MayHave
<1>7. ASSUME power_losses = 0, NEW t \in Tags
      PROVE  LoadFrom(save.img, t) = saved'[t]
  <2>1. CASE t = save.tag
    <3>1. PICK i \in DOMAIN save.img.entries : save.img.entries[i].tag = save.tag
      BY <1>3
    <3>2. save.img.entries[i].val = save.val /\ save.val # Damaged
      BY <1>2, <1>3, <3>1, StorageAssumption
    <3>3. LoadFrom(save.img, t) = save.val
      BY <1>2, <1>3, <2>1, <3>1, <3>2, LoadFound
    <3> QED BY <1>4, <2>1, <3>3
  <2>2. CASE t # save.tag
    BY <1>2, <1>4, <1>7, <2>2 DEF Inv, ExactOK
  <2> QED BY <2>1, <2>2
<1>8. ExactOK'
  <2>1. \A t \in Tags : Load(t)' = LoadFrom(flash', t)
    BY DEF Load, LoadFrom
  <2> QED BY <1>1, <1>7, <2>1 DEF ExactOK
<1> QED BY <1>1, <1>5, <1>6, <1>8 DEF Inv, SaveType, ImageOK

LEMMA PowerLossOK ==
  ASSUME Inv, PowerLoss
  PROVE  Inv'
<1>1. /\ save.stage \in {"erase", "program"} /\ save' = Idle
      /\ unsure' = [unsure EXCEPT ![save.tag] = @ \cup {save.val}]
      /\ power_losses' = power_losses + 1 /\ saved' = saved
      /\ flash' \in IF save.stage = "erase" THEN {flash} \cup HalfErased(flash)
                    ELSE Programmed(save.img)
  BY DEF PowerLoss
<1>2. /\ save # Idle /\ save.tag \in Tags /\ save.val \in Values /\ save.img \in Region
      /\ save.img.entries \in Seq(Entry) /\ Idle.stage = "idle"
      /\ saved \in [Tags -> Values \cup {Nothing}] /\ unsure \in [Tags -> SUBSET Values]
      /\ flash \in Region /\ flash.entries \in Seq(Entry) /\ power_losses \in Nat
      /\ Occupied(flash.entries) <= RegionSize
  BY <1>1, SaveFacts DEF Inv, TypeOK, Region
<1>3. /\ save.img.valid /\ TagsOnce(save.img.entries) /\ Occupied(save.img.entries) <= RegionSize
      /\ \A i \in DOMAIN save.img.entries :
           LET e == save.img.entries[i]
           IN  e.val \in IF e.tag = save.tag THEN {save.val} ELSE MayHave(e.tag)
  BY <1>2 DEF Inv, ImageOK
<1> DEFINE Now(t) == {saved'[t], Damaged} \cup unsure'[t]
           Good(r) == /\ r \in Region /\ Occupied(r.entries) <= RegionSize
                      /\ TagsOnce(r.entries)
                      /\ \A i \in DOMAIN r.entries : r.entries[i].val \in Now(r.entries[i].tag)
<1>4. /\ unsure' \in [Tags -> SUBSET Values] /\ save.val \in Now(save.tag)
      /\ \A t \in Tags : MayHave(t) \subseteq Now(t)
  BY <1>1, <1>2 DEF MayHave
<1> HIDE DEF Now
<1>5. \A t : Damaged \in Now(t)
  BY DEF Now
\* A region cut short, with some of its entries damaged, is as good as it was.
<1>6. ASSUME NEW q \in Seq(Entry), TagsOnce(q), Occupied(q) <= RegionSize,
             \A i \in DOMAIN q : q[i].val \in Now(q[i].tag),
             NEW p \in Seq(Entry), Len(p) <= Len(q), NEW v \in BOOLEAN,
             \A i \in 1 .. Len(p) : p[i].tag = q[i].tag /\ p[i].val \in {q[i].val, Damaged}
      PROVE  Good([valid |-> v, entries |-> p])
  <2>1. TagsOnce(p) /\ Occupied(p) <= Occupied(q)
    BY <1>6, CutOK
  <2>2. Occupied(p) \in Nat /\ Occupied(q) \in Nat /\ RegionSize \in Nat
    BY WordsFinite, StorageAssumption
  <2>3. DOMAIN p = 1 .. Len(p) /\ DOMAIN q = 1 .. Len(q) /\ Len(p) \in Nat /\ Len(q) \in Nat
    BY EntriesFacts
  <2>4. \A i \in 1 .. Len(p) : i \in DOMAIN q
    BY <1>6, <2>3
  <2>5. \A i \in DOMAIN p : p[i].val \in Now(p[i].tag)
    BY <1>5, <1>6, <2>3, <2>4
  <2>6. [valid |-> v, entries |-> p] \in Region
    BY DEF Region
  <2> QED BY <1>6, <2>1, <2>2, <2>5, <2>6
<1>7. Good(Erased)
  BY NoEntries, StorageAssumption DEF TagsOnce
<1>8. \A i \in DOMAIN flash.entries : flash.entries[i].val \in Now(flash.entries[i].tag)
  <2>1. \A i \in DOMAIN flash.entries : flash.entries[i].tag \in Tags
    BY <1>2, EntriesFacts
  <2> QED BY <1>4, <2>1 DEF Inv, RegionOK
<1>9. \A i \in DOMAIN save.img.entries : save.img.entries[i].val \in Now(save.img.entries[i].tag)
  <2>1. \A i \in DOMAIN save.img.entries : save.img.entries[i].tag \in Tags
    BY <1>2, EntriesFacts
  <2> QED BY <1>3, <1>4, <2>1
<1>10. Good(flash)
  BY <1>2, <1>8 DEF Inv, RegionOK
<1>11. ASSUME flash' \in HalfErased(flash)
       PROVE  Good(flash')
  <2>1. CASE flash' = Erased
    BY <1>7, <2>1
  <2>2. CASE flash' # Erased
    <3>1. PICK n \in 0 .. Len(flash.entries), damaged \in SUBSET DOMAIN flash.entries :
            flash' = [valid |-> TRUE,
                      entries |-> [i \in 1 .. n |->
                        [flash.entries[i] EXCEPT !.val = IF i \in damaged THEN Damaged ELSE @]]]
      <4> DEFINE left(n, damaged) ==
                   [valid |-> TRUE,
                    entries |-> [i \in 1 .. n |->
                      [flash.entries[i] EXCEPT !.val = IF i \in damaged THEN Damaged ELSE @]]]
      <4>1. HalfErased(flash) = {Erased} \cup
              {left(n, damaged) : n \in 0 .. Len(flash.entries), damaged \in SUBSET DOMAIN flash.entries}
        BY DEF HalfErased
      <4> HIDE DEF left
      <4>2. \E n \in 0 .. Len(flash.entries), damaged \in SUBSET DOMAIN flash.entries :
              flash' = left(n, damaged)
        BY <1>11, <2>2, <4>1
      <4> QED BY <4>2 DEF left
    <3> DEFINE p == [i \in 1 .. n |->
                       [flash.entries[i] EXCEPT !.val = IF i \in damaged THEN Damaged ELSE @]]
    <3>2. n \in Nat /\ n <= Len(flash.entries) /\ \A i \in 1 .. n : flash.entries[i] \in Entry
      BY <1>2, EntriesFacts
    <3>3. ASSUME NEW i \in 1 .. n
          PROVE  /\ p[i] \in Entry /\ p[i].tag = flash.entries[i].tag
                 /\ p[i].val \in {flash.entries[i].val, Damaged}
      BY <3>2 DEF Entry
    <3>4. p \in Seq(Entry) /\ Len(p) = n
      BY <3>2, <3>3
    <3>5. flash' = [valid |-> TRUE, entries |-> p]
      BY <3>1
    <3> HIDE DEF p
    <3>6. TagsOnce(flash.entries)
      BY DEF Inv, RegionOK
    <3>7. Len(p) <= Len(flash.entries)
          /\ \A i \in 1 .. Len(p) : /\ p[i].tag = flash.entries[i].tag
                                    /\ p[i].val \in {flash.entries[i].val, Damaged}
      BY <3>2, <3>3, <3>4
    <3>8. Good([valid |-> TRUE, entries |-> p])
      BY <1>2, <1>6, <1>8, <3>4, <3>6, <3>7
    <3> QED BY <3>5, <3>8
  <2> QED BY <2>1, <2>2
<1>12. ASSUME flash' \in Programmed(save.img)
       PROVE  Good(flash')
  <2> DEFINE q == save.img.entries
  <2>1. q \in Seq(Entry) /\ Len(q) \in Nat /\ DOMAIN q = 1 .. Len(q)
        /\ \A i \in 1 .. Len(q) : q[i] \in Entry
    BY <1>2, EntriesFacts
  <2>2. ASSUME NEW n \in 0 .. Len(q)
        PROVE  /\ SubSeq(q, 1, n) \in Seq(Entry) /\ Len(SubSeq(q, 1, n)) = n
               /\ \A i \in 1 .. n : SubSeq(q, 1, n)[i] = q[i]
    <3>1. /\ SubSeq(q, 1, n) \in Seq(Entry)
          /\ Len(SubSeq(q, 1, n)) = (IF 1 <= n THEN n - 1 + 1 ELSE 0)
          /\ \A i \in 1 .. n - 1 + 1 : SubSeq(q, 1, n)[i] = q[1 + i - 1]
      BY <2>1, SubSeqProperties
    <3> QED BY <3>1
  <2>3. TagsOnce(q) /\ Occupied(q) <= RegionSize /\ \A i \in DOMAIN q : q[i].val \in Now(q[i].tag)
    BY <1>3, <1>9
  <2>4. CASE flash' = Erased
    BY <1>7, <2>4
  <2>5. CASE \E n \in 0 .. Len(q) : flash' = [valid |-> TRUE, entries |-> SubSeq(q, 1, n)]
    <3> HIDE DEF q
    <3>1. PICK n \in 0 .. Len(q) : flash' = [valid |-> TRUE, entries |-> SubSeq(q, 1, n)]
      BY <2>5
    <3> DEFINE p == SubSeq(q, 1, n)
    <3>2. p \in Seq(Entry) /\ Len(p) = n /\ \A i \in 1 .. n : p[i] = q[i]
      BY <2>2
    <3>3. flash' = [valid |-> TRUE, entries |-> p]
      BY <3>1
    <3> HIDE DEF p
    <3>4. n <= Len(q) /\ \A i \in 1 .. Len(p) : p[i].tag = q[i].tag /\ p[i].val \in {q[i].val, Damaged}
      BY <2>1, <3>2
    <3> QED BY <1>6, <2>1, <2>3, <3>2, <3>3, <3>4
  <2>6. CASE \E n \in 1 .. Len(q) :
               flash' = [valid |-> TRUE,
                         entries |-> [SubSeq(q, 1, n) EXCEPT ![n].val = Damaged]]
    <3> HIDE DEF q
    <3>1. PICK n \in 1 .. Len(q) :
            flash' = [valid |-> TRUE, entries |-> [SubSeq(q, 1, n) EXCEPT ![n].val = Damaged]]
      BY <2>6
    <3> DEFINE c == SubSeq(q, 1, n)
               p == [c EXCEPT ![n].val = Damaged]
    <3>2. c \in Seq(Entry) /\ Len(c) = n /\ \A i \in 1 .. n : c[i] = q[i]
      BY <2>1, <2>2
    <3>3. flash' = [valid |-> TRUE, entries |-> p]
      BY <3>1
    <3> HIDE DEF c
    <3>4. n \in Nat /\ n \in 1 .. n /\ DOMAIN c = 1 .. n /\ n <= Len(q)
          /\ \A i \in 1 .. n : c[i] \in Entry
      BY <2>1, <3>2, EntriesFacts
    <3>5. p = [i \in 1 .. n |-> IF i = n THEN [c[n] EXCEPT !.val = Damaged] ELSE c[i]]
      BY <3>4
    <3> HIDE DEF p
    <3>6. ASSUME NEW i \in 1 .. n
          PROVE  p[i] \in Entry /\ p[i].tag = q[i].tag /\ p[i].val \in {q[i].val, Damaged}
      <4>1. CASE i = n
        BY <3>2, <3>4, <3>5, <4>1 DEF Entry
      <4>2. CASE i # n
        BY <3>2, <3>4, <3>5, <4>2
      <4> QED BY <4>1, <4>2
    <3>7. p \in Seq(Entry) /\ Len(p) = n
      <4>1. p \in [1 .. n -> Entry]
        BY <3>5, <3>6
      <4> QED BY <3>4, <4>1
    <3>8. Len(p) <= Len(q)
          /\ \A i \in 1 .. Len(p) : p[i].tag = q[i].tag /\ p[i].val \in {q[i].val, Damaged}
      BY <3>4, <3>6, <3>7
    <3>9. Good([valid |-> TRUE, entries |-> p])
      BY <1>6, <2>1, <2>3, <3>7, <3>8
    <3> QED BY <3>3, <3>9
  <2> QED BY <1>12, <2>4, <2>5, <2>6 DEF Programmed
<1>13. Good(flash')
  BY <1>1, <1>10, <1>11, <1>12
<1>14. TypeOK'
  BY <1>1, <1>2, <1>4, <1>13 DEF TypeOK
<1>15. RegionOK'
  BY <1>13 DEF RegionOK, MayHave, Now
<1>16. power_losses' \in Nat /\ power_losses' # 0
  BY <1>1, <1>2
<1> QED BY <1>1, <1>14, <1>15, <1>16 DEF Inv, SaveType, ImageOK, ExactOK

LEMMA StepOK == Inv /\ [Next]_vars => Inv'
<1> SUFFICES ASSUME Inv, [Next]_vars PROVE Inv'
  OBVIOUS
<1>1. CASE \E tag \in Tags, val \in Values : SaveBegin(tag, val)
  BY <1>1, SaveBeginOK
<1>2. CASE Erase \/ Program \/ PowerLoss
  BY <1>2, EraseOK, ProgramOK, PowerLossOK
<1>3. CASE UNCHANGED vars
  <2>1. UNCHANGED <<flash, save, saved, unsure, power_losses>>
    BY <1>3 DEF vars
  <2>2. TypeOK' /\ SaveType' /\ power_losses' \in Nat
    BY <2>1 DEF Inv, TypeOK, SaveType
  <2>3. RegionOK' /\ ImageOK'
    BY <2>1 DEF Inv, RegionOK, ImageOK, MayHave
  <2>4. ExactOK'
    BY <2>1 DEF Inv, ExactOK, Load
  <2> QED BY <2>2, <2>3, <2>4 DEF Inv
<1> QED BY <1>1, <1>2, <1>3 DEF Next

\* Inv holds in every state Storage reaches.
LEMMA Inductive == Spec => []Inv
BY InitOK, StepOK, PTL DEF Spec

\* The entries lie inside the region, after every save and every power loss.
THEOREM EntriesInRegion == Spec => []TypeOK
<1>1. Inv => TypeOK
  BY DEF Inv
<1> QED BY <1>1, Inductive, PTL

\* storage_load never returns a damaged value or one that was replaced, and
\* while the power stays on a save changes its own tag only.
THEOREM LoadsAreSaved == Spec => []LoadIsSaved
<1>1. Inv => LoadIsSaved
  <2> SUFFICES ASSUME Inv, NEW t \in Tags
               PROVE  /\ Load(t) \in {saved[t], Nothing} \cup unsure[t]
                      /\ save.stage = "idle" /\ power_losses = 0 => Load(t) = saved[t]
    BY DEF LoadIsSaved
  <2>1. flash \in Region /\ TagsOnce(flash.entries)
    BY DEF Inv, TypeOK, RegionOK
  <2>2. Load(t) = LoadFrom(flash, t)
    BY LoadIs
  <2>3. Load(t) \in {saved[t], Nothing} \cup unsure[t]
    <3>1. \/ Load(t) = Nothing
          \/ \E i \in DOMAIN flash.entries : /\ flash.entries[i].tag = t
                                             /\ Load(t) = flash.entries[i].val
                                             /\ flash.entries[i].val # Damaged
      BY <2>1, <2>2, LoadCases
    <3> QED BY <3>1 DEF Inv, RegionOK, MayHave
  <2>4. save.stage = "idle" /\ power_losses = 0 => Load(t) = saved[t]
    BY SaveFacts DEF Inv, ExactOK
  <2> QED BY <2>3, <2>4
<1> QED BY <1>1, Inductive, PTL

\* There is always room to save a tag again that the region has.
THEOREM ReplacingFits == Spec => []CanBeReplaced
<1>1. Inv => CanBeReplaced
  <2> SUFFICES ASSUME Inv, NEW t \in Tags, flash.valid, FindEntry(flash.entries, t) # {}
               PROVE  Fits(t)
    BY DEF CanBeReplaced
  <2>1. PICK i \in DOMAIN flash.entries : flash.entries[i].tag = t
    BY DEF FindEntry
  <2>2. flash \in Region /\ Occupied(flash.entries) <= RegionSize
    BY DEF Inv, TypeOK
  <2>3. Occupied(Others(t)) + Size[t] <= Occupied(flash.entries)
    BY <2>1, <2>2, OthersRoom
  <2>4. /\ Occupied(Others(t)) \in Nat /\ Occupied(flash.entries) \in Nat
        /\ Size[t] \in Nat /\ RegionSize \in Nat
    BY <2>2, OthersFacts, KeptFacts, WordsFinite, SizeType, StorageAssumption
  <2> QED BY <2>2, <2>3, <2>4 DEF Fits
<1> QED BY <1>1, Inductive, PTL
=============================================================================
