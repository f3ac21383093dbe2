-------------------------- MODULE DictionaryProofs --------------------------
(***************************************************************************)
(* That the LSM tree acts as a dictionary, for every size of the tree: the *)
(* newest entry of each key survives every merge, and LSM implements       *)
(* KVStore.                                                                *)
(*                                                                         *)
(* This needs what the findings say the code needs: no key has two entries *)
(* in one array to merge (OneEntryPerKey), and INT_MIN and the value 0 are *)
(* not used.                                                               *)
(***************************************************************************)
EXTENDS LSMProofs

\* Either a merge takes one run of the buffer, or no key is written again before it
\* has left the buffer.
OneEntryPerKey == NumToMerge = 1 \/ ~RewriteBuffered

----------------------------------------------------------------------------
(* The inductive invariant *)

\* The newest entry for k in some buffer runs is v; Absent if there is none.
BufferSays(runs, k, v) ==
  \/ v = Absent /\ \A i \in DOMAIN runs : runs[i].elts[k] = Absent
  \/ v # Absent /\ \E i \in DOMAIN runs :
       runs[i].elts[k] = v /\ \A j \in DOMAIN runs : j > i => runs[j].elts[k] = Absent

\* The first run with k, from the newest of the first level on, is run r of level l.
FirstOnDisk(lvls, k, l, r) ==
  /\ lvls[l][r][k] # << >>
  /\ \A s \in DOMAIN lvls[l] : s > r => lvls[l][s][k] = << >>
  /\ \A m \in 1..l - 1 : \A s \in DOMAIN lvls[m] : lvls[m][s][k] = << >>

\* The newest entry for k on disk is v; Absent if there is none.
DiskSays(lvls, k, v) ==
  \/ v = Absent /\ \A l \in DOMAIN lvls : \A r \in DOMAIN lvls[l] : lvls[l][r][k] = << >>
  \/ v # Absent /\ \E l \in DOMAIN lvls : \E r \in DOMAIN lvls[l] :
       FirstOnDisk(lvls, k, l, r) /\ lvls[l][r][k] = << v >>

\* What is behind the buffer: with the merge thread, or on disk.
BehindSays(k, v) ==
  \/ mtPC = "collect" /\ v # Absent /\ BufferSays(runsToMerge, k, v)
  \/ /\ mtPC = "collect" => BufferSays(runsToMerge, k, Absent)
     /\ \/ v # Absent /\ toMerge[k] = << v >>
        \/ toMerge[k] = << >> /\ DiskSays(levels, k, v)

\* The newest entry for k is v.
Newest(k, v) ==
  \/ v # Absent /\ BufferSays(C_0, k, v)
  \/ BufferSays(C_0, k, Absent) /\ BehindSays(k, v)

NewestInv ==
  pc # "destroyed" =>
    \A k \in Keys : \E v \in Stored \union {Absent} : Visible(v) = latest[k] /\ Newest(k, v)

\* An array has one entry for each key.
SingleInv ==
  /\ \A k \in Keys : Len(toMerge[k]) <= 1
  /\ \A l \in DOMAIN levels : \A r \in DOMAIN levels[l] : \A k \in Keys : Len(levels[l][r][k]) <= 1

Once(runs) ==
  \A i, j \in DOMAIN runs : \A k \in Keys :
    runs[i].elts[k] # Absent /\ runs[j].elts[k] # Absent => i = j

\* A key is in one of the runs that are merged together.
OnceInv ==
  /\ RewriteBuffered \/ Once(C_0)
  /\ mtPC = "collect" => Once(runsToMerge)

\* The key that a call of insert_key waits to write is not in the buffer either.
PendingInv ==
  pc = "insert_join" => RewriteBuffered \/ \A i \in DOMAIN C_0 : C_0[i].elts[arg.key] = Absent

\* to_merge has the entries of the runs that were copied.
CollectedInv ==
  mtPC = "collect" =>
    \A k \in Keys :
      /\ \A i \in 1..collected :
           runsToMerge[i].elts[k] # Absent => toMerge[k] = << runsToMerge[i].elts[k] >>
      /\ (\A i \in 1..collected : runsToMerge[i].elts[k] = Absent) => toMerge[k] = << >>

\* Without a merge to_merge is empty.
IdleInv == mtPC \in {"idle", "done"} => \A k \in Keys : toMerge[k] = << >>

\* The run that was added last.
LastRun(l) == levels[l][Len(levels[l])]

\* Before the merged runs are freed, their newest entries are in the run made of them,
\* but for a tombstone that was taken out at the bottom of the tree.
MergedInv ==
  mtPC = "free" =>
    /\ levels[depth + 1] # << >>
    /\ \A k \in Keys, r \in 1..MergeSize :
         levels[depth][r][k] # << >> /\ (\A s \in r + 1..MergeSize : levels[depth][s][k] = << >>) =>
           \/ LastRun(depth + 1)[k] = levels[depth][r][k]
           \/ /\ levels[depth][r][k] = << Tombstone >> /\ LastRun(depth + 1)[k] = << >>
              /\ depth + 1 = Len(levels) /\ Len(levels[depth + 1]) = 1

\* Before to_merge goes, its entries are in the last run of level 1.
AddedInv == mtPC = "unlock" => levels # << >> /\ levels[1] # << >> /\ LastRun(1) = toMerge

\* The smallest and the largest key of a buffer run, and its Bloom filter, leave no key
\* out.
Bounded(run, bits) ==
  /\ run.min <= run.max
  /\ \A k \in Keys :
       run.elts[k] # Absent => run.min <= k /\ k <= run.max /\ FilterBits[k] \subseteq bits

BoundsInv == \A i \in DOMAIN C_0 : Bounded(C_0[i], filters[i])

\* What a call that waits has found so far is still true.
WaitInv ==
  /\ pc # "ready" => ret = NoRet
  /\ pc = "lookup_join" => BufferSays(C_0, arg.key, Absent)
  /\ pc = "range_join" =>
       /\ arg.from < arg.to
       /\ arg.found = [k \in Keys |-> BufferEntries(k, arg.from, arg.to)]

DictInv ==
  /\ NewestInv /\ SingleInv /\ OnceInv /\ PendingInv /\ CollectedInv /\ IdleInv /\ MergedInv
  /\ AddedInv

----------------------------------------------------------------------------
(* The operators that search *)

\* What the first of some runs with k has.
FirstSays(runs, k, v) ==
  \/ v = Absent /\ \A y \in DOMAIN runs : runs[y][k] = << >>
  \/ v # Absent /\ \E y \in DOMAIN runs : runs[y][k] = << v >> /\ \A w \in 1..y - 1 : runs[w][k] = << >>

\* Reversing a sequence.
LEMMA ReverseIs ==
  ASSUME NEW S, NEW s \in Seq(S)
  PROVE  /\ Reverse(s) \in Seq(S) /\ Len(Reverse(s)) = Len(s)
         /\ \A i \in 1..Len(s) : Reverse(s)[i] = s[Len(s) - i + 1]
<1>1. Len(s) \in Nat /\ \A i \in 1..Len(s) : s[i] \in S /\ Len(s) - i + 1 \in 1..Len(s)
  BY LenProperties
<1>2. \A i \in 1..Len(s) : s[(Len(s) - i) + 1] \in S
  BY <1>1
<1>3. Reverse(s) = [i \in 1..Len(s) |-> s[(Len(s) - i) + 1]]
  BY DEF Reverse
<1> QED
  BY <1>1, <1>2, <1>3

\* The levels, each with its newest run first.
LEMMA ReversedLevels ==
  ASSUME NEW lvls \in Seq(Seq(DiskRuns))
  PROVE  LET seqs == [l \in DOMAIN lvls |-> Reverse(lvls[l])]
         IN  /\ seqs \in Seq(Seq(DiskRuns)) /\ Len(seqs) = Len(lvls)
             /\ \A l \in 1..Len(lvls) :
                  /\ seqs[l] \in Seq(DiskRuns) /\ Len(seqs[l]) = Len(lvls[l]) /\ lvls[l] \in Seq(DiskRuns)
                  /\ \A i \in 1..Len(lvls[l]) : seqs[l][i] = lvls[l][Len(lvls[l]) - i + 1]
<1> DEFINE seqs == [l \in DOMAIN lvls |-> Reverse(lvls[l])]
<1>1. DOMAIN lvls = 1..Len(lvls) /\ Len(lvls) \in Nat /\ \A l \in 1..Len(lvls) : lvls[l] \in Seq(DiskRuns)
  BY LenProperties
<1>2. \A l \in 1..Len(lvls) :
        /\ Reverse(lvls[l]) \in Seq(DiskRuns) /\ Len(Reverse(lvls[l])) = Len(lvls[l])
        /\ \A i \in 1..Len(lvls[l]) : Reverse(lvls[l])[i] = lvls[l][Len(lvls[l]) - i + 1]
  BY <1>1, ReverseIs
<1>3. seqs \in Seq(Seq(DiskRuns)) /\ Len(seqs) = Len(lvls) /\ \A l \in 1..Len(lvls) : seqs[l] = Reverse(lvls[l])
  BY <1>1, <1>2
<1> HIDE DEF seqs
<1>4. ASSUME NEW l \in 1..Len(lvls)
      PROVE  /\ seqs[l] \in Seq(DiskRuns) /\ Len(seqs[l]) = Len(lvls[l]) /\ lvls[l] \in Seq(DiskRuns)
             /\ \A i \in 1..Len(lvls[l]) : seqs[l][i] = lvls[l][Len(lvls[l]) - i + 1]
  BY <1>1, <1>2, <1>3
<1> QED
  BY <1>3, <1>4 DEF seqs

\* A run that is not in any level is not in the order of the search.
LEMMA SearchOrderType ==
  ASSUME NEW lvls \in Seq(Seq(DiskRuns)), NEW P,
         \A l \in DOMAIN lvls : \A r \in DOMAIN lvls[l] : lvls[l][r] \notin P
  PROVE  /\ SearchOrder(lvls) \in Seq(DiskRuns)
         /\ \A y \in 1..Len(SearchOrder(lvls)) : SearchOrder(lvls)[y] \notin P
<1> DEFINE seqs == [l \in DOMAIN lvls |-> Reverse(lvls[l])]
<1>1. /\ seqs \in Seq(Seq(DiskRuns)) /\ Len(seqs) = Len(lvls)
      /\ \A l \in 1..Len(lvls) :
           /\ Len(seqs[l]) = Len(lvls[l]) /\ lvls[l] \in Seq(DiskRuns)
           /\ \A i \in 1..Len(lvls[l]) : seqs[l][i] = lvls[l][Len(lvls[l]) - i + 1]
  BY ReversedLevels, Zenon
<1>2. SearchOrder(lvls) = FlattenSeq(seqs)
  BY DEF SearchOrder
<1> HIDE DEF seqs
<1>3. ASSUME NEW l \in 1..Len(seqs) PROVE NoneIn(seqs[l], P)
  <2>1. ASSUME NEW i \in 1..Len(seqs[l]) PROVE seqs[l][i] \notin P
    <3>1. l \in 1..Len(lvls) /\ i \in 1..Len(lvls[l]) /\ Len(lvls[l]) - i + 1 \in 1..Len(lvls[l])
      BY <1>1
    <3>2. seqs[l][i] = lvls[l][Len(lvls[l]) - i + 1] /\ DOMAIN lvls[l] = 1..Len(lvls[l])
          /\ DOMAIN lvls = 1..Len(lvls)
      BY <1>1, <3>1
    <3> QED
      BY <3>1, <3>2
  <2> QED
    BY <2>1 DEF NoneIn
<1>4. FlattenSeq(seqs) \in Seq(DiskRuns) /\ NoneIn(FlattenSeq(seqs), P)
  BY <1>1, <1>3, FlattenFirst DEF Flattened
<1> QED
  BY <1>2, <1>4 DEF NoneIn

\* The search meets the newest entry first.
LEMMA SearchOrderSays ==
  ASSUME NEW lvls \in Seq(Seq(DiskRuns)), NEW k \in Keys, NEW v, DiskSays(lvls, k, v)
  PROVE  SearchOrder(lvls) \in Seq(DiskRuns) /\ FirstSays(SearchOrder(lvls), k, v)
<1> DEFINE seqs == [l \in DOMAIN lvls |-> Reverse(lvls[l])]
           P == {array \in DiskRuns : array[k] # << >>}
           order == SearchOrder(lvls)
<1>1. /\ seqs \in Seq(Seq(DiskRuns)) /\ Len(seqs) = Len(lvls)
      /\ \A l \in 1..Len(lvls) :
           /\ seqs[l] \in Seq(DiskRuns) /\ Len(seqs[l]) = Len(lvls[l]) /\ lvls[l] \in Seq(DiskRuns)
           /\ \A i \in 1..Len(lvls[l]) : seqs[l][i] = lvls[l][Len(lvls[l]) - i + 1]
  BY ReversedLevels, Zenon
<1>2. order = FlattenSeq(seqs)
  BY DEF SearchOrder
<1>P. \A array \in DiskRuns : array \in P <=> array[k] # << >>
  OBVIOUS
<1> HIDE DEF seqs, order, P
<1>3. order \in Seq(DiskRuns) /\ Flattened(seqs, Len(lvls), order, P)
  BY <1>1, <1>2, FlattenFirst
<1>4. /\ DOMAIN lvls = 1..Len(lvls) /\ DOMAIN order = 1..Len(order) /\ Len(order) \in Nat
      /\ \A y \in 1..Len(order) : order[y] \in DiskRuns
      /\ \A l \in 1..Len(lvls) : DOMAIN lvls[l] = 1..Len(lvls[l]) /\ Len(lvls[l]) \in Nat
      /\ \A l \in 1..Len(lvls) : \A i \in 1..Len(lvls[l]) : lvls[l][i] \in DiskRuns
  BY <1>1, <1>3, LenProperties
<1>5. CASE v = Absent
  <2>1. ASSUME NEW l \in 1..Len(lvls) PROVE NoneIn(seqs[l], P)
    <3>1. ASSUME NEW i \in 1..Len(seqs[l]) PROVE seqs[l][i] \notin P
      <4>1. i \in 1..Len(lvls[l]) /\ Len(lvls[l]) - i + 1 \in 1..Len(lvls[l])
        BY <1>1, <1>4
      <4>2. seqs[l][i] = lvls[l][Len(lvls[l]) - i + 1]
        BY <1>1, <4>1
      <4>3. lvls[l][Len(lvls[l]) - i + 1][k] = << >>
        BY <1>4, <1>5, <4>1 DEF DiskSays
      <4> QED
        BY <1>4, <1>P, <4>1, <4>2, <4>3
    <3> QED
      BY <3>1 DEF NoneIn
  <2>2. NoneIn(order, P)
    BY <1>3, <2>1 DEF Flattened
  <2>3. \A y \in DOMAIN order : order[y][k] = << >>
    BY <1>4, <1>P, <2>2 DEF NoneIn
  <2> QED
    BY <1>3, <1>5, <2>3 DEF FirstSays, order
<1>6. CASE v # Absent
  <2>1. PICK l \in 1..Len(lvls) : \E r \in 1..Len(lvls[l]) :
               FirstOnDisk(lvls, k, l, r) /\ lvls[l][r][k] = << v >>
    BY <1>4, <1>6 DEF DiskSays
  <2>2. PICK r \in 1..Len(lvls[l]) : FirstOnDisk(lvls, k, l, r) /\ lvls[l][r][k] = << v >>
    BY <2>1
  <2> DEFINE x == Len(lvls[l]) - r + 1
  <2>3. x \in 1..Len(seqs[l]) /\ seqs[l][x] = lvls[l][r]
    <3>1. x \in 1..Len(lvls[l]) /\ Len(lvls[l]) - x + 1 = r
      BY <1>4
    <3> QED
      BY <1>1, <3>1
  <2>4. ASSUME NEW w \in 1..x - 1 PROVE seqs[l][w] \notin P
    <3>1. w \in 1..Len(lvls[l]) /\ Len(lvls[l]) - w + 1 > r /\ Len(lvls[l]) - w + 1 \in 1..Len(lvls[l])
      BY <1>4
    <3>2. seqs[l][w] = lvls[l][Len(lvls[l]) - w + 1]
      BY <1>1, <3>1
    <3>3. lvls[l][Len(lvls[l]) - w + 1][k] = << >>
      BY <1>4, <2>2, <3>1 DEF FirstOnDisk
    <3> QED
      BY <1>4, <1>P, <3>1, <3>2, <3>3
  <2>5. ASSUME NEW m \in 1..l - 1 PROVE NoneIn(seqs[m], P)
    <3>1. m \in 1..Len(lvls)
      OBVIOUS
    <3>2. ASSUME NEW i \in 1..Len(seqs[m]) PROVE seqs[m][i] \notin P
      <4>1. i \in 1..Len(lvls[m]) /\ Len(lvls[m]) - i + 1 \in 1..Len(lvls[m])
        BY <1>1, <1>4, <3>1
      <4>2. seqs[m][i] = lvls[m][Len(lvls[m]) - i + 1]
        BY <1>1, <3>1, <4>1
      <4>3. lvls[m][Len(lvls[m]) - i + 1][k] = << >>
        BY <1>4, <2>2, <3>1, <4>1 DEF FirstOnDisk
      <4> QED
        BY <1>4, <1>P, <3>1, <4>1, <4>2, <4>3
    <3> QED
      BY <3>2 DEF NoneIn
  <2>6. seqs[l][x] \in P
    <3>1. lvls[l][r] \in DiskRuns /\ lvls[l][r][k] # << >>
      BY <1>4, <2>2 DEF FirstOnDisk
    <3> QED
      BY <1>P, <2>3, <3>1
  <2> HIDE DEF x
  <2>7. FirstIn(seqs[l], x, P)
    BY <2>3, <2>4, <2>6 DEF FirstIn
  <2>8. PICK y \in 1..Len(order) : order[y] = seqs[l][x] /\ FirstIn(order, y, P)
    BY <1>3, <2>3, <2>5, <2>7 DEF Flattened
  <2>9. \A w \in 1..y - 1 : order[w][k] = << >>
    BY <1>4, <1>P, <2>8 DEF FirstIn
  <2>10. order[y][k] = << v >>
    BY <2>2, <2>3, <2>8
  <2> QED
    BY <1>3, <1>4, <1>6, <2>9, <2>10 DEF FirstSays, order
<1> QED
  BY <1>5, <1>6 DEF order

\* lookup on disk answers with the newest entry, and with nothing else.
LEMMA AnswersAre ==
  ASSUME NEW runs \in Seq(DiskRuns), NEW k \in Keys, NEW v, FirstSays(runs, k, v), IntMin \notin Keys
  PROVE  Answers(runs, k) = {v}
<1> DEFINE hits == {i \in DOMAIN runs : runs[i][k] # << >> /\ KeysOf(runs[i]) # {IntMin}}
<1>1. \A i \in DOMAIN runs : KeysOf(runs[i]) # {IntMin}
  BY DEF KeysOf
<1>2. hits = {i \in DOMAIN runs : runs[i][k] # << >>} /\ hits \in SUBSET Nat
  BY <1>1, LenProperties
<1>3. CASE v = Absent
  BY <1>2, <1>3 DEF Answers, FirstSays
<1>4. CASE v # Absent
  <2>1. PICK y \in DOMAIN runs : runs[y][k] = << v >> /\ \A w \in 1..y - 1 : runs[w][k] = << >>
    BY <1>4 DEF FirstSays
  <2>2. y \in hits /\ DOMAIN runs = 1..Len(runs)
    <3>1. runs[y][k] # << >>
      <4> << v >> # << >>
        OBVIOUS
      <4> HIDE DEF hits
      <4> QED
        BY <2>1
    <3>2. DOMAIN runs = 1..Len(runs)
      BY LenProperties
    <3> HIDE DEF hits
    <3> QED
      BY <1>2, <3>1, <3>2
  <2>3. Min(hits) \in hits /\ Min(hits) <= y
    BY <1>2, <2>2, MinOfNats
  <2>4. Min(hits) = y
    BY <1>2, <2>1, <2>2, <2>3
  <2>5. Found(<< v >>) = {v}
    BY DEF Found, ToSet
  <2> QED
    BY <2>1, <2>2, <2>4, <2>5 DEF Answers
<1> QED
  BY <1>3, <1>4

\* What range sees of the one entry a run has for a key, or of none.
LEMMA SlicesAre ==
  ASSUME NEW e \in Seq(Stored), Len(e) <= 1, NEW k \in Int, NEW lo \in Int, NEW hi \in Int, lo < hi
  PROVE  Slices(e, k, lo, hi) = {IF lo <= k /\ k < hi THEN e ELSE << >>}
<1>1. Max({1, Len(e)}) = 1 /\ Len(e) \in Nat
  <2>1. Len(e) \in Nat
    BY LenProperties
  <2> QED
    BY <2>1 DEF Max
<1>2. SubSeq(e, 1, Len(e)) = e
  OBVIOUS
<1>3. SubSeq(e, 1, 1 - 1) = << >>
  OBVIOUS
<1>4. {SubSeq(e, i, Len(e)) : i \in 1..1} = {e}
  BY <1>2
<1>5. {SubSeq(e, 1, i - 1) : i \in 1..1} = {<< >>}
  <2>1. ASSUME NEW i \in 1..1 PROVE SubSeq(e, 1, i - 1) = << >>
    <3>1. i = 1
      OBVIOUS
    <3> QED
      BY <1>3, <3>1
  <2>2. 1 \in 1..1
    OBVIOUS
  <2> QED
    BY <2>1, <2>2
<1>6. CASE k < lo \/ k > hi
  BY <1>6 DEF Slices
<1>7. CASE k = lo
  <2>1. ~(k < lo \/ k > hi)
    BY <1>7
  <2>2. Slices(e, k, lo, hi) = {SubSeq(e, i, Len(e)) : i \in 1..Max({1, Len(e)})}
    BY <1>7, <2>1, Zenon DEF Slices
  <2> QED
    BY <1>1, <1>4, <1>7, <2>2
<1>8. CASE k = hi
  <2>1. ~(k < lo \/ k > hi) /\ k # lo
    BY <1>8
  <2>2. Slices(e, k, lo, hi) = {SubSeq(e, 1, i - 1) : i \in 1..Max({1, Len(e)})}
    BY <1>8, <2>1, Zenon DEF Slices
  <2> QED
    BY <1>1, <1>5, <1>8, <2>2
<1>9. CASE lo < k /\ k < hi
  BY <1>9 DEF Slices
<1> QED
  BY <1>6, <1>7, <1>8, <1>9

\* What range has seen of a key after one more run.
More(u, entries, k, lo, hi) == {s \o t : s \in u, t \in Slices(entries, k, lo, hi)}

\* The recursive function of DiskEntries satisfies its equation.
LEMMA DiskEntriesDefined ==
  ASSUME NEW runs \in Seq(DiskRuns), NEW k, NEW lo, NEW hi
  PROVE  \E f : /\ f[0] = {<< >>}
                /\ \A i \in 1..Len(runs) : f[i] = More(f[i - 1], runs[i][k], k, lo, hi)
                /\ DiskEntries(runs, k, lo, hi) = f[Len(runs)]
<1> DEFINE Step(f, m) == [i \in 0..m |-> IF i = 0 THEN {<< >>} ELSE More(f[i - 1], runs[i][k], k, lo, hi)]
           Good == {m \in Nat : \E f : f = Step(f, m)}
<1>1. 0 \in Good
  <2> DEFINE g == [i \in 0..0 |-> {<< >>}]
  <2>1. g = Step(g, 0)
    OBVIOUS
  <2> HIDE DEF g, Step
  <2>2. \E f : f = Step(f, 0)
    BY <2>1
  <2> QED
    BY <2>2
<1>2. ASSUME NEW m \in Nat, m \in Good PROVE m + 1 \in Good
  <2>1. PICK f : f = Step(f, m)
    BY <1>2
  <2> DEFINE g == [i \in 0..m + 1 |-> IF i = m + 1 THEN More(f[m], runs[i][k], k, lo, hi) ELSE f[i]]
  <2>2. \A i \in 0..m : g[i] = f[i]
    OBVIOUS
  <2>3. ASSUME NEW i \in 0..m + 1 PROVE g[i] = IF i = 0 THEN {<< >>} ELSE More(g[i - 1], runs[i][k], k, lo, hi)
    <3>1. CASE i = m + 1
      <4>1. i - 1 = m /\ i # 0 /\ m \in 0..m
        BY <3>1
      <4>2. g[i] = More(f[m], runs[i][k], k, lo, hi)
        BY <3>1
      <4>3. g[m] = f[m]
        BY <2>2, <4>1
      <4> HIDE DEF g
      <4> QED
        BY <4>1, <4>2, <4>3
    <3>2. CASE i # m + 1
      <4>1. i \in 0..m /\ (i # 0 => i - 1 \in 0..m)
        BY <3>2
      <4>2. f[i] = IF i = 0 THEN {<< >>} ELSE More(f[i - 1], runs[i][k], k, lo, hi)
        BY <2>1, <4>1
      <4> QED
        BY <2>2, <4>1, <4>2
    <3> QED
      BY <3>1, <3>2
  <2>4. g = Step(g, m + 1)
    <3> HIDE DEF g
    <3>1. g = [i \in 0..m + 1 |-> g[i]]
      BY DEF g
    <3> QED
      BY <2>3, <3>1
  <2> HIDE DEF g, Step
  <2>5. (\E h : h = Step(h, m + 1)) /\ m + 1 \in Nat
    BY <2>4
  <2> QED
    BY <2>5, Zenon
<1>3. Len(runs) \in Good
  <2> HIDE DEF Good
  <2> QED
    BY <1>1, <1>2, SetInduction, LenProperties
<1>4. \E f : f = Step(f, Len(runs))
  BY <1>3
<1> DEFINE F == CHOOSE f : f = Step(f, Len(runs))
<1>5. F = Step(F, Len(runs))
  BY <1>4
<1>6. DiskEntries(runs, k, lo, hi) = F[Len(runs)]
  BY DEF DiskEntries, More
<1> HIDE DEF F
<1>7. Len(runs) \in Nat /\ \A i \in 1..Len(runs) : i \in 0..Len(runs) /\ i # 0
  BY LenProperties
<1>8. F[0] = {<< >>}
  BY <1>5, <1>7
<1>9. ASSUME NEW i \in 1..Len(runs) PROVE F[i] = More(F[i - 1], runs[i][k], k, lo, hi)
  BY <1>5, <1>7, Zenon
<1> QED
  BY <1>6, <1>8, <1>9, Zenon

\* The entries of a key that range sees on disk begin with the newest one.
LEMMA DiskEntriesAre ==
  ASSUME NEW runs \in Seq(DiskRuns), NEW k \in Keys, NEW v, FirstSays(runs, k, v),
         \A y \in 1..Len(runs) : Len(runs[y][k]) <= 1,
         NEW lo \in Int, NEW hi \in Int, lo < hi, NEW s \in DiskEntries(runs, k, lo, hi)
  PROVE  /\ s \in Seq(Stored)
         /\ IF v # Absent /\ lo <= k /\ k < hi THEN s # << >> /\ s[1] = v ELSE s = << >>
<1>1. PICK f : /\ f[0] = {<< >>}
               /\ \A i \in 1..Len(runs) : f[i] = More(f[i - 1], runs[i][k], k, lo, hi)
               /\ DiskEntries(runs, k, lo, hi) = f[Len(runs)]
  <2> HIDE DEF DiskEntries
  <2>1. runs \in Seq(DiskRuns)
    OBVIOUS
  <2> QED
    BY <2>1, DiskEntriesDefined, SMTT(60)
<1> DEFINE In == lo <= k /\ k < hi
           Has(q, n) ==
             /\ q \in Seq(Stored)
             /\ ~In => q = << >>
             /\ (\A y \in 1..n : runs[y][k] = << >>) => q = << >>
             /\ \A y \in 1..n :
                  In /\ runs[y][k] # << >> /\ (\A w \in 1..y - 1 : runs[w][k] = << >>)
                    => q # << >> /\ q[1] = runs[y][k][1]
           Seen(y) == IF In THEN runs[y][k] ELSE << >>
<1>2. f[0] = {<< >>}
  BY <1>1
<1>3. ASSUME NEW i \in 1..Len(runs) PROVE f[i] = {q \o Seen(i) : q \in f[i - 1]}
  <2>2. f[i] = More(f[i - 1], runs[i][k], k, lo, hi)
    BY <1>1, Zenon
  <2>3. runs[i][k] \in Seq(Stored) /\ k \in Int
    BY Facts DEF DiskRuns
  <2>4. Slices(runs[i][k], k, lo, hi) = {Seen(i)}
    BY <2>3, SlicesAre
  <2> HIDE DEF Seen
  <2> QED
    BY <2>2, <2>4 DEF More
<1> DEFINE Ns == {n \in Nat : n \in 0..Len(runs) => \A q \in f[n] : Has(q, n)}
<1>4. 0 \in Ns
  <2>1. Has(<< >>, 0)
    OBVIOUS
  <2> HIDE DEF Has
  <2>2. \A q \in f[0] : Has(q, 0)
    BY <1>2, <2>1
  <2> QED
    BY <2>2
<1>5. ASSUME NEW n \in Nat, n \in Ns PROVE n + 1 \in Ns
  <2> SUFFICES ASSUME NEW i \in 1..Len(runs), i = n + 1, NEW p \in f[i] PROVE Has(p, i)
    <3> HIDE DEF Has
    <3>1. n + 1 \in Nat /\ (n + 1 \in 0..Len(runs) => n + 1 \in 1..Len(runs))
      OBVIOUS
    <3> QED
      BY <3>1
  <2>1. i - 1 = n /\ n \in 0..Len(runs)
    OBVIOUS
  <2>2. PICK q \in f[n] : p = q \o Seen(i)
    BY <1>3, <2>1
  <2>3. Has(q, n)
    BY <1>5, <2>1
  <2> HIDE DEF Has
  <2>4. runs[i][k] \in Seq(Stored)
    BY DEF DiskRuns
  <2>5. p \in Seq(Stored) /\ (~In => p = << >>)
    BY <2>2, <2>3, <2>4 DEF Has
  <2>6. ASSUME \A y \in 1..i : runs[y][k] = << >> PROVE p = << >>
    <3>1. i \in 1..i /\ \A y \in 1..n : y \in 1..i
      OBVIOUS
    <3>2. q = << >> /\ Seen(i) = << >>
      BY <2>3, <2>6, <3>1 DEF Has
    <3> QED
      BY <2>2, <3>2
  <2>7. ASSUME NEW y \in 1..i, In, runs[y][k] # << >>, \A w \in 1..y - 1 : runs[w][k] = << >>
        PROVE  p # << >> /\ p[1] = runs[y][k][1]
    <3>1. CASE y \in 1..n
      <4>1. q \in Seq(Stored) /\ q # << >> /\ q[1] = runs[y][k][1]
        BY <2>3, <2>7, <3>1 DEF Has
      <4>2. Seen(i) \in Seq(Stored)
        BY <2>4
      <4> HIDE DEF Seen
      <4> QED
        BY <2>2, <4>1, <4>2
    <3>2. CASE y = i
      <4>1. q = << >>
        BY <2>1, <2>3, <2>7, <3>2 DEF Has
      <4>2. p = runs[y][k]
        BY <2>2, <2>4, <2>7, <3>2, <4>1
      <4> QED
        BY <2>7, <4>2
    <3> QED
      BY <3>1, <3>2
  <2> QED
    BY <2>5, <2>6, <2>7 DEF Has
<1> HIDE DEF Has
<1>6. Len(runs) \in Ns /\ Len(runs) \in 0..Len(runs)
  <2>1. Len(runs) \in Nat
    BY LenProperties
  <2> HIDE DEF Ns
  <2> QED
    BY <1>4, <1>5, <2>1, SetInduction
<1>7. Has(s, Len(runs))
  BY <1>1, <1>6
<1>8. CASE v = Absent
  BY <1>7, <1>8 DEF Has, FirstSays
<1>9. CASE v # Absent
  <2>1. PICK y \in 1..Len(runs) : runs[y][k] = << v >> /\ \A w \in 1..y - 1 : runs[w][k] = << >>
    BY <1>9 DEF FirstSays
  <2>2. runs[y][k] # << >> /\ runs[y][k][1] = v
    BY <2>1
  <2> QED
    BY <1>7, <1>9, <2>1, <2>2 DEF Has
<1> QED
  BY <1>8, <1>9

----------------------------------------------------------------------------
(* The buffer *)

\* A run whose counter is 0 holds nothing.
LEMMA EmptyRunHolds ==
  ASSUME NEW run, CountedRun(run), run.n = 0, NEW k \in Keys
  PROVE  run.elts[k] = Absent
<1>1. RunKeys(run) = {}
  BY FS_EmptySet DEF CountedRun
<1> QED
  BY <1>1 DEF RunKeys

\* The keys of a buffer after the write of insert_key to run a.
LEMMA EltsAfterWrite ==
  ASSUME NEW runs \in Seq(SkipRuns), NEW a \in 1..Len(runs), NEW k \in Keys, NEW v
  PROVE  /\ DOMAIN WriteTo(runs, a, k, v) = 1..Len(runs)
         /\ \A i \in 1..Len(runs) : i # a => WriteTo(runs, a, k, v)[i] = runs[i]
         /\ WriteTo(runs, a, k, v)[a] = SkipInsert(runs[a], k, v)
         /\ \A i \in 1..Len(runs), q \in Keys :
              WriteTo(runs, a, k, v)[i].elts[q] = IF i = a /\ q = k THEN v ELSE runs[i].elts[q]
<1>1. DOMAIN runs = 1..Len(runs) /\ runs[a].elts \in [Keys -> Stored \union {Absent}]
  <2>1. DOMAIN runs = 1..Len(runs) /\ runs[a] \in SkipRuns
    BY LenProperties
  <2> QED
    BY <2>1 DEF SkipRuns
<1>2. WriteTo(runs, a, k, v) = [runs EXCEPT ![a] = SkipInsert(runs[a], k, v)]
  BY DEF WriteTo
<1>3. SkipInsert(runs[a], k, v).elts = [runs[a].elts EXCEPT ![k] = v]
  BY DEF SkipInsert
<1>4. \A q \in Keys : SkipInsert(runs[a], k, v).elts[q] = IF q = k THEN v ELSE runs[a].elts[q]
  BY <1>1, <1>3
<1>5. /\ DOMAIN WriteTo(runs, a, k, v) = 1..Len(runs)
      /\ \A i \in 1..Len(runs) : i # a => WriteTo(runs, a, k, v)[i] = runs[i]
      /\ WriteTo(runs, a, k, v)[a] = SkipInsert(runs[a], k, v)
  BY <1>1, <1>2
<1> QED
  BY <1>4, <1>5

\* After a write with nothing behind it, the buffer says what was written.
LEMMA SaysAfterWrite ==
  ASSUME NEW runs \in Seq(SkipRuns), NEW a \in 1..Len(runs), NEW k \in Keys, NEW v \in Stored,
         \A i \in 1..Len(runs) : i > a => \A q \in Keys : runs[i].elts[q] = Absent
  PROVE  /\ BufferSays(WriteTo(runs, a, k, v), k, v)
         /\ \A q \in Keys \ {k} : \A w : BufferSays(runs, q, w) => BufferSays(WriteTo(runs, a, k, v), q, w)
<1> DEFINE new == WriteTo(runs, a, k, v)
<1>1. /\ DOMAIN new = 1..Len(runs) /\ DOMAIN runs = 1..Len(runs)
      /\ \A i \in 1..Len(runs), q \in Keys :
           new[i].elts[q] = IF i = a /\ q = k THEN v ELSE runs[i].elts[q]
  BY EltsAfterWrite, LenProperties
<1> HIDE DEF new
<1>2. v # Absent
  BY Facts
<1>3. new[a].elts[k] = v /\ \A j \in DOMAIN new : j > a => new[j].elts[k] = Absent
  BY <1>1
<1>4. ASSUME NEW q \in Keys \ {k}, NEW w, BufferSays(runs, q, w) PROVE BufferSays(new, q, w)
  <2>1. \A i \in DOMAIN new : new[i].elts[q] = runs[i].elts[q]
    BY <1>1
  <2> QED
    BY <1>1, <1>4, <2>1 DEF BufferSays
<1> QED
  BY <1>1, <1>2, <1>3, <1>4 DEF BufferSays, new

\* A key that is new to the buffer is in one run of it after the write.
LEMMA OnceAfterWrite ==
  ASSUME NEW runs \in Seq(SkipRuns), NEW a \in 1..Len(runs), NEW k \in Keys, NEW v \in Stored,
         Once(runs), \A i \in DOMAIN runs : runs[i].elts[k] = Absent
  PROVE  Once(WriteTo(runs, a, k, v))
<1> DEFINE new == WriteTo(runs, a, k, v)
<1>1. /\ DOMAIN new = 1..Len(runs) /\ DOMAIN runs = 1..Len(runs)
      /\ \A i \in 1..Len(runs), q \in Keys :
           new[i].elts[q] = IF i = a /\ q = k THEN v ELSE runs[i].elts[q]
  BY EltsAfterWrite, LenProperties
<1> HIDE DEF new
<1>2. ASSUME NEW i \in DOMAIN new, NEW j \in DOMAIN new, NEW q \in Keys,
             new[i].elts[q] # Absent, new[j].elts[q] # Absent
      PROVE  i = j
  <2>1. CASE q = k
    BY <1>1, <1>2, <2>1
  <2>2. CASE q # k
    BY <1>1, <1>2, <2>2 DEF Once
  <2> QED
    BY <2>1, <2>2
<1> QED
  BY <1>2 DEF Once, new

\* The newest entry of the buffer is in the runs that stay, or else in those that
\* do_merge takes out.
LEMMA SaysAfterRenew ==
  ASSUME NEW old \in Seq(SkipRuns), NEW m \in 1..Len(old), NEW new, NEW merged,
         DOMAIN new = 1..Len(old), DOMAIN merged = 1..m,
         \A i \in 1..Len(old) - m : new[i] = old[i + m],
         \A i \in Len(old) - m + 1..Len(old) : new[i] = EmptyRun,
         \A i \in 1..m : merged[i] = old[i],
         NEW k \in Keys, NEW v, BufferSays(old, k, v)
  PROVE  \/ v # Absent /\ BufferSays(new, k, v)
         \/ BufferSays(new, k, Absent) /\ BufferSays(merged, k, v)
<1>1. Len(old) \in Nat /\ DOMAIN old = 1..Len(old) /\ EmptyRun.elts[k] = Absent
  BY LenProperties DEF EmptyRun
<1>2. \A i \in DOMAIN new : i \in 1..Len(old) - m \/ i \in Len(old) - m + 1..Len(old)
  BY <1>1
<1>3. \A i \in 1..Len(old) - m : i + m \in 1..Len(old) /\ i \in 1..Len(old)
  BY <1>1
<1>4. \A i \in 1..m : i \in 1..Len(old)
  BY <1>1
<1>5. CASE v = Absent
  <2>1. \A i \in DOMAIN new : new[i].elts[k] = Absent
    BY <1>1, <1>2, <1>3, <1>5 DEF BufferSays
  <2>2. \A i \in DOMAIN merged : merged[i].elts[k] = Absent
    BY <1>1, <1>4, <1>5 DEF BufferSays
  <2> QED
    BY <1>5, <2>1, <2>2 DEF BufferSays
<1>6. CASE v # Absent
  <2>1. PICK x \in 1..Len(old) :
               old[x].elts[k] = v /\ \A j \in 1..Len(old) : j > x => old[j].elts[k] = Absent
    BY <1>1, <1>6 DEF BufferSays
  <2>2. CASE x > m
    <3>1. x - m \in 1..Len(old) - m /\ x - m \in DOMAIN new /\ (x - m) + m = x
      BY <1>1, <2>2
    <3>2. new[x - m].elts[k] = v
      BY <2>1, <3>1
    <3>3. ASSUME NEW j \in DOMAIN new, j > x - m PROVE new[j].elts[k] = Absent
      <4>1. CASE j \in 1..Len(old) - m
        <5>1. j + m > x /\ j + m \in 1..Len(old)
          BY <1>1, <3>3, <4>1
        <5> QED
          BY <2>1, <4>1, <5>1
      <4>2. CASE j \in Len(old) - m + 1..Len(old)
        BY <1>1, <4>2
      <4> QED
        BY <1>2, <4>1, <4>2
    <3> QED
      BY <1>6, <3>1, <3>2, <3>3 DEF BufferSays
  <2>3. CASE ~(x > m)
    <3>1. ASSUME NEW j \in DOMAIN new PROVE new[j].elts[k] = Absent
      <4>1. CASE j \in 1..Len(old) - m
        <5>1. j + m > x /\ j + m \in 1..Len(old)
          BY <1>1, <2>3, <4>1
        <5> QED
          BY <2>1, <4>1, <5>1
      <4>2. CASE j \in Len(old) - m + 1..Len(old)
        BY <1>1, <4>2
      <4> QED
        BY <1>2, <4>1, <4>2
    <3>2. x \in DOMAIN merged /\ merged[x].elts[k] = v
      BY <1>1, <2>1, <2>3
    <3>3. \A j \in DOMAIN merged : j > x => merged[j].elts[k] = Absent
      BY <1>4, <2>1
    <3> QED
      BY <1>6, <3>1, <3>2, <3>3 DEF BufferSays
  <2> QED
    BY <2>2, <2>3
<1> QED
  BY <1>5, <1>6

\* What range sees of the buffer: the entry of each run that has the key, newest first.
LEMMA BufferEntriesAre ==
  ASSUME Inv, BoundsInv, pc \notin {"insert_join", "destroyed"}, NEW k \in Keys, NEW v, BufferSays(C_0, k, v),
         NEW lo \in Int, NEW hi \in Int, lo < hi
  PROVE  /\ BufferEntries(k, lo, hi) \in Seq(Stored)
         /\ IF v # Absent /\ lo <= k /\ k < hi
              THEN BufferEntries(k, lo, hi) # << >> /\ BufferEntries(k, lo, hi)[1] = v
              ELSE BufferEntries(k, lo, hi) = << >>
<1> DEFINE Entry(i) == EntriesInRange(C_0[i], k, lo, hi)
           entries == [i \in 1..activeRun |-> Entry(i)]
           seqs == Reverse(entries)
           In == lo <= k /\ k < hi
<1>1. /\ C_0 \in Seq(SkipRuns) /\ Len(C_0) = NumRuns /\ DOMAIN C_0 = 1..NumRuns
      /\ NumRuns \in Nat /\ activeRun \in 1..NumRuns
      /\ \A i \in 1..NumRuns : CountedRun(C_0[i]) /\ (i > activeRun => C_0[i].n = 0)
  BY CountedBuffer, LenProperties, Facts DEF Inv, TypeOK, ShapeInv, BufferShape
<1>2. \A i \in 1..NumRuns : i > activeRun => C_0[i].elts[k] = Absent
  BY <1>1, EmptyRunHolds
<1>3. ASSUME NEW i \in 1..NumRuns
      PROVE  /\ Entry(i) = IF In /\ C_0[i].elts[k] # Absent THEN << C_0[i].elts[k] >> ELSE << >>
             /\ Entry(i) \in Seq(Stored)
  <2>1. /\ C_0[i].elts[k] \in Stored \union {Absent} /\ C_0[i].min \in Int /\ C_0[i].max \in Int
        /\ k \in Int
    BY <1>1, Facts DEF CountedRun, SkipRuns
  <2>2. C_0[i].elts[k] # Absent => C_0[i].min <= k /\ k <= C_0[i].max
    BY <1>1 DEF BoundsInv, Bounded
  <2>3. Entry(i) = IF In /\ C_0[i].elts[k] # Absent THEN << C_0[i].elts[k] >> ELSE << >>
    BY <2>1, <2>2 DEF EntriesInRange
  <2> HIDE DEF Entry, In
  <2>4. C_0[i].elts[k] # Absent => << C_0[i].elts[k] >> \in Seq(Stored)
    BY <2>1
  <2> QED
    BY <2>3, <2>4
<1> HIDE DEF Entry
<1>4. entries \in Seq(Seq(Stored)) /\ Len(entries) = activeRun
  BY <1>1, <1>3
<1>5. \A i \in 1..activeRun : entries[i] = Entry(i)
  OBVIOUS
<1> HIDE DEF entries
<1>6. /\ seqs \in Seq(Seq(Stored)) /\ Len(seqs) = activeRun
      /\ \A i \in 1..activeRun : seqs[i] = entries[activeRun - i + 1]
  BY <1>4, ReverseIs, Zenon
<1> HIDE DEF seqs
<1>7. ASSUME NEW i \in 1..activeRun
      PROVE  activeRun - i + 1 \in 1..activeRun /\ activeRun - i + 1 \in 1..NumRuns
             /\ seqs[i] = Entry(activeRun - i + 1)
  <2>1. activeRun - i + 1 \in 1..activeRun /\ activeRun - i + 1 \in 1..NumRuns
    BY <1>1
  <2> QED
    BY <1>5, <1>6, <2>1
<1> DEFINE flat == FlattenSeq(seqs)
<1>8. BufferEntries(k, lo, hi) = flat
  BY DEF BufferEntries, seqs, entries, Entry
<1>9. flat \in Seq(Stored) /\ Flattened(seqs, activeRun, flat, Stored)
  BY <1>6, FlattenFirst
<1> HIDE DEF flat
<1>10. Len(flat) \in Nat /\ \A y \in 1..Len(flat) : flat[y] \in Stored
  BY <1>9, LenProperties
<1>11. CASE ~(v # Absent /\ In)
  <2>1. ASSUME NEW i \in 1..activeRun PROVE NoneIn(seqs[i], Stored)
    <3>1. Entry(activeRun - i + 1) = << >>
      BY <1>1, <1>3, <1>7, <1>11 DEF BufferSays
    <3> QED
      BY <1>7, <3>1 DEF NoneIn
  <2>2. NoneIn(flat, Stored)
    BY <1>9, <2>1 DEF Flattened
  <2>3. Len(flat) = 0
    BY <1>10, <2>2 DEF NoneIn
  <2>4. flat = << >>
    BY <1>9, <2>3, EmptySeq
  <2> QED
    BY <1>8, <1>9, <1>11, <2>4
<1>12. CASE v # Absent /\ In
  <2>1. PICK x \in 1..NumRuns :
               C_0[x].elts[k] = v /\ \A j \in 1..NumRuns : j > x => C_0[j].elts[k] = Absent
    BY <1>1, <1>12 DEF BufferSays
  <2>2. x \in 1..activeRun
    BY <1>1, <1>2, <1>12, <2>1
  <2> DEFINE z == activeRun - x + 1
  <2>3. z \in 1..activeRun /\ activeRun - z + 1 = x
    BY <1>1, <2>2
  <2>4. seqs[z] = << v >>
    BY <1>3, <1>7, <1>12, <2>1, <2>3
  <2>5. ASSUME NEW i \in 1..z - 1 PROVE NoneIn(seqs[i], Stored)
    <3>1. i \in 1..activeRun /\ activeRun - i + 1 > x
      BY <1>1, <2>2
    <3>2. Entry(activeRun - i + 1) = << >>
      BY <1>3, <1>7, <2>1, <3>1
    <3> QED
      BY <1>7, <3>1, <3>2 DEF NoneIn
  <2>6. v \in Stored
    <3>1. C_0[x] \in SkipRuns
      BY <1>1, <2>1
    <3> QED
      BY <1>12, <2>1, <3>1 DEF SkipRuns
  <2>7. 1 \in 1..Len(seqs[z]) /\ FirstIn(seqs[z], 1, Stored) /\ seqs[z][1] = v
    BY <2>4, <2>6 DEF FirstIn
  <2> HIDE DEF z
  <2>8. PICK y \in 1..Len(flat) : flat[y] = v /\ FirstIn(flat, y, Stored)
    BY <1>9, <2>3, <2>5, <2>7 DEF Flattened
  <2>9. y = 1
    <3>1. ~(1 \in 1..y - 1)
      BY <1>10, <2>8 DEF FirstIn
    <3> QED
      BY <1>10, <2>8, <3>1
  <2>10. flat # << >> /\ flat[1] = v
    BY <1>9, <2>8, <2>9, EmptySeq
  <2> QED
    BY <1>8, <1>9, <1>12, <2>10
<1> QED
  BY <1>11, <1>12

\* The entry lookup finds in the buffer is the newest one there.
LEMMA BufferHitsAre ==
  ASSUME Inv, BoundsInv, pc = "ready", NEW k \in Keys, NEW v, BufferSays(C_0, k, v)
  PROVE  IF v = Absent THEN BufferHits(k) = {}
         ELSE BufferHits(k) # {} /\ C_0[Max(BufferHits(k))].elts[k] = v
<1>1. /\ C_0 \in Seq(SkipRuns) /\ DOMAIN C_0 = 1..NumRuns
      /\ NumRuns \in Nat /\ activeRun \in 1..NumRuns
      /\ \A i \in 1..NumRuns : CountedRun(C_0[i]) /\ (i > activeRun => C_0[i].n = 0)
  BY CountedBuffer, LenProperties, Facts DEF Inv, TypeOK, ShapeInv, BufferShape
<1>2. \A i \in 1..NumRuns : i > activeRun => C_0[i].elts[k] = Absent
  BY <1>1, EmptyRunHolds
<1>3. BufferHits(k) = {i \in 1..NumRuns : C_0[i].elts[k] # Absent}
  <2>1. \A i \in 1..NumRuns : C_0[i].elts[k] # Absent => i \in 1..activeRun /\ MayHold(i, k)
    BY <1>1, <1>2 DEF BoundsInv, Bounded, MayHold, MayContain
  <2>2. 1..activeRun \subseteq 1..NumRuns
    BY <1>1
  <2> QED
    BY <2>1, <2>2 DEF BufferHits
<1>4. CASE v = Absent
  BY <1>1, <1>3, <1>4 DEF BufferSays
<1>5. CASE v # Absent
  <2>1. PICK x \in 1..NumRuns :
               C_0[x].elts[k] = v /\ \A j \in 1..NumRuns : j > x => C_0[j].elts[k] = Absent
    BY <1>1, <1>5 DEF BufferSays
  <2>2. x \in BufferHits(k) /\ BufferHits(k) \in SUBSET (1..NumRuns)
    BY <1>3, <1>5, <2>1
  <2>3. Max(BufferHits(k)) \in BufferHits(k) /\ x <= Max(BufferHits(k))
    BY <1>1, <2>2, MaxOfIndices
  <2>4. Max(BufferHits(k)) = x
    BY <1>1, <1>3, <2>1, <2>2, <2>3
  <2> QED
    BY <1>5, <2>1, <2>2, <2>4
<1> QED
  BY <1>4, <1>5

\* What range returns of the entries it has seen of a key.
LEMMA KeptIs ==
  ASSUME NEW k \in Keys, NEW e \in Seq(Stored), IntMin \notin Keys, Zero \notin Values
  PROVE  Kept(k, e) = IF e # << >> /\ e[1] # Tombstone THEN << e[1] >> ELSE << >>
<1>1. Remembered(k, e) = e
  BY DEF Remembered
<1>2. CASE e = << >>
  BY <1>1, <1>2, Zenon DEF Kept
<1>3. CASE e # << >>
  <2>1. e[1] \in Stored
    BY <1>3
  <2>2. e[1] # Zero
    BY <2>1, Facts, DataAssumption DEF DataAssumption
  <2> QED
    BY <1>1, <1>3, <2>2, Zenon DEF Kept
<1> QED
  BY <1>2, <1>3

----------------------------------------------------------------------------
(* What a merge does to the disk *)

\* The levels with one more run in level d.
WithRun(lvls, d, array) == [lvls EXCEPT ![d] = Append(@, array)]

\* A run behind the first ones, that has a key only if they do, is not seen.
LEMMA SaysAfterAppend ==
  ASSUME NEW lvls \in Seq(Seq(DiskRuns)), NEW d \in 1..Len(lvls), NEW array, NEW k \in Keys, NEW v,
         DiskSays(lvls, k, v),
         array[k] # << >> => \E m \in 1..d - 1 : \E s \in DOMAIN lvls[m] : lvls[m][s][k] # << >>
  PROVE  DiskSays(WithRun(lvls, d, array), k, v)
<1> DEFINE new == WithRun(lvls, d, array)
<1>1. /\ DOMAIN lvls = 1..Len(lvls) /\ DOMAIN new = 1..Len(lvls) /\ Len(lvls) \in Nat
      /\ \A l \in 1..Len(lvls) : l # d => new[l] = lvls[l]
      /\ \A l \in 1..Len(lvls) : DOMAIN lvls[l] = 1..Len(lvls[l]) /\ Len(lvls[l]) \in Nat
      /\ new[d] = Append(lvls[d], array)
  BY LenProperties DEF WithRun
<1>2. /\ DOMAIN new[d] = 1..Len(lvls[d]) + 1
      /\ \A r \in 1..Len(lvls[d]) : new[d][r] = lvls[d][r]
      /\ new[d][Len(lvls[d]) + 1] = array
  BY <1>1
<1> HIDE DEF new
<1>9. ASSUME NEW l \in 1..Len(lvls)
      PROVE  /\ \A s \in DOMAIN lvls[l] : s \in DOMAIN new[l] /\ new[l][s] = lvls[l][s]
             /\ \A s \in DOMAIN new[l] :
                  \/ l = d /\ s = Len(lvls[d]) + 1 /\ new[l][s] = array
                  \/ s \in DOMAIN lvls[l] /\ new[l][s] = lvls[l][s]
  <2>1. CASE l = d
    <3>1. /\ DOMAIN lvls[d] = 1..Len(lvls[d]) /\ Len(lvls[d]) \in Nat
          /\ \A s \in 1..Len(lvls[d]) + 1 : s \in 1..Len(lvls[d]) \/ s = Len(lvls[d]) + 1
          /\ \A s \in 1..Len(lvls[d]) : s \in 1..Len(lvls[d]) + 1
      BY <1>1
    <3> QED
      BY <1>2, <2>1, <3>1
  <2>2. CASE l # d
    BY <1>1, <2>2
  <2> QED
    BY <2>1, <2>2
<1>3. CASE v = Absent
  <2>1. \A l \in 1..Len(lvls) : \A r \in 1..Len(lvls[l]) : lvls[l][r][k] = << >>
    BY <1>1, <1>3 DEF DiskSays
  <2>2. \A m \in 1..d - 1 : m \in 1..Len(lvls)
    OBVIOUS
  <2>3. array[k] = << >>
    BY <1>1, <2>1, <2>2
  <2>4. ASSUME NEW l \in 1..Len(lvls), NEW r \in DOMAIN new[l] PROVE new[l][r][k] = << >>
    BY <1>1, <1>9, <2>1, <2>3
  <2> QED
    BY <1>1, <1>3, <2>4 DEF DiskSays, new
<1>4. CASE v # Absent
  <2>1. PICK l \in 1..Len(lvls) : \E r \in 1..Len(lvls[l]) : FirstOnDisk(lvls, k, l, r) /\ lvls[l][r][k] = << v >>
    BY <1>1, <1>4 DEF DiskSays
  <2>2. PICK r \in 1..Len(lvls[l]) : FirstOnDisk(lvls, k, l, r) /\ lvls[l][r][k] = << v >>
    BY <2>1
  <2>3. l >= d => array[k] = << >>
    <3>1. ASSUME l >= d, NEW m \in 1..d - 1, NEW s \in DOMAIN lvls[m] PROVE lvls[m][s][k] = << >>
      <4>1. m \in 1..l - 1
        BY <3>1
      <4> QED
        BY <2>2, <4>1 DEF FirstOnDisk
    <3> QED
      BY <3>1
  <2>4. r \in DOMAIN new[l] /\ new[l][r] = lvls[l][r]
    BY <1>1, <1>9
  <2>5. ASSUME NEW s \in DOMAIN new[l], s > r PROVE new[l][s][k] = << >>
    <3>1. CASE l = d /\ s = Len(lvls[d]) + 1
      BY <1>2, <2>3, <3>1
    <3>2. CASE ~(l = d /\ s = Len(lvls[d]) + 1)
      <4>1. s \in DOMAIN lvls[l] /\ new[l][s] = lvls[l][s]
        BY <1>9, <3>2
      <4> QED
        BY <2>2, <2>5, <4>1 DEF FirstOnDisk
    <3> QED
      BY <3>1, <3>2
  <2>6. ASSUME NEW m \in 1..l - 1, NEW s \in DOMAIN new[m] PROVE new[m][s][k] = << >>
    <3>1. m \in 1..Len(lvls)
      OBVIOUS
    <3>2. CASE m = d /\ s = Len(lvls[d]) + 1
      BY <1>2, <2>3, <3>2
    <3>3. CASE ~(m = d /\ s = Len(lvls[d]) + 1)
      <4>1. s \in DOMAIN lvls[m] /\ new[m][s] = lvls[m][s]
        BY <1>9, <3>1, <3>3
      <4> QED
        BY <2>2, <4>1 DEF FirstOnDisk
    <3> QED
      BY <3>2, <3>3
  <2>7. FirstOnDisk(new, k, l, r) /\ new[l][r][k] = << v >>
    BY <2>2, <2>4, <2>5, <2>6 DEF FirstOnDisk
  <2> QED
    BY <1>1, <1>4, <2>4, <2>7 DEF DiskSays, new
<1> QED
  BY <1>3, <1>4

\* An empty level at the bottom is not seen.
LEMMA SaysAfterNewLevel ==
  ASSUME NEW lvls \in Seq(Seq(DiskRuns)), NEW k \in Keys, NEW v, DiskSays(lvls, k, v)
  PROVE  DiskSays(Append(lvls, << >>), k, v)
<1> DEFINE new == Append(lvls, << >>)
<1>1. /\ DOMAIN lvls = 1..Len(lvls) /\ DOMAIN new = 1..Len(lvls) + 1 /\ Len(lvls) \in Nat
      /\ \A l \in 1..Len(lvls) : new[l] = lvls[l]
      /\ DOMAIN new[Len(lvls) + 1] = {}
  BY LenProperties
<1> HIDE DEF new
<1>2. CASE v = Absent
  <2>1. ASSUME NEW l \in DOMAIN new, NEW r \in DOMAIN new[l] PROVE new[l][r][k] = << >>
    BY <1>1, <1>2 DEF DiskSays
  <2> QED
    BY <1>2, <2>1 DEF DiskSays, new
<1>3. CASE v # Absent
  <2>1. PICK l \in 1..Len(lvls) : \E r \in DOMAIN lvls[l] : FirstOnDisk(lvls, k, l, r) /\ lvls[l][r][k] = << v >>
    BY <1>1, <1>3 DEF DiskSays
  <2>2. PICK r \in DOMAIN lvls[l] : FirstOnDisk(lvls, k, l, r) /\ lvls[l][r][k] = << v >>
    BY <2>1
  <2>3. new[l] = lvls[l] /\ l \in DOMAIN new /\ \A m \in 1..l - 1 : new[m] = lvls[m]
    BY <1>1
  <2>4. FirstOnDisk(new, k, l, r)
    BY <2>2, <2>3 DEF FirstOnDisk
  <2> QED
    BY <1>3, <2>2, <2>3, <2>4 DEF DiskSays, new
<1> QED
  BY <1>2, <1>3

\* The merge keeps the newest entry of each key.
LEMMA HeapMergeKeeps ==
  ASSUME NEW runs \in Seq(DiskRuns), NEW k \in Keys
  PROVE  /\ HeapMerge(runs)[k] # << >> => \E r \in DOMAIN runs : runs[r][k] # << >>
         /\ Len(HeapMerge(runs)[k]) <= 1
         /\ \A r \in DOMAIN runs :
              /\ runs[r][k] # << >> /\ Len(runs[r][k]) <= 1
              /\ \A s \in DOMAIN runs : s > r => runs[s][k] = << >>
              => HeapMerge(runs)[k] = runs[r][k]
<1> DEFINE holders == {i \in DOMAIN runs : runs[i][k] # << >>}
<1>1. HeapMerge(runs)[k] = IF holders = {} THEN << >> ELSE << runs[Max(holders)][k][1] >>
  BY DEF HeapMerge
<1>2. Len(runs) \in Nat /\ DOMAIN runs = 1..Len(runs)
  BY LenProperties
<1>3. ASSUME NEW r \in DOMAIN runs, runs[r][k] # << >>, Len(runs[r][k]) <= 1,
             \A s \in DOMAIN runs : s > r => runs[s][k] = << >>
      PROVE  HeapMerge(runs)[k] = runs[r][k]
  <2>1. r \in holders /\ holders \in SUBSET (1..Len(runs))
    BY <1>2, <1>3
  <2>2. Max(holders) \in holders /\ r <= Max(holders)
    BY <1>2, <2>1, MaxOfIndices
  <2>3. Max(holders) = r
    BY <1>2, <1>3, <2>1, <2>2
  <2>4. HeapMerge(runs)[k] = << runs[r][k][1] >>
    BY <1>1, <2>1, <2>3
  <2>5. runs[r][k] \in Seq(Stored)
    BY <1>2 DEF DiskRuns
  <2> HIDE DEF holders
  <2>6. Len(runs[r][k]) = 1
    <3>1. Len(runs[r][k]) \in Nat /\ Len(runs[r][k]) # 0
      BY <1>3, <2>5, EmptySeq, LenProperties
    <3>2. \A n \in Nat : n # 0 /\ n <= 1 => n = 1
      OBVIOUS
    <3> QED
      BY <1>3, <3>1, <3>2, Zenon
  <2> QED
    BY <2>4, <2>5, <2>6
<1>4. HeapMerge(runs)[k] # << >> => \E r \in DOMAIN runs : runs[r][k] # << >>
  BY <1>1
<1>5. Len(HeapMerge(runs)[k]) <= 1
  BY <1>1
<1> QED
  BY <1>3, <1>4, <1>5

\* Taking out the last tombstone leaves the other entries.
LEMMA DropLastTombstoneKeeps ==
  ASSUME NEW array \in DiskRuns, NEW k \in Keys
  PROVE  DropLastTombstone(array)[k] = array[k] \/ (array[k] = << Tombstone >> /\ DropLastTombstone(array)[k] = << >>)
<1> DEFINE last == Max(KeysOf(array))
<1>1. DOMAIN array = Keys
  BY DEF DiskRuns
<1>2. CASE array[last] = << Tombstone >>
  <2>1. DropLastTombstone(array) = [array EXCEPT ![last] = << >>]
    BY <1>2 DEF DropLastTombstone
  <2> HIDE DEF last
  <2> QED
    BY <1>1, <1>2, <2>1
<1>3. CASE array[last] # << Tombstone >>
  BY <1>3 DEF DropLastTombstone
<1> QED
  BY <1>2, <1>3

\* addRuns keeps the newest entry of each key in the runs it merges, but for a tombstone
\* in the first run of the last level.
LEMMA MergedRunKeeps ==
  ASSUME levels \in Seq(Seq(DiskRuns)), depth \in 1..Len(levels), depth < Len(levels),
         MergeSize \in 1..Len(levels[depth]), NEW k \in Keys
  PROVE  /\ MergedRun[k] # << >> => \E r \in 1..MergeSize : levels[depth][r][k] # << >>
         /\ Len(MergedRun[k]) <= 1
         /\ \A r \in 1..MergeSize :
              /\ levels[depth][r][k] # << >> /\ Len(levels[depth][r][k]) <= 1
              /\ \A s \in r + 1..MergeSize : levels[depth][s][k] = << >>
              => \/ MergedRun[k] = levels[depth][r][k]
                 \/ /\ levels[depth][r][k] = << Tombstone >> /\ MergedRun[k] = << >>
                    /\ depth + 1 = Len(levels) /\ levels[depth + 1] = << >>
<1> DEFINE oldest == SubSeq(levels[depth], 1, MergeSize)
           merged == HeapMerge(oldest)
           isLast == depth + 1 = Len(levels) /\ levels[depth + 1] = << >>
<1>1. /\ oldest \in Seq(DiskRuns) /\ DOMAIN oldest = 1..MergeSize /\ MergeSize \in Nat
      /\ \A r \in 1..MergeSize : oldest[r] = levels[depth][r]
  BY Facts
<1>2. MergedRun = IF isLast THEN DropLastTombstone(merged) ELSE merged
  BY DEF MergedRun
<1>3. merged \in DiskRuns
  BY <1>1, HeapMergeType
<1>4. /\ merged[k] # << >> => \E r \in 1..MergeSize : levels[depth][r][k] # << >>
      /\ Len(merged[k]) <= 1
  <2> HIDE DEF oldest
  <2>1. /\ merged[k] # << >> => \E r \in DOMAIN oldest : oldest[r][k] # << >>
        /\ Len(merged[k]) <= 1
    BY <1>1, HeapMergeKeeps
  <2> QED
    BY <1>1, <2>1
<1>5. ASSUME NEW r \in 1..MergeSize, levels[depth][r][k] # << >>, Len(levels[depth][r][k]) <= 1,
             \A s \in r + 1..MergeSize : levels[depth][s][k] = << >>
      PROVE  merged[k] = levels[depth][r][k]
  <2>1. \A s \in 1..MergeSize : s > r => s \in r + 1..MergeSize
    BY <1>1
  <2>2. /\ r \in DOMAIN oldest /\ oldest[r][k] # << >> /\ Len(oldest[r][k]) <= 1
        /\ \A s \in DOMAIN oldest : s > r => oldest[s][k] = << >>
    BY <1>1, <1>5, <2>1
  <2> HIDE DEF oldest
  <2>3. merged[k] = oldest[r][k]
    BY <1>1, <2>2, HeapMergeKeeps
  <2> QED
    BY <1>1, <2>3
<1> HIDE DEF oldest, merged
<1>6. MergedRun[k] = merged[k] \/ (isLast /\ merged[k] = << Tombstone >> /\ MergedRun[k] = << >>)
  BY <1>2, <1>3, DropLastTombstoneKeeps
<1>7. Len(MergedRun[k]) <= 1
  BY <1>4, <1>6
<1> QED
  BY <1>4, <1>5, <1>6, <1>7

----------------------------------------------------------------------------
(* The steps of the merge thread *)

\* The merge thread moves entries behind the buffer; it has to keep the newest one of
\* each key there.
LEMMA NewestFromBehind ==
  ASSUME NewestInv, UNCHANGED <<C_0, latest, pc>>,
         \A k \in Keys, v \in Stored \union {Absent} :
           pc # "destroyed" /\ BehindSays(k, v) =>
             \E w \in Stored \union {Absent} : Visible(w) = Visible(v) /\ BehindSays(k, w)'
  PROVE  NewestInv'
<1> SUFFICES ASSUME pc # "destroyed", NEW k \in Keys
             PROVE  \E v \in Stored \union {Absent} : Visible(v) = latest[k] /\ Newest(k, v)'
  BY DEF NewestInv
<1>1. PICK v \in Stored \union {Absent} : Visible(v) = latest[k] /\ Newest(k, v)
  BY DEF NewestInv
<1>2. CASE v # Absent /\ BufferSays(C_0, k, v)
  BY <1>1, <1>2 DEF Newest
<1>3. CASE BufferSays(C_0, k, Absent) /\ BehindSays(k, v)
  <2>1. PICK w \in Stored \union {Absent} : Visible(w) = Visible(v) /\ BehindSays(k, w)'
    BY <1>3
  <2>2. Newest(k, w)'
    BY <1>3, <2>1 DEF Newest
  <2> QED
    BY <1>1, <2>1, <2>2
<1> QED
  BY <1>1, <1>2, <1>3 DEF Newest

\* What the client keeps stays as it is while the merge thread works.
LEMMA ClientFrame ==
  ASSUME DictInv, UNCHANGED <<C_0, pc, arg>>
  PROVE  PendingInv' /\ (RewriteBuffered \/ Once(C_0))'
  BY DEF DictInv, PendingInv, OnceInv

\* Copying a run puts its entries in front of none: no other copied run has their keys.
LEMMA CollectDict == ASSUME Inv, DictInv, Collect PROVE DictInv'
<1> DEFINE r == collected + 1
<1>1. /\ mtPC = "collect" /\ mtPC' = "collect" /\ r \in 1..Len(runsToMerge) /\ collected \in Nat
      /\ DOMAIN runsToMerge = 1..Len(runsToMerge)
      /\ UNCHANGED <<C_0, latest, pc, arg, runsToMerge, levels>> /\ collected' = r
      /\ toMerge \in DiskRuns
  BY LenProperties DEF Inv, TypeOK, Collect, bufferVars, clientVars
<1>2. toMerge' = [k \in Keys |-> IF runsToMerge[r].elts[k] = Absent THEN toMerge[k]
                                 ELSE << runsToMerge[r].elts[k] >> \o toMerge[k]]
  BY DEF Collect
<1>3. ASSUME NEW k \in Keys
      PROVE  toMerge'[k] = IF runsToMerge[r].elts[k] = Absent THEN toMerge[k]
                           ELSE << runsToMerge[r].elts[k] >>
  <2>1. CASE runsToMerge[r].elts[k] = Absent
    BY <1>2, <2>1
  <2>2. CASE runsToMerge[r].elts[k] # Absent
    <3>1. Once(runsToMerge)
      BY <1>1 DEF DictInv, OnceInv
    <3>2. ASSUME NEW i \in 1..collected PROVE runsToMerge[i].elts[k] = Absent
      <4>1. i \in DOMAIN runsToMerge /\ r \in DOMAIN runsToMerge /\ i # r
        BY <1>1
      <4> QED
        BY <2>2, <3>1, <4>1 DEF Once
    <3>3. toMerge[k] = << >>
      BY <1>1, <3>2 DEF DictInv, CollectedInv
    <3>4. toMerge'[k] = << runsToMerge[r].elts[k] >> \o toMerge[k]
      BY <1>2, <2>2
    <3> QED
      BY <2>2, <3>3, <3>4
  <2> QED
    BY <2>1, <2>2
<1> HIDE DEF r
<1>4. NewestInv'
  <2>1. ASSUME NEW k \in Keys, NEW v \in Stored \union {Absent}, BehindSays(k, v)
        PROVE  BehindSays(k, v)'
    <3>1. CASE v # Absent /\ BufferSays(runsToMerge, k, v)
      BY <1>1, <3>1 DEF BehindSays
    <3>2. CASE BufferSays(runsToMerge, k, Absent)
      <4>1. toMerge'[k] = toMerge[k]
        BY <1>1, <1>3, <3>2 DEF BufferSays
      <4> QED
        BY <1>1, <2>1, <3>2, <4>1 DEF BehindSays
    <3> QED
      BY <1>1, <2>1, <3>1, <3>2 DEF BehindSays
  <2> QED
    BY <1>1, <2>1, NewestFromBehind DEF DictInv
<1>5. SingleInv'
  <2>1. ASSUME NEW k \in Keys PROVE Len(toMerge'[k]) <= 1
    <3>1. CASE runsToMerge[r].elts[k] = Absent
      BY <1>3, <3>1 DEF DictInv, SingleInv
    <3>2. CASE runsToMerge[r].elts[k] # Absent
      <4>1. toMerge'[k] = << runsToMerge[r].elts[k] >>
        BY <1>3, <3>2
      <4> QED
        BY <4>1
    <3> QED
      BY <3>1, <3>2
  <2> QED
    BY <1>1, <2>1 DEF DictInv, SingleInv
<1>6. CollectedInv'
  <2>1. ASSUME NEW k \in Keys, NEW i \in 1..r, runsToMerge[i].elts[k] # Absent
        PROVE  toMerge'[k] = << runsToMerge[i].elts[k] >>
    <3>1. CASE i = r
      BY <1>3, <2>1, <3>1
    <3>2. CASE i # r
      <4>1. i \in 1..collected
        BY <1>1, <3>2 DEF r
      <4>2. runsToMerge[r].elts[k] = Absent
        <5>1. Once(runsToMerge) /\ i \in DOMAIN runsToMerge /\ r \in DOMAIN runsToMerge
          BY <1>1 DEF DictInv, OnceInv
        <5> QED
          BY <2>1, <3>2, <5>1 DEF Once
      <4> QED
        BY <1>1, <1>3, <2>1, <4>1, <4>2 DEF DictInv, CollectedInv
    <3> QED
      BY <3>1, <3>2
  <2>2. ASSUME NEW k \in Keys, \A i \in 1..r : runsToMerge[i].elts[k] = Absent
        PROVE  toMerge'[k] = << >>
    <3>1. r \in 1..r /\ \A i \in 1..collected : i \in 1..r
      BY <1>1 DEF r
    <3> QED
      BY <1>1, <1>3, <2>2, <3>1 DEF DictInv, CollectedInv
  <2> QED
    BY <1>1, <2>1, <2>2 DEF CollectedInv
<1>7. (PendingInv /\ OnceInv)'
  BY <1>1, ClientFrame DEF DictInv, OnceInv
<1>8. (IdleInv /\ MergedInv /\ AddedInv)'
  BY <1>1 DEF IdleInv, MergedInv, AddedInv
<1> QED
  BY <1>4, <1>5, <1>6, <1>7, <1>8 DEF DictInv

\* Sorting an array with one entry for each key keeps the entries of each key.
LEMMA SortDict == ASSUME Inv, DictInv, Sort PROVE DictInv'
<1>1. /\ mtPC = "collect" /\ mtPC' = "lock" /\ collected = Len(runsToMerge)
      /\ DOMAIN runsToMerge = 1..Len(runsToMerge)
      /\ UNCHANGED <<C_0, latest, pc, arg, runsToMerge, levels>>
      /\ toMerge \in DiskRuns
  BY LenProperties DEF Inv, TypeOK, Sort, bufferVars, clientVars
<1>2. ASSUME NEW k \in Keys PROVE toMerge'[k] = toMerge[k]
  <2> DEFINE d == DOMAIN toMerge[k]
  <2>1. toMerge[k] \in Seq(Stored) /\ Len(toMerge[k]) <= 1
    BY <1>1 DEF DictInv, SingleInv, DiskRuns
  <2>2. PICK p \in Bijection(d, d) : toMerge'[k] = [i \in d |-> toMerge[k][p[i]]]
    <3>1. toMerge'[k] \in {[i \in d |-> toMerge[k][p[i]]] : p \in Bijection(d, d)}
      BY DEF Sort
    <3> QED
      BY <3>1
  <2>3. d = 1..Len(toMerge[k]) /\ Len(toMerge[k]) \in Nat
    BY <2>1, LenProperties
  <2>4. \A i \in d : i = 1
    BY <2>1, <2>3
  <2>5. \A i \in d : p[i] \in d
    BY <2>2 DEF Bijection, Injection
  <2>6. \A i \in d : p[i] = i
    BY <2>4, <2>5
  <2>7. toMerge[k] = [i \in d |-> toMerge[k][i]]
    BY <2>1
  <2> HIDE DEF d
  <2> QED
    BY <2>2, <2>6, <2>7
<1>3. NewestInv'
  <2>1. ASSUME NEW k \in Keys, NEW v \in Stored \union {Absent}, BehindSays(k, v)
        PROVE  BehindSays(k, v)'
    <3>1. CASE v # Absent /\ BufferSays(runsToMerge, k, v)
      <4>1. PICK i \in DOMAIN runsToMerge : runsToMerge[i].elts[k] = v
        BY <3>1 DEF BufferSays
      <4>2. toMerge[k] = << v >>
        BY <1>1, <3>1, <4>1 DEF DictInv, CollectedInv
      <4> QED
        BY <1>1, <1>2, <3>1, <4>2 DEF BehindSays
    <3>2. CASE ~(v # Absent /\ BufferSays(runsToMerge, k, v))
      BY <1>1, <1>2, <2>1, <3>2 DEF BehindSays
    <3> QED
      BY <3>1, <3>2
  <2> QED
    BY <1>1, <2>1, NewestFromBehind DEF DictInv
<1>4. SingleInv'
  BY <1>1, <1>2 DEF DictInv, SingleInv
<1>5. (PendingInv /\ OnceInv)'
  BY <1>1, ClientFrame DEF DictInv, OnceInv
<1>6. (CollectedInv /\ IdleInv /\ MergedInv /\ AddedInv)'
  BY <1>1 DEF CollectedInv, IdleInv, MergedInv, AddedInv
<1> QED
  BY <1>3, <1>4, <1>5, <1>6 DEF DictInv

\* Steps in which the merge thread, once it has copied its runs, leaves the arrays alone.
LEMMA BehindFrame ==
  ASSUME UNCHANGED <<toMerge, levels>>, mtPC # "collect", mtPC' # "collect", NEW k \in Keys, NEW v,
         BehindSays(k, v)
  PROVE  BehindSays(k, v)'
  BY DEF BehindSays

\* The lock.
LEMMA LockDict == ASSUME Inv, DictInv, Lock PROVE DictInv'
<1>1. /\ mtPC = "lock" /\ mtPC' \in {"descend", "add"}
      /\ UNCHANGED <<C_0, latest, pc, arg, runsToMerge, collected, toMerge, levels>>
  BY DEF Lock, bufferVars, clientVars
<1>2. NewestInv'
  <2>1. \A k \in Keys, v \in Stored \union {Absent} : BehindSays(k, v) => BehindSays(k, v)'
    BY <1>1, BehindFrame
  <2> QED
    BY <1>1, <2>1, NewestFromBehind DEF DictInv
<1>3. (PendingInv /\ OnceInv)'
  BY <1>1, ClientFrame DEF DictInv, OnceInv
<1>4. (SingleInv /\ CollectedInv /\ IdleInv /\ MergedInv /\ AddedInv)'
  BY <1>1 DEF DictInv, SingleInv, CollectedInv, IdleInv, MergedInv, AddedInv
<1> QED
  BY <1>2, <1>3, <1>4 DEF DictInv

\* A new level at the bottom is empty.
LEMMA DescendDict == ASSUME Inv, DictInv, Descend PROVE DictInv'
<1>1. /\ mtPC = "descend" /\ mtPC' \in {"descend", "add_runs"}
      /\ UNCHANGED <<C_0, latest, pc, arg, runsToMerge, collected, toMerge>>
      /\ levels \in Seq(Seq(DiskRuns)) /\ (levels' = levels \/ levels' = Append(levels, << >>))
  BY DEF Inv, TypeOK, Descend, bufferVars, clientVars, NewLevel
<1>2. NewestInv'
  <2>1. ASSUME NEW k \in Keys, NEW v \in Stored \union {Absent}, BehindSays(k, v)
        PROVE  BehindSays(k, v)'
    <3>1. DiskSays(levels, k, v) => DiskSays(levels', k, v)
      BY <1>1, SaysAfterNewLevel
    <3> QED
      BY <1>1, <2>1, <3>1 DEF BehindSays
  <2> QED
    BY <1>1, <2>1, NewestFromBehind DEF DictInv
<1>3. SingleInv'
  <2>1. ASSUME NEW l \in DOMAIN levels', NEW r \in DOMAIN levels'[l], NEW k \in Keys
        PROVE  Len(levels'[l][r][k]) <= 1
    <3>1. CASE levels' = levels
      BY <2>1, <3>1 DEF DictInv, SingleInv
    <3>2. CASE levels' = Append(levels, << >>)
      <4>1. /\ DOMAIN levels = 1..Len(levels) /\ l \in 1..Len(levels) + 1 /\ Len(levels) \in Nat
            /\ levels'[Len(levels) + 1] = << >> /\ \A m \in 1..Len(levels) : levels'[m] = levels[m]
        BY <1>1, <3>2, LenProperties
      <4>2. l \in 1..Len(levels)
        BY <4>1
      <4> QED
        BY <4>1, <4>2 DEF DictInv, SingleInv
    <3> QED
      BY <1>1, <3>1, <3>2
  <2> QED
    BY <1>1, <2>1 DEF DictInv, SingleInv
<1>4. (PendingInv /\ OnceInv)'
  BY <1>1, ClientFrame DEF DictInv, OnceInv
<1>5. (CollectedInv /\ IdleInv /\ MergedInv /\ AddedInv)'
  BY <1>1 DEF CollectedInv, IdleInv, MergedInv, AddedInv
<1> QED
  BY <1>2, <1>3, <1>4, <1>5 DEF DictInv

\* A sequence with one more element at its end.
LEMMA AppendFacts ==
  ASSUME NEW S, NEW q \in Seq(S), NEW e
  PROVE  /\ DOMAIN Append(q, e) = 1..Len(q) + 1 /\ Len(Append(q, e)) = Len(q) + 1 /\ Append(q, e) # << >>
         /\ \A r \in 1..Len(q) : Append(q, e)[r] = q[r]
         /\ Append(q, e)[Len(q) + 1] = e
  OBVIOUS

\* The levels after a run is added to one of them.
LEMMA LevelsAfterAppend ==
  ASSUME NEW lvls \in Seq(Seq(DiskRuns)), NEW d \in 1..Len(lvls), NEW array,
         \A k \in Keys : Len(array[k]) <= 1,
         \A l \in DOMAIN lvls : \A r \in DOMAIN lvls[l] : \A k \in Keys : Len(lvls[l][r][k]) <= 1,
         NEW new, new = WithRun(lvls, d, array)
  PROVE  /\ Len(new[d]) = Len(lvls[d]) + 1 /\ new[d] # << >> /\ new[d][Len(new[d])] = array
         /\ \A l \in DOMAIN new : \A r \in DOMAIN new[l] : \A k \in Keys : Len(new[l][r][k]) <= 1
<1>1. /\ DOMAIN lvls = 1..Len(lvls) /\ DOMAIN new = 1..Len(lvls) /\ Len(lvls) \in Nat
      /\ lvls[d] \in Seq(DiskRuns)
      /\ \A l \in 1..Len(lvls) : l # d => new[l] = lvls[l]
      /\ DOMAIN lvls[d] = 1..Len(lvls[d]) /\ Len(lvls[d]) \in Nat
      /\ new[d] = Append(lvls[d], array)
  BY LenProperties DEF WithRun
<1>2. /\ DOMAIN Append(lvls[d], array) = 1..Len(lvls[d]) + 1
      /\ Len(Append(lvls[d], array)) = Len(lvls[d]) + 1 /\ Append(lvls[d], array) # << >>
      /\ \A r \in 1..Len(lvls[d]) : Append(lvls[d], array)[r] = lvls[d][r]
      /\ Append(lvls[d], array)[Len(lvls[d]) + 1] = array
  BY <1>1, AppendFacts
<1>3. ASSUME NEW l \in DOMAIN new, NEW r \in DOMAIN new[l], NEW k \in Keys PROVE Len(new[l][r][k]) <= 1
  <2>1. CASE l # d
    BY <1>1, <2>1
  <2>2. CASE l = d /\ r = Len(lvls[d]) + 1
    BY <1>1, <1>2, <2>2
  <2>3. CASE l = d /\ r # Len(lvls[d]) + 1
    <3>1. r \in 1..Len(lvls[d])
      BY <1>1, <1>2, <2>3
    <3> QED
      BY <1>1, <1>2, <2>3, <3>1
  <2> QED
    BY <2>1, <2>2, <2>3
<1> QED
  BY <1>1, <1>2, <1>3

\* addRuns puts the merged run behind the runs it was made of.
LEMMA AddRunsDict == ASSUME Inv, DictInv, AddRuns PROVE DictInv'
<1>1. /\ mtPC = "add_runs" /\ UNCHANGED <<C_0, latest, pc, arg, runsToMerge, collected, toMerge, depth>>
      /\ mtPC' \in {"overrun", "index_underflow", "free"}
      /\ levels \in Seq(Seq(DiskRuns)) /\ Len(levels) \in Nat /\ DOMAIN levels = 1..Len(levels)
      /\ depth \in 1..Len(levels) /\ depth + 1 \in 1..Len(levels) /\ depth < Len(levels)
      /\ \A l \in 1..Len(levels) : levels[l] \in Seq(DiskRuns) /\ DOMAIN levels[l] = 1..Len(levels[l])
      /\ Len(levels[depth]) = DiskRunsPerLevel /\ MergeSize \in 1..Len(levels[depth])
      /\ Len(levels[depth]) \in Nat
  BY LenProperties, Facts
     DEF Inv, TypeOK, ShapeInv, LevelShape, AddRuns, bufferVars, clientVars
<1>2. (PendingInv /\ OnceInv /\ CollectedInv /\ IdleInv /\ AddedInv)'
  BY <1>1, ClientFrame DEF DictInv, OnceInv, CollectedInv, IdleInv, AddedInv
<1>3. CASE mtPC' # "free"
  <2>1. UNCHANGED levels
    BY <1>3 DEF AddRuns
  <2>2. NewestInv'
    <3>1. \A k \in Keys, v \in Stored \union {Absent} : BehindSays(k, v) => BehindSays(k, v)'
      BY <1>1, <2>1, BehindFrame
    <3> QED
      BY <1>1, <3>1, NewestFromBehind DEF DictInv
  <2>3. (SingleInv /\ MergedInv)'
    BY <1>1, <1>3, <2>1 DEF DictInv, SingleInv, MergedInv
  <2> QED
    BY <1>2, <2>2, <2>3 DEF DictInv
<1>4. CASE mtPC' = "free"
  <2>1. levels' = [levels EXCEPT ![depth + 1] = Append(@, MergedRun)]
    BY <1>4 DEF AddRuns
  <2>2. ASSUME NEW k \in Keys
        PROVE  /\ MergedRun[k] # << >> => \E r \in 1..MergeSize : levels[depth][r][k] # << >>
               /\ Len(MergedRun[k]) <= 1
               /\ \A r \in 1..MergeSize :
                    /\ levels[depth][r][k] # << >> /\ Len(levels[depth][r][k]) <= 1
                    /\ \A s \in r + 1..MergeSize : levels[depth][s][k] = << >>
                    => \/ MergedRun[k] = levels[depth][r][k]
                       \/ /\ levels[depth][r][k] = << Tombstone >> /\ MergedRun[k] = << >>
                          /\ depth + 1 = Len(levels) /\ levels[depth + 1] = << >>
    BY <1>1, MergedRunKeeps
  <2>3. \A l \in DOMAIN levels : \A r \in DOMAIN levels[l] : \A k \in Keys : Len(levels[l][r][k]) <= 1
    BY DEF DictInv, SingleInv
  <2> DEFINE array == MergedRun
  <2>4. levels' = WithRun(levels, depth + 1, array) /\ \A k \in Keys : Len(array[k]) <= 1
    BY <2>1, <2>2 DEF WithRun
  <2> HIDE DEF array
  <2>5. /\ Len(levels') = Len(levels) /\ \A l \in 1..Len(levels) : l # depth + 1 => levels'[l] = levels[l]
        /\ Len(levels'[depth + 1]) = Len(levels[depth + 1]) + 1 /\ levels'[depth + 1] # << >>
        /\ levels'[depth + 1][Len(levels'[depth + 1])] = array
        /\ \A l \in DOMAIN levels' : \A r \in DOMAIN levels'[l] : \A k \in Keys : Len(levels'[l][r][k]) <= 1
    <3> DEFINE new == WithRun(levels, depth + 1, array)
    <3>1. levels \in Seq(Seq(DiskRuns)) /\ depth + 1 \in 1..Len(levels)
      BY <1>1
    <3>2. \A k \in Keys : Len(array[k]) <= 1
      BY <2>4
    <3>3. Len(new) = Len(levels)
      BY <3>1 DEF WithRun
    <3>4. \A l \in 1..Len(levels) : l # depth + 1 => new[l] = levels[l]
      BY <3>1 DEF WithRun
    <3>5. new = WithRun(levels, depth + 1, array) /\ levels' = new
      BY <2>4
    <3> HIDE DEF new
    <3>6. /\ Len(new[depth + 1]) = Len(levels[depth + 1]) + 1 /\ new[depth + 1] # << >>
          /\ new[depth + 1][Len(new[depth + 1])] = array
          /\ \A l \in DOMAIN new : \A r \in DOMAIN new[l] : \A k \in Keys : Len(new[l][r][k]) <= 1
      BY <2>3, <3>1, <3>2, <3>5, LevelsAfterAppend, SMTT(30)
    <3> QED
      BY <3>3, <3>4, <3>5, <3>6
  <2>6. SingleInv'
    BY <1>1, <2>5 DEF DictInv, SingleInv
  <2>7. NewestInv'
    <3>1. ASSUME NEW k \in Keys, NEW v \in Stored \union {Absent}, BehindSays(k, v)
          PROVE  BehindSays(k, v)'
      <4>1. array[k] # << >> =>
              \E m \in 1..(depth + 1) - 1 : \E s \in DOMAIN levels[m] : levels[m][s][k] # << >>
        <5> SUFFICES ASSUME array[k] # << >>
                     PROVE  \E m \in 1..(depth + 1) - 1 : \E s \in DOMAIN levels[m] : levels[m][s][k] # << >>
          OBVIOUS
        <5>1. PICK s \in 1..MergeSize : levels[depth][s][k] # << >>
          BY <2>2 DEF array
        <5>2. depth \in 1..(depth + 1) - 1 /\ s \in DOMAIN levels[depth]
          BY <1>1
        <5> QED
          BY <5>1, <5>2
      <4>2. DiskSays(levels, k, v) => DiskSays(levels', k, v)
        BY <1>1, <2>4, <4>1, SaysAfterAppend
      <4> QED
        BY <1>1, <1>4, <3>1, <4>2 DEF BehindSays
    <3> QED
      BY <1>1, <3>1, NewestFromBehind DEF DictInv
  <2>8. MergedInv'
    <3>1. LastRun(depth + 1)' = array
      BY <1>1, <2>5 DEF LastRun
    <3>2. levels'[depth] = levels[depth] /\ depth' = depth
      BY <1>1, <2>5
    <3>3. ASSUME NEW k \in Keys, NEW r \in 1..MergeSize, levels[depth][r][k] # << >>,
                 \A s \in r + 1..MergeSize : levels[depth][s][k] = << >>
          PROVE  \/ array[k] = levels[depth][r][k]
                 \/ /\ levels[depth][r][k] = << Tombstone >> /\ array[k] = << >>
                    /\ depth + 1 = Len(levels') /\ Len(levels'[depth + 1]) = 1
      <4>1. Len(levels[depth][r][k]) <= 1
        <5>1. depth \in DOMAIN levels /\ r \in DOMAIN levels[depth]
          BY <1>1
        <5> QED
          BY <2>3, <5>1
      <4>2. CASE array[k] = levels[depth][r][k]
        BY <4>2
      <4>3. CASE /\ levels[depth][r][k] = << Tombstone >> /\ array[k] = << >>
                 /\ depth + 1 = Len(levels) /\ levels[depth + 1] = << >>
        <5>1. Len(levels'[depth + 1]) = 1
          BY <2>5, <4>3
        <5> QED
          BY <2>5, <4>3, <5>1
      <4> QED
        BY <2>2, <3>3, <4>1, <4>2, <4>3 DEF array
    <3> QED
      BY <2>5, <3>1, <3>2, <3>3 DEF MergedInv
  <2> QED
    BY <1>2, <2>6, <2>7, <2>8 DEF DictInv
<1> QED
  BY <1>3, <1>4

\* freeMergedRuns takes runs away whose entries are all in newer runs or in the run that
\* was made of them.
LEMMA FreeSays ==
  ASSUME Inv, DictInv, Free, NEW k \in Keys, NEW v \in Stored \union {Absent}, DiskSays(levels, k, v)
  PROVE  \E w \in Stored \union {Absent} : Visible(w) = Visible(v) /\ DiskSays(levels', k, w)
<1>1. /\ levels \in Seq(Seq(DiskRuns)) /\ Len(levels) \in Nat /\ DOMAIN levels = 1..Len(levels)
      /\ depth \in 1..Len(levels) /\ depth + 1 \in 1..Len(levels)
      /\ \A l \in 1..Len(levels) : levels[l] \in Seq(DiskRuns) /\ DOMAIN levels[l] = 1..Len(levels[l])
      /\ \A l \in 1..Len(levels) : Len(levels[l]) \in Nat
      /\ Len(levels[depth]) = DiskRunsPerLevel /\ DiskRunsPerLevel \in Nat
      /\ MergeSize \in 1..DiskRunsPerLevel /\ mtPC = "free"
  BY LenProperties, Facts DEF Inv, TypeOK, ShapeInv, LevelShape, Free
<1> DEFINE left == Len(levels[depth]) - MergeSize
<1>2. /\ DOMAIN levels' = 1..Len(levels)
      /\ \A l \in 1..Len(levels) : l # depth => levels'[l] = levels[l]
      /\ DOMAIN levels'[depth] = 1..left
      /\ \A r \in 1..left : levels'[depth][r] = levels[depth][r + MergeSize]
  <2>1. levels'[depth] = DropFirst(levels[depth], MergeSize)
    BY <1>1 DEF Free
  <2>2. /\ levels[depth] \in Seq(DiskRuns) /\ MergeSize \in 0..Len(levels[depth])
    BY <1>1
  <2>3. /\ levels'[depth] \in Seq(DiskRuns) /\ Len(levels'[depth]) = left
        /\ \A r \in 1..left : levels'[depth][r] = levels[depth][r + MergeSize]
    BY <2>1, <2>2, DropFirstType
  <2>4. DOMAIN levels' = 1..Len(levels) /\ \A l \in 1..Len(levels) : l # depth => levels'[l] = levels[l]
    BY <1>1 DEF Free
  <2> QED
    BY <2>3, <2>4, LenProperties
<1>3. left \in Nat /\ \A r \in 1..left : r + MergeSize \in 1..Len(levels[depth])
  BY <1>1
<1> HIDE DEF left
<1>4. ASSUME NEW l \in 1..Len(levels), \A r \in 1..Len(levels[l]) : levels[l][r][k] = << >>
      PROVE  \A r \in DOMAIN levels'[l] : levels'[l][r][k] = << >>
  <2>1. CASE l = depth
    BY <1>2, <1>3, <1>4, <2>1
  <2>2. CASE l # depth
    BY <1>1, <1>2, <1>4, <2>2
  <2> QED
    BY <2>1, <2>2
<1>5. CASE v = Absent
  <2>1. \A l \in 1..Len(levels) : \A r \in 1..Len(levels[l]) : levels[l][r][k] = << >>
    BY <1>1, <1>5 DEF DiskSays
  <2>2. DiskSays(levels', k, v)
    BY <1>2, <1>4, <1>5, <2>1 DEF DiskSays
  <2> QED
    BY <2>2
<1>6. CASE v # Absent
  <2>1. PICK l \in 1..Len(levels) : \E r \in 1..Len(levels[l]) :
               FirstOnDisk(levels, k, l, r) /\ levels[l][r][k] = << v >>
    BY <1>1, <1>6 DEF DiskSays
  <2>2. PICK r \in 1..Len(levels[l]) : FirstOnDisk(levels, k, l, r) /\ levels[l][r][k] = << v >>
    BY <2>1
  <2>3. \A m \in 1..l - 1 : m \in 1..Len(levels) /\ \A s \in DOMAIN levels'[m] : levels'[m][s][k] = << >>
    <3>1. ASSUME NEW m \in 1..l - 1
          PROVE  m \in 1..Len(levels) /\ \A s \in 1..Len(levels[m]) : levels[m][s][k] = << >>
      BY <1>1, <2>2 DEF FirstOnDisk
    <3> QED
      BY <1>4, <3>1
  <2>4. \A s \in 1..Len(levels[l]) : s > r => levels[l][s][k] = << >>
    BY <1>1, <2>2 DEF FirstOnDisk
  <2>5. CASE l # depth
    <3>1. r \in DOMAIN levels'[l] /\ levels'[l] = levels[l]
      BY <1>1, <1>2, <2>5
    <3>2. FirstOnDisk(levels', k, l, r) /\ levels'[l][r][k] = << v >>
      BY <1>1, <2>2, <2>3, <2>4, <3>1 DEF FirstOnDisk
    <3> QED
      BY <1>2, <1>6, <3>1, <3>2 DEF DiskSays
  <2>6. CASE l = depth /\ r > MergeSize
    <3> DEFINE x == r - MergeSize
    <3>1. x \in 1..left /\ x + MergeSize = r
      BY <1>1, <2>6 DEF left
    <3>2. levels'[l][x] = levels[l][r] /\ x \in DOMAIN levels'[l]
      BY <1>2, <2>6, <3>1
    <3>3. ASSUME NEW s \in DOMAIN levels'[l], s > x PROVE levels'[l][s][k] = << >>
      <4>1. s \in 1..left /\ s + MergeSize > r /\ s + MergeSize \in 1..Len(levels[l])
        <5>1. s \in 1..left
          BY <1>2, <2>6, <3>3
        <5>2. s \in Nat /\ MergeSize \in Nat /\ x \in Nat /\ s > x
          BY <1>1, <3>1, <3>3, <5>1
        <5> HIDE DEF x
        <5>3. s + MergeSize > r
          BY <3>1, <5>2
        <5> QED
          BY <1>3, <2>6, <5>1, <5>3
      <4> QED
        BY <1>2, <2>4, <2>6, <4>1
    <3> HIDE DEF x
    <3>4. FirstOnDisk(levels', k, l, x) /\ levels'[l][x][k] = << v >>
      BY <2>2, <2>3, <3>2, <3>3 DEF FirstOnDisk
    <3> QED
      BY <1>2, <1>6, <3>2, <3>4 DEF DiskSays
  <2>7. CASE l = depth /\ ~(r > MergeSize)
    <3>1. /\ r \in 1..MergeSize /\ levels[depth][r][k] # << >>
          /\ \A s \in r + 1..MergeSize : levels[depth][s][k] = << >>
      <4>1. r \in 1..MergeSize /\ \A s \in r + 1..MergeSize : s > r /\ s \in 1..Len(levels[depth])
        BY <1>1, <2>7
      <4> QED
        BY <2>2, <2>4, <2>7, <4>1 DEF FirstOnDisk
    <3>2. \A m \in 1..depth : \A s \in DOMAIN levels'[m] : levels'[m][s][k] = << >>
      <4>1. ASSUME NEW s \in DOMAIN levels'[depth] PROVE levels'[depth][s][k] = << >>
        <5>1. s \in 1..left /\ s + MergeSize > r /\ s + MergeSize \in 1..Len(levels[depth])
          <6>1. s \in 1..left /\ s + MergeSize \in 1..Len(levels[depth])
            BY <1>2, <1>3
          <6>2. s + MergeSize > r
            <7>1. MergeSize \in Nat /\ r \in Nat /\ s \in Nat /\ s >= 1 /\ r <= MergeSize
              BY <1>1, <2>7, <6>1
            <7> QED
              BY <7>1
          <6> QED
            BY <6>1, <6>2
        <5> QED
          BY <1>2, <2>4, <2>7, <5>1
      <4>2. \A m \in 1..depth : m \in 1..depth - 1 \/ m = depth
        BY <1>1
      <4> QED
        BY <2>3, <2>7, <4>1, <4>2
    <3> DEFINE d == depth + 1
    <3>3. d \in 1..Len(levels) /\ levels'[d] = levels[d] /\ d - 1 = depth
      BY <1>1, <1>2
    <3>4. Len(levels[d]) \in DOMAIN levels[d] /\ levels[d] # << >>
      <4>1. levels[d] # << >>
        BY <1>1 DEF DictInv, MergedInv
      <4>2. levels[d] \in Seq(DiskRuns) /\ Len(levels[d]) \in Nat /\ DOMAIN levels[d] = 1..Len(levels[d])
        BY <1>1
      <4> HIDE DEF d
      <4>3. Len(levels[d]) # 0
        BY <4>1, <4>2, EmptySeq
      <4> QED
        BY <4>1, <4>2, <4>3
    <3>5. \/ LastRun(d)[k] = << v >>
          \/ v = Tombstone /\ LastRun(d)[k] = << >> /\ d = Len(levels) /\ Len(levels[d]) = 1
      <4>1. \/ LastRun(d)[k] = levels[depth][r][k]
            \/ /\ levels[depth][r][k] = << Tombstone >> /\ LastRun(d)[k] = << >>
               /\ d = Len(levels) /\ Len(levels[d]) = 1
        BY <1>1, <3>1 DEF DictInv, MergedInv
      <4> HIDE DEF d
      <4>2. levels[depth][r][k] = << v >>
        BY <2>2, <2>7
      <4>3. << v >> = << Tombstone >> => v = Tombstone
        OBVIOUS
      <4> QED
        BY <4>1, <4>2, <4>3
    <3> HIDE DEF d
    <3>6. CASE LastRun(d)[k] = << v >>
      <4> DEFINE x == Len(levels[d])
      <4>1. x \in DOMAIN levels'[d] /\ levels'[d][x][k] = << v >>
        BY <3>3, <3>4, <3>6 DEF LastRun
      <4>2. \A s \in DOMAIN levels'[d] : ~(s > x)
        BY <1>1, <3>3
      <4>3. << v >> # << >>
        OBVIOUS
      <4> HIDE DEF x
      <4>4. FirstOnDisk(levels', k, d, x)
        BY <3>2, <3>3, <4>1, <4>2, <4>3 DEF FirstOnDisk
      <4> QED
        BY <1>2, <1>6, <3>3, <4>1, <4>4 DEF DiskSays
    <3>7. CASE v = Tombstone /\ LastRun(d)[k] = << >> /\ d = Len(levels) /\ Len(levels[d]) = 1
      <4>1. ASSUME NEW m \in 1..Len(levels), NEW s \in DOMAIN levels'[m] PROVE levels'[m][s][k] = << >>
        <5>1. CASE m = d
          <6>1. s = Len(levels[d]) /\ levels'[m] = levels[d]
            BY <1>1, <3>3, <3>7, <5>1
          <6> QED
            BY <3>7, <6>1 DEF LastRun
        <5>2. CASE m # d
          <6>1. m \in 1..depth
            <7>1. depth \in Nat /\ d = depth + 1 /\ m \in 1..d
              BY <1>1, <3>7 DEF d
            <7> QED
              BY <5>2, <7>1
          <6> QED
            BY <3>2, <6>1
        <5> QED
          BY <5>1, <5>2
      <4>2. DiskSays(levels', k, Absent)
        BY <1>2, <4>1 DEF DiskSays
      <4>3. Visible(Absent) = Visible(v)
        BY <3>7, Facts DEF Visible
      <4> QED
        BY <4>2, <4>3
    <3> QED
      BY <3>5, <3>6, <3>7
  <2> QED
    BY <2>5, <2>6, <2>7
<1> QED
  BY <1>5, <1>6

\* freeMergedRuns.
LEMMA FreeDict == ASSUME Inv, DictInv, Free PROVE DictInv'
<1>1. /\ mtPC = "free" /\ UNCHANGED <<C_0, latest, pc, arg, runsToMerge, collected, toMerge>>
      /\ mtPC' \in {"add_runs", "add"}
      /\ levels \in Seq(Seq(DiskRuns)) /\ depth \in 1..Len(levels)
      /\ MergeSize \in 0..Len(levels[depth])
  BY Facts DEF Inv, TypeOK, ShapeInv, LevelShape, Free, bufferVars, clientVars
<1>2. (PendingInv /\ OnceInv /\ CollectedInv /\ IdleInv /\ AddedInv /\ MergedInv)'
  BY <1>1, ClientFrame DEF DictInv, OnceInv, CollectedInv, IdleInv, AddedInv, MergedInv
<1>3. NewestInv'
  <2>1. ASSUME NEW k \in Keys, NEW v \in Stored \union {Absent}, BehindSays(k, v)
        PROVE  \E w \in Stored \union {Absent} : Visible(w) = Visible(v) /\ BehindSays(k, w)'
    <3>1. CASE v # Absent /\ toMerge[k] = << v >>
      BY <1>1, <3>1 DEF BehindSays
    <3>2. CASE toMerge[k] = << >> /\ DiskSays(levels, k, v)
      <4>1. PICK w \in Stored \union {Absent} : Visible(w) = Visible(v) /\ DiskSays(levels', k, w)
        BY <3>2, FreeSays
      <4> QED
        BY <1>1, <3>2, <4>1 DEF BehindSays
    <3> QED
      BY <1>1, <2>1, <3>1, <3>2 DEF BehindSays
  <2> QED
    BY <1>1, <2>1, NewestFromBehind DEF DictInv
<1>4. SingleInv'
  <2>1. ASSUME NEW l \in DOMAIN levels', NEW r \in DOMAIN levels'[l], NEW k \in Keys
        PROVE  Len(levels'[l][r][k]) <= 1
    <3>1. l \in DOMAIN levels /\ (l # depth => levels'[l] = levels[l])
          /\ levels'[depth] = DropFirst(levels[depth], MergeSize)
      BY <1>1 DEF Free
    <3>2. CASE l # depth
      BY <3>1, <3>2 DEF DictInv, SingleInv
    <3>3. CASE l = depth
      <4>1. /\ DropFirst(levels[depth], MergeSize) \in Seq(DiskRuns)
            /\ Len(DropFirst(levels[depth], MergeSize)) = Len(levels[depth]) - MergeSize
            /\ \A i \in 1..Len(levels[depth]) - MergeSize :
                 DropFirst(levels[depth], MergeSize)[i] = levels[depth][i + MergeSize]
        <5>1. levels[depth] \in Seq(DiskRuns) /\ MergeSize \in 0..Len(levels[depth])
          BY <1>1
        <5> QED
          BY <5>1, DropFirstType
      <4>2. r \in 1..Len(levels[depth]) - MergeSize
        BY <3>1, <3>3, <4>1, LenProperties
      <4>3. r + MergeSize \in DOMAIN levels[depth]
        BY <1>1, <4>2, Facts
      <4> QED
        BY <3>1, <3>3, <4>1, <4>2, <4>3 DEF DictInv, SingleInv
    <3> QED
      BY <3>2, <3>3
  <2> QED
    BY <1>1, <2>1 DEF DictInv, SingleInv
<1> QED
  BY <1>2, <1>3, <1>4 DEF DictInv

\* addRunByArray.
LEMMA AddDict == ASSUME Inv, DictInv, Add PROVE DictInv'
<1>1. /\ mtPC = "add" /\ UNCHANGED <<C_0, latest, pc, arg, runsToMerge, collected, toMerge, depth>>
      /\ levels \in Seq(Seq(DiskRuns)) /\ 1 \in 1..Len(levels) /\ levels # << >>
      /\ \A k \in Keys : Len(toMerge[k]) <= 1
      /\ \A l \in DOMAIN levels : \A r \in DOMAIN levels[l] : \A k \in Keys : Len(levels[l][r][k]) <= 1
  BY Facts, LenProperties, EmptySeq
     DEF Inv, TypeOK, ShapeInv, MergeShape, LevelShape, Add, bufferVars, clientVars, DictInv, SingleInv
<1>2. mtPC' = "unlock" /\ levels' = WithRun(levels, 1, toMerge)
  <2>1. Len(levels[1]) < DiskRunsPerLevel /\ Len(levels[1]) \in Nat /\ toMergeSize = NumToMerge * EltsPerRun
    BY <1>1, LenProperties DEF Inv, ShapeInv, LevelShape, MergeShape
  <2>2. ~LevelFull(1)
    BY <2>1, Facts DEF LevelFull
  <2> QED
    BY <2>1, <2>2 DEF Add, WithRun
<1>3. (PendingInv /\ OnceInv /\ CollectedInv /\ IdleInv /\ MergedInv)'
  BY <1>1, <1>2, ClientFrame DEF DictInv, OnceInv, CollectedInv, IdleInv, MergedInv
<1> DEFINE new == WithRun(levels, 1, toMerge)
<1>4. /\ new[1][Len(new[1])] = toMerge /\ new[1] # << >>
      /\ \A l \in DOMAIN new : \A r \in DOMAIN new[l] : \A k \in Keys : Len(new[l][r][k]) <= 1
  <2>1. new = WithRun(levels, 1, toMerge)
    OBVIOUS
  <2> HIDE DEF new
  <2> QED
    BY <1>1, <2>1, LevelsAfterAppend
<1>5. \A l \in DOMAIN new : \A r \in DOMAIN new[l] : \A k \in Keys : Len(new[l][r][k]) <= 1
  BY <1>4
<1>6. new[1] # << >> /\ new # << >>
  <2>1. new[1] # << >>
    BY <1>4
  <2>2. new # << >>
    BY <1>1 DEF WithRun
  <2> QED
    BY <2>1, <2>2
<1>7. NewestInv'
  <2>1. ASSUME NEW k \in Keys, NEW v \in Stored \union {Absent}, BehindSays(k, v)
        PROVE  BehindSays(k, v)'
    <3>1. CASE v # Absent /\ toMerge[k] = << v >>
      BY <1>1, <1>2, <3>1 DEF BehindSays
    <3>2. CASE toMerge[k] = << >> /\ DiskSays(levels, k, v)
      <4>1. DiskSays(levels', k, v)
        BY <1>1, <1>2, <3>2, SaysAfterAppend
      <4> QED
        BY <1>1, <1>2, <3>2, <4>1 DEF BehindSays
    <3> QED
      BY <1>1, <2>1, <3>1, <3>2 DEF BehindSays
  <2> QED
    BY <1>1, <2>1, NewestFromBehind DEF DictInv
<1> HIDE DEF new
<1>8. levels' = new
  BY <1>2 DEF new
<1>9. SingleInv'
  BY <1>1, <1>5, <1>8 DEF SingleInv
<1>10. AddedInv'
  BY <1>1, <1>4, <1>6, <1>8 DEF AddedInv, LastRun
<1> QED
  BY <1>3, <1>7, <1>9, <1>10 DEF DictInv

\* to_merge goes when its entries are in level 1.
LEMMA UnlockDict == ASSUME Inv, DictInv, Unlock PROVE DictInv'
<1>1. /\ mtPC = "unlock" /\ mtPC' = "done" /\ UNCHANGED <<C_0, latest, pc, arg, levels, depth>>
      /\ toMerge' = EmptyArray /\ levels \in Seq(Seq(DiskRuns))
  BY DEF Inv, TypeOK, Unlock, bufferVars, clientVars
<1>2. \A k \in Keys : toMerge'[k] = << >>
  BY <1>1 DEF EmptyArray
<1>3. (PendingInv /\ OnceInv /\ CollectedInv /\ IdleInv /\ MergedInv /\ AddedInv)'
  BY <1>1, <1>2, ClientFrame DEF DictInv, OnceInv, CollectedInv, IdleInv, MergedInv, AddedInv
<1>4. SingleInv'
  <2>1. \A k \in Keys : Len(toMerge'[k]) <= 1
    BY <1>2
  <2> QED
    BY <1>1, <2>1 DEF DictInv, SingleInv
<1>5. NewestInv'
  <2>1. ASSUME NEW k \in Keys, NEW v \in Stored \union {Absent}, BehindSays(k, v)
        PROVE  BehindSays(k, v)'
    <3>1. CASE v # Absent /\ toMerge[k] = << v >>
      <4> DEFINE x == Len(levels[1])
      <4>1. levels # << >> /\ levels[1] # << >> /\ levels[1][x] = toMerge
        BY <1>1 DEF DictInv, AddedInv, LastRun
      <4>2. 1 \in DOMAIN levels /\ levels[1] \in Seq(DiskRuns)
        <5>1. Len(levels) \in Nat /\ Len(levels) # 0 /\ DOMAIN levels = 1..Len(levels)
          BY <1>1, <4>1, EmptySeq, LenProperties
        <5> QED
          BY <1>1, <5>1
      <4>3. x \in DOMAIN levels[1] /\ \A s \in DOMAIN levels[1] : ~(s > x)
        <5>1. x \in Nat /\ x # 0 /\ DOMAIN levels[1] = 1..x
          BY <4>1, <4>2, EmptySeq, LenProperties
        <5> QED
          BY <5>1
      <4>4. << v >> # << >>
        OBVIOUS
      <4> HIDE DEF x
      <4>5. FirstOnDisk(levels, k, 1, x) /\ levels[1][x][k] = << v >>
        BY <3>1, <4>1, <4>3, <4>4 DEF FirstOnDisk
      <4>6. DiskSays(levels, k, v)
        BY <3>1, <4>2, <4>3, <4>5 DEF DiskSays
      <4> QED
        BY <1>1, <1>2, <4>6 DEF BehindSays
    <3>2. CASE toMerge[k] = << >> /\ DiskSays(levels, k, v)
      BY <1>1, <1>2, <3>2 DEF BehindSays
    <3> QED
      BY <1>1, <2>1, <3>1, <3>2 DEF BehindSays
  <2> QED
    BY <1>1, <2>1, NewestFromBehind DEF DictInv
<1> QED
  BY <1>3, <1>4, <1>5 DEF DictInv

----------------------------------------------------------------------------
(* The steps of the client *)

\* Steps that write nothing; some of them find the merge thread done.
LEMMA ReaderFrame ==
  ASSUME DictInv, UNCHANGED <<C_0, levels, runsToMerge, collected, toMerge, depth, latest>>,
         mtPC' = mtPC \/ (mtPC \in {"idle", "done"} /\ mtPC' = "idle"),
         pc' # "destroyed" => pc # "destroyed",
         pc' = "insert_join" => (RewriteBuffered \/ \A i \in DOMAIN C_0 : C_0[i].elts[arg'.key] = Absent)
  PROVE  DictInv'
<1>1. NewestInv'
  <2>1. \A k \in Keys, v \in Stored \union {Absent} : Newest(k, v) => Newest(k, v)'
    BY DEF Newest, BehindSays
  <2> QED
    BY <2>1 DEF DictInv, NewestInv
<1>2. (SingleInv /\ OnceInv /\ PendingInv)'
  BY DEF DictInv, SingleInv, OnceInv, PendingInv
<1>3. (CollectedInv /\ IdleInv /\ MergedInv /\ AddedInv)'
  BY DEF DictInv, CollectedInv, IdleInv, MergedInv, AddedInv, LastRun
<1> QED
  BY <1>1, <1>2, <1>3 DEF DictInv

\* The entry the client writes is the newest one of its key; those of the other keys stay.
LEMMA NewestAfterWrite ==
  ASSUME NEW runs \in Seq(SkipRuns), NEW a \in 1..Len(runs), NEW k \in Keys, NEW v \in Stored,
         \A i \in 1..Len(runs) : i > a => \A q \in Keys : runs[i].elts[q] = Absent,
         C_0' = WriteTo(runs, a, k, v), latest \in [Keys -> Values \union {Absent}],
         latest' = [latest EXCEPT ![k] = Visible(v)],
         \A q \in Keys \ {k} : \E w \in Stored \union {Absent} :
           /\ Visible(w) = latest[q]
           /\ \/ w # Absent /\ BufferSays(runs, q, w)
              \/ BufferSays(runs, q, Absent) /\ BehindSays(q, w)'
  PROVE  NewestInv'
<1>1. /\ BufferSays(C_0', k, v)
      /\ \A q \in Keys \ {k} : \A w : BufferSays(runs, q, w) => BufferSays(C_0', q, w)
  BY SaysAfterWrite
<1>2. ASSUME NEW q \in Keys
      PROVE  \E w \in Stored \union {Absent} : Visible(w) = latest'[q] /\ Newest(q, w)'
  <2>1. CASE q = k
    <3>1. Newest(k, v)' /\ Visible(v) = latest'[k]
      BY <1>1, Facts DEF Newest
    <3> QED
      BY <2>1, <3>1
  <2>2. CASE q # k
    <3>1. PICK w \in Stored \union {Absent} :
                 /\ Visible(w) = latest[q]
                 /\ \/ w # Absent /\ BufferSays(runs, q, w)
                    \/ BufferSays(runs, q, Absent) /\ BehindSays(q, w)'
      BY <2>2
    <3>2. Newest(q, w)'
      BY <1>1, <2>2, <3>1 DEF Newest
    <3>3. latest'[q] = latest[q]
      BY <2>2
    <3> QED
      BY <3>1, <3>2, <3>3
  <2> QED
    BY <2>1, <2>2
<1> QED
  BY <1>2 DEF NewestInv

\* An insertion with room.
LEMMA InsertDict == ASSUME Inv, DictInv, NEW k \in Keys, NEW v \in Stored, Insert(k, v) PROVE DictInv'
<1>1. /\ C_0 \in Seq(SkipRuns) /\ Len(C_0) = NumRuns /\ DOMAIN C_0 = 1..NumRuns
      /\ \A i \in 1..NumRuns : CountedRun(C_0[i])
      /\ pc = "ready" /\ NextRun \in 1..NumRuns /\ latest \in [Keys -> Values \union {Absent}]
  BY InsertShape, CountedBuffer, LenProperties DEF Inv, TypeOK
<1>2. \A i \in 1..NumRuns : i > NextRun => C_0[i].n = 0
  BY InsertShape
<1>3. \A i \in 1..NumRuns : i > NextRun => \A q \in Keys : C_0[i].elts[q] = Absent
  BY <1>1, <1>2, EmptyRunHolds
<1>4. /\ C_0' = WriteTo(C_0, NextRun, k, v) /\ latest' = [latest EXCEPT ![k] = Visible(v)]
      /\ pc' = "ready" /\ UNCHANGED <<levels, mtPC, runsToMerge, collected, toMerge, depth>>
      /\ RewriteBuffered \/ \A i \in DOMAIN C_0 : C_0[i].elts[k] = Absent
  BY <1>1, InsertShape DEF Insert, mergeVars, MayWrite
<1>5. NewestInv'
  <2>1. ASSUME NEW q \in Keys \ {k}
        PROVE  \E w \in Stored \union {Absent} :
                 /\ Visible(w) = latest[q]
                 /\ \/ w # Absent /\ BufferSays(C_0, q, w)
                    \/ BufferSays(C_0, q, Absent) /\ BehindSays(q, w)'
    <3>1. PICK w \in Stored \union {Absent} : Visible(w) = latest[q] /\ Newest(q, w)
      BY <1>1 DEF DictInv, NewestInv
    <3>2. BehindSays(q, w) => BehindSays(q, w)'
      BY <1>4 DEF BehindSays
    <3> QED
      BY <3>1, <3>2 DEF Newest
  <2> QED
    BY <1>1, <1>3, <1>4, <2>1, NewestAfterWrite
<1>6. OnceInv'
  <2>1. RewriteBuffered \/ Once(C_0')
    BY <1>1, <1>4, OnceAfterWrite DEF DictInv, OnceInv
  <2> QED
    BY <1>4, <2>1 DEF DictInv, OnceInv
<1>7. (SingleInv /\ PendingInv /\ CollectedInv /\ IdleInv /\ MergedInv /\ AddedInv)'
  BY <1>4 DEF DictInv, SingleInv, PendingInv, CollectedInv, IdleInv, MergedInv, AddedInv, LastRun
<1> QED
  BY <1>5, <1>6, <1>7 DEF DictInv

\* do_merge hands the oldest runs to the merge thread, which takes them for older than the
\* rest of the buffer and newer than the disk.
LEMMA DoMergeDict == ASSUME OneEntryPerKey, Inv, DictInv, DoMerge PROVE DictInv'
<1> DEFINE a    == NumRuns + 1 - NumToMerge
           runs == Renew(C_0, NumToMerge, NumToMerge, EmptyRun)
           merged == SubSeq(C_0, 1, NumToMerge)
           k == arg.key
           v == arg.value
<1>1. /\ pc = "insert_join" /\ mtPC \in {"idle", "done"} /\ k \in Keys /\ v \in Stored
      /\ NumRuns \in Nat /\ NumToMerge \in 1..NumRuns /\ a \in 1..NumRuns
  BY DoMergeShape
<1>2. runs \in Seq(SkipRuns) /\ Len(runs) = NumRuns
  BY DoMergeShape
<1>3. \A i \in 1..NumRuns - NumToMerge : runs[i] = C_0[i + NumToMerge]
  BY DoMergeShape
<1>4. \A i \in NumRuns - NumToMerge + 1..NumRuns : runs[i] = EmptyRun
  BY DoMergeShape
<1>5. C_0' = WriteTo(runs, a, k, v) /\ latest' = [latest EXCEPT ![k] = Visible(v)]
  BY DoMergeShape
<1>6. /\ mtPC' = "collect" /\ pc' = "ready" /\ runsToMerge' = merged
      /\ UNCHANGED <<levels, collected, toMerge, depth>>
  BY DEF DoMerge
<1>7. /\ C_0 \in Seq(SkipRuns) /\ Len(C_0) = NumRuns /\ DOMAIN C_0 = 1..NumRuns
      /\ latest \in [Keys -> Values \union {Absent}] /\ pc # "destroyed"
      /\ collected = 0
  BY <1>1, CountedBuffer, LenProperties DEF Inv, TypeOK, ShapeInv, MergeShape
<1>8. DOMAIN merged = 1..NumToMerge /\ \A i \in 1..NumToMerge : merged[i] = C_0[i] /\ i \in 1..NumRuns
  BY <1>1, <1>7
<1>9. DOMAIN runs = 1..NumRuns
  BY <1>2, LenProperties
<1> HIDE DEF runs, merged
<1>10. \A i \in 1..NumRuns : i > a => i \in NumRuns - NumToMerge + 1..NumRuns
  BY <1>1
<1> HIDE DEF a, k, v
<1>11. \A i \in 1..Len(runs) : i > a => \A q \in Keys : runs[i].elts[q] = Absent
  BY <1>2, <1>4, <1>10 DEF EmptyRun
<1>12. \A q \in Keys : toMerge[q] = << >>
  BY <1>1 DEF DictInv, IdleInv
<1>13. NewestInv'
  <2>1. ASSUME NEW q \in Keys \ {k}
        PROVE  \E w \in Stored \union {Absent} :
                 /\ Visible(w) = latest[q]
                 /\ \/ w # Absent /\ BufferSays(runs, q, w)
                    \/ BufferSays(runs, q, Absent) /\ BehindSays(q, w)'
    <3>1. PICK w \in Stored \union {Absent} : Visible(w) = latest[q] /\ Newest(q, w)
      BY <1>7 DEF DictInv, NewestInv
    <3>2. ASSUME NEW u, BufferSays(C_0, q, u)
          PROVE  \/ u # Absent /\ BufferSays(runs, q, u)
                 \/ BufferSays(runs, q, Absent) /\ BufferSays(merged, q, u)
      BY <1>1, <1>3, <1>4, <1>7, <1>8, <1>9, <3>2, SaysAfterRenew
    <3>3. CASE w # Absent /\ BufferSays(C_0, q, w)
      <4>1. BufferSays(merged, q, w) => BehindSays(q, w)'
        BY <1>6, <3>3 DEF BehindSays
      <4> QED
        BY <3>1, <3>2, <3>3, <4>1
    <3>4. CASE BufferSays(C_0, q, Absent) /\ BehindSays(q, w)
      <4>1. BufferSays(runs, q, Absent) /\ BufferSays(merged, q, Absent)
        BY <3>2, <3>4
      <4>2. toMerge[q] = << >> /\ << w >> # << >>
        BY <1>12
      <4>3. DiskSays(levels, q, w)
        BY <1>1, <3>4, <4>2 DEF BehindSays
      <4>4. BehindSays(q, w)'
        BY <1>6, <4>1, <4>2, <4>3 DEF BehindSays
      <4> QED
        BY <3>1, <4>1, <4>4
    <3> QED
      BY <3>1, <3>3, <3>4 DEF Newest
  <2> QED
    BY <1>1, <1>2, <1>5, <1>7, <1>11, <2>1, NewestAfterWrite
<1>14. OnceInv'
  <2>1. CASE RewriteBuffered
    <3>1. NumToMerge = 1
      BY <2>1 DEF OneEntryPerKey
    <3>2. \A i, j \in DOMAIN merged : i = j
      BY <1>8, <3>1
    <3> QED
      BY <1>6, <2>1, <3>2 DEF OnceInv, Once
  <2>2. CASE ~RewriteBuffered
    <3>1. Once(C_0) /\ \A i \in DOMAIN C_0 : C_0[i].elts[k] = Absent
      BY <1>1, <2>2 DEF DictInv, OnceInv, PendingInv, k
    <3>2. Once(merged)
      BY <1>7, <1>8, <3>1 DEF Once
    <3>3. ASSUME NEW i \in DOMAIN runs
          PROVE  \/ i + NumToMerge \in DOMAIN C_0 /\ runs[i] = C_0[i + NumToMerge]
                 \/ \A q \in Keys : runs[i].elts[q] = Absent
      <4>1. CASE i \in 1..NumRuns - NumToMerge
        <5>1. i + NumToMerge \in 1..NumRuns
          BY <1>1, <4>1
        <5> QED
          BY <1>3, <1>7, <4>1, <5>1
      <4>2. CASE i \notin 1..NumRuns - NumToMerge
        <5>1. i \in NumRuns - NumToMerge + 1..NumRuns
          BY <1>1, <1>9, <4>2
        <5> QED
          BY <1>4, <5>1 DEF EmptyRun
      <4> QED
        BY <4>1, <4>2
    <3>4. Once(runs)
      <4>1. ASSUME NEW i \in DOMAIN runs, NEW j \in DOMAIN runs, NEW q \in Keys,
                   runs[i].elts[q] # Absent, runs[j].elts[q] # Absent
            PROVE  i = j
        <5>1. i + NumToMerge = j + NumToMerge
          BY <3>1, <3>3, <4>1 DEF Once
        <5> QED
          BY <1>1, <1>9, <5>1
      <4> QED
        BY <4>1 DEF Once
    <3>5. \A i \in DOMAIN runs : runs[i].elts[k] = Absent
      BY <1>1, <3>1, <3>3
    <3>6. Once(C_0')
      BY <1>1, <1>2, <1>5, <3>4, <3>5, OnceAfterWrite
    <3> QED
      BY <1>6, <3>2, <3>6 DEF OnceInv
  <2> QED
    BY <2>1, <2>2
<1>15. CollectedInv'
  <2>1. \A i \in 1..collected : FALSE
    BY <1>7
  <2> QED
    BY <1>6, <1>12, <2>1 DEF CollectedInv
<1>16. (SingleInv /\ PendingInv /\ IdleInv /\ MergedInv /\ AddedInv)'
  BY <1>6 DEF DictInv, SingleInv, PendingInv, IdleInv, MergedInv, AddedInv
<1> QED
  BY <1>13, <1>14, <1>15, <1>16 DEF DictInv

\* The tree is gone.
LEMMA DestroyedDict == ASSUME DictInv, Destroyed PROVE DictInv'
<1>1. /\ pc' = "destroyed" /\ mtPC \in {"idle", "done"} /\ mtPC' = "idle"
      /\ C_0' = << >> /\ levels' = << >> /\ toMerge' = toMerge
  BY DEF Destroyed, Joined
<1>2. SingleInv'
  BY <1>1 DEF DictInv, SingleInv
<1>3. OnceInv'
  BY <1>1 DEF OnceInv, Once
<1>4. (NewestInv /\ PendingInv /\ CollectedInv /\ IdleInv /\ MergedInv /\ AddedInv)'
  BY <1>1 DEF DictInv, NewestInv, PendingInv, CollectedInv, IdleInv, MergedInv, AddedInv
<1> QED
  BY <1>2, <1>3, <1>4 DEF DictInv

\* A tree just constructed.
LEMMA DictInit == Init => DictInv
<1> SUFFICES ASSUME Init PROVE DictInv
  OBVIOUS
<1>1. /\ DOMAIN C_0 = 1..NumRuns /\ \A i \in 1..NumRuns : C_0[i] = EmptyRun
      /\ levels = << << >> >> /\ mtPC = "idle" /\ toMerge = EmptyArray /\ pc = "ready"
      /\ latest = [k \in Keys |-> Absent]
  BY DEF Init, NewLevel
<1>2. /\ \A k \in Keys, i \in DOMAIN C_0 : C_0[i].elts[k] = Absent
      /\ \A k \in Keys : toMerge[k] = << >>
      /\ \A l \in DOMAIN levels : DOMAIN levels[l] = {}
  BY <1>1 DEF EmptyRun, EmptyArray
<1>3. NewestInv
  <2>1. ASSUME NEW k \in Keys PROVE Visible(Absent) = latest[k] /\ Newest(k, Absent)
    <3>1. BufferSays(C_0, k, Absent) /\ DiskSays(levels, k, Absent)
      BY <1>2 DEF BufferSays, DiskSays
    <3>2. Visible(Absent) = Absent /\ latest[k] = Absent
      BY <1>1, Facts DEF Visible
    <3> QED
      BY <1>1, <1>2, <3>1, <3>2 DEF Newest, BehindSays
  <2> QED
    BY <2>1 DEF NewestInv
<1>4. SingleInv
  <2>1. \A k \in Keys : Len(toMerge[k]) <= 1
    BY <1>2
  <2> QED
    BY <1>2, <2>1 DEF SingleInv
<1>5. OnceInv
  BY <1>1, <1>2 DEF OnceInv, Once
<1>6. PendingInv /\ CollectedInv /\ IdleInv /\ MergedInv /\ AddedInv
  BY <1>1, <1>2 DEF PendingInv, CollectedInv, IdleInv, MergedInv, AddedInv
<1> QED
  BY <1>3, <1>4, <1>5, <1>6 DEF DictInv

\* Every step keeps the newest entries: one case for each action.
LEMMA DictNext == ASSUME OneEntryPerKey, Inv, DictInv, [Next]_vars PROVE DictInv'
<1>1. CASE Call
  <2>1. ASSUME NEW k \in Keys, NEW v \in Stored, InsertFull(k, v) PROVE DictInv'
    BY <2>1, ReaderFrame DEF InsertFull, MayWrite, mergeVars
  <2>2. ASSUME NEW k \in Keys, LookupBuffer(k) \/ LookupMiss(k) PROVE DictInv'
    BY <2>2, ReaderFrame DEF LookupBuffer, LookupMiss, bufferVars, mergeVars
  <2>3. ASSUME NEW lo \in Bounds, NEW hi \in Bounds, RangeNone(lo, hi) \/ RangeBuffer(lo, hi)
        PROVE  DictInv'
    BY <2>3, ReaderFrame DEF RangeNone, RangeBuffer, bufferVars, mergeVars
  <2>4. ASSUME Report \/ Destroy PROVE DictInv'
    BY <2>4, ReaderFrame DEF Report, Destroy, bufferVars, mergeVars
  <2> QED
    BY <1>1, <2>1, <2>2, <2>3, <2>4, InsertDict DEF Call
<1>2. CASE Resume
  <2>1. ASSUME LookupDisk PROVE DictInv'
    BY <2>1, ReaderFrame DEF LookupDisk, bufferVars, Joined
  <2>2. ASSUME RangeDisk PROVE DictInv'
    BY <2>2, ReaderFrame DEF RangeDisk, bufferVars, Joined
  <2>3. ASSUME ReportJoined PROVE DictInv'
    BY <2>3, ReaderFrame DEF ReportJoined, bufferVars, Joined
  <2> QED
    BY <1>2, <2>1, <2>2, <2>3, DoMergeDict, DestroyedDict DEF Resume
<1>3. CASE MergeThread
  BY <1>3, CollectDict, SortDict, LockDict, DescendDict, AddRunsDict, FreeDict, AddDict, UnlockDict
     DEF MergeThread
<1>4. CASE Gone \/ UNCHANGED vars
  <2>1. UNCHANGED vars
    BY <1>4 DEF Gone
  <2>2. pc' = "insert_join" => (RewriteBuffered \/ \A i \in DOMAIN C_0 : C_0[i].elts[arg'.key] = Absent)
    BY <2>1 DEF vars, clientVars, DictInv, PendingInv
  <2> QED
    BY <2>1, <2>2, ReaderFrame DEF vars, bufferVars, mergeVars, clientVars
<1> QED
  BY <1>1, <1>2, <1>3, <1>4 DEF Next

----------------------------------------------------------------------------
(* The tests before the search of a buffer run, and the calls that wait *)

\* A skip list as its constructor leaves it, whatever its filter.
LEMMA EmptyRunBounded == ASSUME NEW bits PROVE Bounded(EmptyRun, bits)
  BY DEF Bounded, EmptyRun

\* SkipList::insert_key keeps the bounds, and BloomFilter::add the bits, up to date.
LEMMA BoundedAfterWrite ==
  ASSUME NEW run \in SkipRuns, NEW bits, Bounded(run, bits), NEW k \in Keys, NEW v
  PROVE  Bounded(SkipInsert(run, k, v), bits \union FilterBits[k])
<1> DEFINE new == SkipInsert(run, k, v)
<1>1. /\ run.min \in Int /\ run.max \in Int /\ run.elts \in [Keys -> Stored \union {Absent}]
      /\ k \in Int /\ Keys \subseteq Int
  BY Facts DEF SkipRuns
<1>2. /\ new.elts = [run.elts EXCEPT ![k] = v]
      /\ new.min = IF k <= run.max /\ k < run.min THEN k ELSE run.min
      /\ new.max = IF k > run.max THEN k ELSE run.max
  BY DEF SkipInsert
<1> HIDE DEF new
<1>3. run.min <= run.max /\ new.min \in Int /\ new.max \in Int
  BY <1>1, <1>2 DEF Bounded
<1>4. new.min <= run.min /\ run.max <= new.max /\ new.min <= k /\ k <= new.max /\ new.min <= new.max
  BY <1>1, <1>2, <1>3
<1>5. ASSUME NEW q \in Keys, new.elts[q] # Absent
      PROVE  new.min <= q /\ q <= new.max /\ FilterBits[q] \subseteq bits \union FilterBits[k]
  <2>1. CASE q = k
    BY <1>4, <2>1
  <2>2. CASE q # k
    <3>1. run.elts[q] # Absent
      BY <1>1, <1>2, <1>5, <2>2
    <3>2. run.min <= q /\ q <= run.max /\ FilterBits[q] \subseteq bits /\ q \in Int
      BY <1>1, <3>1 DEF Bounded
    <3>3. new.min <= q /\ q <= new.max
      BY <1>1, <1>3, <1>4, <3>2
    <3> QED
      BY <3>2, <3>3
  <2> QED
    BY <2>1, <2>2
<1> QED
  BY <1>4, <1>5 DEF Bounded, new

\* A write to the buffer keeps the bounds of every run.
LEMMA BoundsAfterWrite ==
  ASSUME NEW runs \in Seq(SkipRuns), NEW bits \in Seq(SUBSET Nat), Len(bits) = Len(runs),
         NEW a \in 1..Len(runs), NEW k \in Keys, NEW v,
         \A i \in 1..Len(runs) : Bounded(runs[i], bits[i]),
         C_0' = WriteTo(runs, a, k, v), filters' = [bits EXCEPT ![a] = @ \union FilterBits[k]]
  PROVE  BoundsInv'
<1>1. /\ DOMAIN C_0' = 1..Len(runs) /\ \A i \in 1..Len(runs) : i # a => C_0'[i] = runs[i]
      /\ C_0'[a] = SkipInsert(runs[a], k, v) /\ runs[a] \in SkipRuns
  BY EltsAfterWrite, LenProperties
<1>2. filters'[a] = bits[a] \union FilterBits[k] /\ \A i \in 1..Len(runs) : i # a => filters'[i] = bits[i]
  BY LenProperties
<1>3. Bounded(C_0'[a], filters'[a])
  BY <1>1, <1>2, BoundedAfterWrite
<1>4. \A i \in 1..Len(runs) : Bounded(C_0'[i], filters'[i])
  BY <1>1, <1>2, <1>3
<1> QED
  BY <1>1, <1>4 DEF BoundsInv

\* Every step keeps the bounds; the client's writes are the only ones that change them.
LEMMA BoundsNext == ASSUME Inv, BoundsInv, [Next]_vars PROVE BoundsInv'
<1>1. ASSUME UNCHANGED <<C_0, filters>> PROVE BoundsInv'
  BY <1>1 DEF BoundsInv
<1>2. ASSUME NEW k \in Keys, NEW v \in Stored, Insert(k, v) PROVE BoundsInv'
  <2>1. NextRun \in 1..NumRuns /\ C_0' = WriteTo(C_0, NextRun, k, v)
    BY <1>2, InsertShape
  <2>2. filters' = [filters EXCEPT ![NextRun] = @ \union FilterBits[k]]
    BY <1>2, InsertShape
  <2>3. /\ C_0 \in Seq(SkipRuns) /\ Len(C_0) = NumRuns /\ DOMAIN C_0 = 1..NumRuns
        /\ filters \in Seq(SUBSET Nat) /\ Len(filters) = NumRuns
    BY <1>2, CountedBuffer, LenProperties DEF Insert
  <2>4. \A i \in 1..Len(C_0) : Bounded(C_0[i], filters[i])
    BY <2>3 DEF BoundsInv
  <2> QED
    BY <2>1, <2>2, <2>3, <2>4, BoundsAfterWrite
<1>3. ASSUME DoMerge PROVE BoundsInv'
  <2> DEFINE a    == NumRuns + 1 - NumToMerge
             runs == Renew(C_0, NumToMerge, NumToMerge, EmptyRun)
             bits == Renew(filters, NumToMerge, NumToMerge, {})
  <2>1. /\ NumRuns \in Nat /\ NumToMerge \in 1..NumRuns /\ a \in 1..NumRuns /\ pc = "insert_join"
        /\ arg.key \in Keys
    BY <1>3, DoMergeShape
  <2>2. runs \in Seq(SkipRuns) /\ Len(runs) = NumRuns
    BY <1>3, DoMergeShape
  <2>3. \A i \in 1..NumRuns - NumToMerge : runs[i] = C_0[i + NumToMerge]
    BY <1>3, DoMergeShape
  <2>4. \A i \in NumRuns - NumToMerge + 1..NumRuns : runs[i] = EmptyRun
    BY <1>3, DoMergeShape
  <2>5. bits \in Seq(SUBSET Nat) /\ Len(bits) = NumRuns
    BY <1>3, DoMergeShape
  <2>6. \A i \in 1..NumRuns - NumToMerge : bits[i] = filters[i + NumToMerge]
    BY <1>3, DoMergeShape
  <2>7. C_0' = WriteTo(runs, a, arg.key, arg.value)
    BY <1>3, DoMergeShape
  <2>8. filters' = [bits EXCEPT ![a] = @ \union FilterBits[arg.key]]
    BY <1>3, DoMergeShape
  <2>9. DOMAIN C_0 = 1..NumRuns
    BY <2>1, CountedBuffer, LenProperties
  <2> HIDE DEF runs, bits
  <2>10. ASSUME NEW i \in 1..NumRuns PROVE Bounded(runs[i], bits[i])
    <3>1. CASE i \in 1..NumRuns - NumToMerge
      <4>1. i + NumToMerge \in DOMAIN C_0
        BY <2>1, <2>9, <3>1
      <4> QED
        BY <2>3, <2>6, <3>1, <4>1 DEF BoundsInv
    <3>2. CASE i \notin 1..NumRuns - NumToMerge
      <4>1. i \in NumRuns - NumToMerge + 1..NumRuns
        BY <2>1, <3>2
      <4> QED
        BY <2>4, <4>1, EmptyRunBounded
    <3> QED
      BY <3>1, <3>2
  <2> HIDE DEF a
  <2> QED
    BY <2>1, <2>2, <2>5, <2>7, <2>8, <2>10, BoundsAfterWrite
<1>4. CASE Call
  <2>1. ASSUME NEW k \in Keys, NEW v \in Stored, InsertFull(k, v) PROVE BoundsInv'
    BY <1>1, <2>1 DEF InsertFull
  <2>2. ASSUME NEW k \in Keys, LookupBuffer(k) \/ LookupMiss(k) PROVE BoundsInv'
    BY <1>1, <2>2 DEF LookupBuffer, LookupMiss, bufferVars
  <2>3. ASSUME NEW lo \in Bounds, NEW hi \in Bounds, RangeNone(lo, hi) \/ RangeBuffer(lo, hi)
        PROVE  BoundsInv'
    BY <1>1, <2>3 DEF RangeNone, RangeBuffer, bufferVars
  <2>4. ASSUME Report \/ Destroy PROVE BoundsInv'
    BY <1>1, <2>4 DEF Report, Destroy, bufferVars
  <2> QED
    BY <1>2, <1>4, <2>1, <2>2, <2>3, <2>4 DEF Call
<1>5. CASE Resume
  <2>1. ASSUME LookupDisk \/ RangeDisk \/ ReportJoined PROVE BoundsInv'
    BY <1>1, <2>1 DEF LookupDisk, RangeDisk, ReportJoined, bufferVars
  <2>2. ASSUME Destroyed PROVE BoundsInv'
    BY <2>2 DEF Destroyed, BoundsInv
  <2> QED
    BY <1>3, <1>5, <2>1, <2>2 DEF Resume
<1>6. CASE MergeThread
  BY <1>1, <1>6 DEF MergeThread, Collect, Sort, Lock, Descend, AddRuns, Free, Add, Unlock, bufferVars
<1>7. CASE Gone \/ UNCHANGED vars
  BY <1>1, <1>7 DEF Gone, vars, bufferVars
<1> QED
  BY <1>4, <1>5, <1>6, <1>7 DEF Next

\* The bounds of a tree just constructed.
LEMMA BoundsInit == Init => BoundsInv
  BY EmptyRunBounded DEF Init, BoundsInv

\* Steps of the merge thread leave what the client waits with.
LEMMA WaitFrame == ASSUME WaitInv, UNCHANGED <<bufferVars, clientVars>> PROVE WaitInv'
<1>1. \A k, lo, hi : BufferEntries(k, lo, hi)' = BufferEntries(k, lo, hi)
  BY DEF BufferEntries, bufferVars
<1> QED
  BY <1>1 DEF WaitInv, bufferVars, clientVars

\* While a call waits for the merge thread the buffer stays as the call has found it.
LEMMA WaitNext == ASSUME Inv, BoundsInv, DictInv, WaitInv, [Next]_vars PROVE WaitInv'
<1>1. ASSUME pc' \notin {"lookup_join", "range_join"}, pc' # "ready" => ret' = NoRet PROVE WaitInv'
  BY <1>1 DEF WaitInv
<1>2. ASSUME NEW k \in Keys, LookupMiss(k) PROVE WaitInv'
  <2>1. PICK v \in Stored \union {Absent} : Newest(k, v)
    BY <1>2 DEF DictInv, NewestInv, LookupMiss
  <2>2. BufferSays(C_0, k, Absent)
    BY <1>2, <2>1, BufferHitsAre DEF Newest, LookupMiss
  <2>3. /\ pc' = "lookup_join" /\ ret' = NoRet /\ arg'.key = k /\ UNCHANGED C_0
    BY <1>2 DEF LookupMiss, bufferVars
  <2> QED
    BY <2>2, <2>3 DEF WaitInv
<1>3. ASSUME NEW lo \in Bounds, NEW hi \in Bounds, RangeBuffer(lo, hi) PROVE WaitInv'
  <2>1. /\ pc' = "range_join" /\ ret' = NoRet /\ lo < hi /\ arg'.from = lo /\ arg'.to = hi
        /\ arg'.found = [k \in Keys |-> BufferEntries(k, lo, hi)] /\ UNCHANGED bufferVars
    BY <1>3 DEF RangeBuffer
  <2>2. \A k : BufferEntries(k, lo, hi)' = BufferEntries(k, lo, hi)
    BY <2>1 DEF BufferEntries, bufferVars
  <2> QED
    BY <2>1, <2>2 DEF WaitInv
<1>4. CASE Call
  <2>1. ASSUME NEW k \in Keys, NEW v \in Stored, Insert(k, v) \/ InsertFull(k, v) PROVE WaitInv'
    BY <1>1, <2>1 DEF Insert, InsertFull
  <2>2. ASSUME NEW k \in Keys, LookupBuffer(k) PROVE WaitInv'
    BY <1>1, <2>2 DEF LookupBuffer
  <2>3. ASSUME Report \/ Destroy PROVE WaitInv'
    BY <1>1, <2>3 DEF Report, Destroy
  <2>4. ASSUME NEW lo \in Bounds, NEW hi \in Bounds, RangeNone(lo, hi) PROVE WaitInv'
    BY <1>1, <2>4 DEF RangeNone
  <2> QED
    BY <1>2, <1>3, <1>4, <2>1, <2>2, <2>3, <2>4 DEF Call
<1>5. CASE Resume
  <2>1. pc # "ready" => ret = NoRet
    BY DEF WaitInv
  <2> QED
    BY <1>1, <1>5, <2>1 DEF Resume, DoMerge, LookupDisk, RangeDisk, ReportJoined, Destroyed
<1>6. CASE MergeThread
  BY <1>6, WaitFrame DEF MergeThread, Collect, Sort, Lock, Descend, AddRuns, Free, Add, Unlock
<1>7. CASE Gone \/ UNCHANGED vars
  BY <1>7, WaitFrame DEF Gone, vars
<1> QED
  BY <1>4, <1>5, <1>6, <1>7 DEF Next

\* No call waits before the first one.
LEMMA WaitInit == Init => WaitInv
  BY DEF Init, WaitInv

----------------------------------------------------------------------------
(* What the invariant says *)

\* The newest of some buffer runs is the one BufferSays names.
LEMMA BufferNewestIs ==
  ASSUME NEW runs \in Seq(SkipRuns), NEW k \in Keys, NEW v, BufferSays(runs, k, v)
  PROVE  BufferNewest(runs, k) = v
<1> DEFINE holders == {i \in DOMAIN runs : runs[i].elts[k] # Absent}
<1>1. DOMAIN runs = 1..Len(runs) /\ Len(runs) \in Nat
  BY LenProperties
<1>2. BufferNewest(runs, k) = IF holders = {} THEN Absent ELSE runs[Max(holders)].elts[k]
  BY DEF BufferNewest
<1>3. CASE v = Absent
  BY <1>2, <1>3 DEF BufferSays
<1>4. CASE v # Absent
  <2>1. PICK x \in DOMAIN runs :
               runs[x].elts[k] = v /\ \A j \in DOMAIN runs : j > x => runs[j].elts[k] = Absent
    BY <1>4 DEF BufferSays
  <2>2. x \in holders /\ holders \in SUBSET (1..Len(runs))
    BY <1>1, <1>4, <2>1
  <2>3. Max(holders) \in holders /\ x <= Max(holders)
    BY <1>1, <2>2, MaxOfIndices
  <2>4. Max(holders) = x
    BY <1>1, <2>1, <2>2, <2>3
  <2> QED
    BY <1>2, <2>1, <2>2, <2>4
<1> QED
  BY <1>3, <1>4

\* A search that goes from the newest entry to the oldest meets the one the client
\* expects.
LEMMA NewestSurvivesNow ==
  ASSUME IntMin \notin Keys, Inv, DictInv
  PROVE  NewestSurvives
<1> SUFFICES ASSUME pc # "destroyed", NEW k \in Keys
             PROVE  {Visible(v) : v \in Surviving(k)} = {latest[k]}
  BY DEF NewestSurvives
<1>1. PICK v \in Stored \union {Absent} : Visible(v) = latest[k] /\ Newest(k, v)
  BY DEF DictInv, NewestInv
<1>2. SUFFICES Surviving(k) = {v}
  BY <1>1
<1>3. C_0 \in Seq(SkipRuns) /\ runsToMerge \in Seq(SkipRuns) /\ levels \in Seq(Seq(DiskRuns))
  BY DEF Inv, TypeOK
<1>4. CASE v # Absent /\ BufferSays(C_0, k, v)
  <2>1. BufferNewest(C_0, k) = v
    BY <1>3, <1>4, BufferNewestIs
  <2> QED
    BY <1>4, <2>1 DEF Surviving
<1>5. CASE BufferSays(C_0, k, Absent) /\ BehindSays(k, v)
  <2>1. BufferNewest(C_0, k) = Absent
    BY <1>3, <1>5, BufferNewestIs
  <2>2. CASE mtPC = "collect" /\ v # Absent /\ BufferSays(runsToMerge, k, v)
    <3>1. BufferNewest(runsToMerge, k) = v
      BY <1>3, <2>2, BufferNewestIs
    <3> QED
      BY <2>1, <2>2, <3>1 DEF Surviving
  <2>3. CASE /\ mtPC = "collect" => BufferSays(runsToMerge, k, Absent)
             /\ v # Absent /\ toMerge[k] = << v >>
    <3>1. mtPC = "collect" => BufferNewest(runsToMerge, k) = Absent
      BY <1>3, <2>3, BufferNewestIs
    <3>2. ToSet(<< v >>) = {v} /\ << v >> # << >>
      BY DEF ToSet
    <3> QED
      BY <2>1, <2>3, <3>1, <3>2 DEF Surviving
  <2>4. CASE /\ mtPC = "collect" => BufferSays(runsToMerge, k, Absent)
             /\ toMerge[k] = << >> /\ DiskSays(levels, k, v)
    <3>1. mtPC = "collect" => BufferNewest(runsToMerge, k) = Absent
      BY <1>3, <2>4, BufferNewestIs
    <3>2. SearchOrder(levels) \in Seq(DiskRuns) /\ FirstSays(SearchOrder(levels), k, v)
      BY <1>3, <2>4, SearchOrderSays
    <3>3. Answers(SearchOrder(levels), k) = {v}
      BY <3>2, AnswersAre
    <3> QED
      BY <2>1, <2>4, <3>1, <3>3 DEF Surviving
  <2> QED
    BY <1>5, <2>2, <2>3, <2>4 DEF BehindSays
<1> QED
  BY <1>1, <1>4, <1>5 DEF Newest

\* While no merge goes on, what is behind the buffer is on disk.
LEMMA DiskSaysNow ==
  ASSUME DictInv, Joined, NEW k \in Keys, NEW v, BehindSays(k, v)
  PROVE  DiskSays(levels, k, v)
<1>1. toMerge[k] = << >> /\ mtPC # "collect"
  BY DEF DictInv, IdleInv, Joined
<1>2. << v >> # << >>
  OBVIOUS
<1> QED
  BY <1>1, <1>2 DEF BehindSays

----------------------------------------------------------------------------
(* The refinement of KVStore: what each step of the tree is to its client *)

\* lookup that ends in the buffer.
LEMMA LookupBufferGet ==
  ASSUME Inv, BoundsInv, DictInv, NEW k \in Keys, LookupBuffer(k)
  PROVE  KV!Get(k)
<1>1. PICK v \in Stored \union {Absent} : Visible(v) = latest[k] /\ Newest(k, v)
  BY DEF DictInv, NewestInv, LookupBuffer
<1>2. pc = "ready" /\ BufferHits(k) # {}
  BY DEF LookupBuffer
<1>3. BufferSays(C_0, k, v) /\ v # Absent
  BY <1>1, <1>2, BufferHitsAre DEF Newest
<1>4. C_0[Max(BufferHits(k))].elts[k] = v
  BY <1>2, <1>3, BufferHitsAre
<1> QED
  BY <1>1, <1>4 DEF LookupBuffer, KV!Get

\* range of no keys.
LEMMA RangeNoneScan ==
  ASSUME Inv, NEW lo \in Bounds, NEW hi \in Bounds, RangeNone(lo, hi)
  PROVE  KV!Scan(lo, hi)
<1>1. /\ hi <= lo /\ latest' = latest
      /\ ret' = [from |-> lo, to |-> hi, found |-> [k \in Keys |-> << >>]]
  BY DEF RangeNone, EmptyArray
<1>2. ASSUME NEW k \in Keys PROVE ~(lo <= k /\ k < hi /\ latest[k] # Absent)
  BY <1>1, Facts
<1>3. [k \in Keys |-> IF lo <= k /\ k < hi /\ latest[k] # Absent THEN << latest[k] >> ELSE << >>]
        = [k \in Keys |-> << >>]
  BY <1>2, Zenon
<1> QED
  BY <1>1, <1>3 DEF KV!Scan

\* A key that was not in the buffer when the call came is not in it after the join.
LEMMA BehindNow ==
  ASSUME DictInv, pc # "destroyed", NEW k \in Keys, BufferSays(C_0, k, Absent)
  PROVE  \E v \in Stored \union {Absent} : Visible(v) = latest[k] /\ BehindSays(k, v)
<1>1. PICK v \in Stored \union {Absent} : Visible(v) = latest[k] /\ Newest(k, v)
  BY DEF DictInv, NewestInv
<1>2. ~(v # Absent /\ BufferSays(C_0, k, v))
  BY DEF BufferSays
<1> QED
  BY <1>1, <1>2 DEF Newest

\* lookup that goes to the disk.
LEMMA LookupDiskGet ==
  ASSUME IntMin \notin Keys, Inv, DictInv, WaitInv, LookupDisk
  PROVE  KV!Get(arg.key) /\ arg.key \in Keys
<1> DEFINE k == arg.key
<1>1. /\ pc = "lookup_join" /\ Joined /\ k \in Keys /\ BufferSays(C_0, k, Absent)
      /\ levels \in Seq(Seq(DiskRuns))
  BY DEF LookupDisk, Inv, TypeOK, ArgOK, WaitInv
<1> HIDE DEF k
<1>2. PICK v \in Stored \union {Absent} : Visible(v) = latest[k] /\ BehindSays(k, v)
  BY <1>1, BehindNow
<1>3. DiskSays(levels, k, v)
  BY <1>1, <1>2, DiskSaysNow
<1>4. Answers(SearchOrder(levels), k) = {v}
  BY <1>1, <1>3, SearchOrderSays, AnswersAre
<1> QED
  BY <1>1, <1>2, <1>4 DEF LookupDisk, KV!Get, k

\* What range makes of the entries of a key, those in the buffer before those on disk.
LEMMA RangeKeeps ==
  ASSUME IntMin \notin Keys, Zero \notin Values, NEW k \in Keys,
         NEW e \in Seq(Stored), NEW s \in Seq(Stored), NEW v \in Stored \union {Absent}, NEW In \in BOOLEAN,
         \/ IF v # Absent /\ In THEN e # << >> /\ e[1] = v ELSE e = << >> /\ s = << >>
         \/ e = << >> /\ IF v # Absent /\ In THEN s # << >> /\ s[1] = v ELSE s = << >>
  PROVE  Kept(k, e \o s) = IF In /\ Visible(v) # Absent THEN << Visible(v) >> ELSE << >>
<1> DEFINE u == e \o s
<1>1. u \in Seq(Stored)
  OBVIOUS
<1>2. IF v # Absent /\ In THEN u # << >> /\ u[1] = v ELSE u = << >>
  OBVIOUS
<1> HIDE DEF u
<1>3. Kept(k, u) = IF u # << >> /\ u[1] # Tombstone THEN << u[1] >> ELSE << >>
  BY <1>1, KeptIs
<1> QED
  BY <1>2, <1>3, Facts DEF Visible, u

\* A sequence of at most one element.
LEMMA OneOrNone ==
  ASSUME NEW S, NEW q \in Seq(S), Len(q) <= 1
  PROVE  q # << >> => q = << q[1] >> /\ q[1] \in S
<1> SUFFICES ASSUME q # << >> PROVE q = << q[1] >> /\ q[1] \in S
  OBVIOUS
<1>1. Len(q) = 1
  BY EmptySeq, LenProperties
<1> QED
  BY <1>1

\* Some entry of a key comes first on disk, if there is any.
LEMMA SomeFirst ==
  ASSUME NEW runs \in Seq(DiskRuns), NEW k \in Keys, \A y \in 1..Len(runs) : Len(runs[y][k]) <= 1
  PROVE  \E v : FirstSays(runs, k, v)
<1> DEFINE hits == {y \in 1..Len(runs) : runs[y][k] # << >>}
<1>1. DOMAIN runs = 1..Len(runs) /\ Len(runs) \in Nat /\ \A y \in 1..Len(runs) : runs[y][k] \in Seq(Stored)
  BY LenProperties DEF DiskRuns
<1>2. CASE hits = {}
  BY <1>1, <1>2 DEF FirstSays
<1>3. CASE hits # {}
  <2>1. PICK y \in hits : \A w \in hits : y <= w
    <3>1. hits \in SUBSET Nat
      OBVIOUS
    <3> HIDE DEF hits
    <3> QED
      BY <1>3, <3>1, MinOfNats
  <2>2. y \in 1..Len(runs) /\ runs[y][k] \in Seq(Stored) /\ runs[y][k] # << >> /\ Len(runs[y][k]) <= 1
    BY <1>1
  <2>4. runs[y][k] = << runs[y][k][1] >> /\ runs[y][k][1] \in Stored
    BY <2>2, OneOrNone
  <2>5. runs[y][k][1] # Absent
    BY <2>4, Facts
  <2>6. \A w \in 1..y - 1 : runs[w][k] = << >>
    BY <1>1, <2>1, <2>2
  <2> QED
    BY <1>1, <2>2, <2>4, <2>5, <2>6 DEF FirstSays
<1> QED
  BY <1>2, <1>3

\* The order of the search has no run with two entries for a key either.
LEMMA SingleSearched ==
  ASSUME Inv, SingleInv, NEW k \in Keys
  PROVE  /\ SearchOrder(levels) \in Seq(DiskRuns)
         /\ \A y \in 1..Len(SearchOrder(levels)) : Len(SearchOrder(levels)[y][k]) <= 1
<1> DEFINE P == {array \in DiskRuns : ~(Len(array[k]) <= 1)}
<1>1. levels \in Seq(Seq(DiskRuns))
  BY DEF Inv, TypeOK
<1>2. \A l \in DOMAIN levels : \A r \in DOMAIN levels[l] : levels[l][r] \notin P
  BY DEF SingleInv
<1>3. \A array \in DiskRuns : array \notin P => Len(array[k]) <= 1
  OBVIOUS
<1> HIDE DEF P
<1>4. /\ SearchOrder(levels) \in Seq(DiskRuns)
      /\ \A y \in 1..Len(SearchOrder(levels)) : SearchOrder(levels)[y] \notin P
  BY <1>1, <1>2, SearchOrderType
<1> HIDE DEF SearchOrder
<1>5. \A y \in 1..Len(SearchOrder(levels)) : SearchOrder(levels)[y] \in DiskRuns
  BY <1>4
<1> QED
  BY <1>3, <1>4, <1>5

\* range, with what it saw in the buffer before the join and what it sees on disk after it.
LEMMA RangeDiskScan ==
  ASSUME IntMin \notin Keys, Zero \notin Values, Inv, BoundsInv, DictInv, WaitInv, RangeDisk
  PROVE  KV!Scan(arg.from, arg.to) /\ arg.from \in Bounds /\ arg.to \in Bounds
<1> DEFINE order == SearchOrder(levels)
           In(k) == arg.from <= k /\ k < arg.to
<1>1. /\ pc = "range_join" /\ Joined /\ arg.from \in Bounds /\ arg.to \in Bounds /\ Bounds \subseteq Int
      /\ arg.from \in Int /\ arg.to \in Int /\ arg.from < arg.to
      /\ arg.found = [k \in Keys |-> BufferEntries(k, arg.from, arg.to)]
      /\ levels \in Seq(Seq(DiskRuns))
  BY DataAssumption DEF RangeDisk, Inv, TypeOK, ArgOK, WaitInv, DataAssumption
<1>2. PICK seen :
        /\ \A k \in Keys : seen[k] \in DiskEntries(order, k, arg.from, arg.to)
        /\ ret' = [from |-> arg.from, to |-> arg.to, found |-> [k \in Keys |-> Kept(k, arg.found[k] \o seen[k])]]
  BY DEF RangeDisk
<1>3. latest' = latest
  BY DEF RangeDisk
<1> HIDE DEF order
<1>4. ASSUME NEW k \in Keys
      PROVE  Kept(k, arg.found[k] \o seen[k]) = IF In(k) /\ latest[k] # Absent THEN << latest[k] >> ELSE << >>
  <2> DEFINE e == BufferEntries(k, arg.from, arg.to)
             s == seen[k]
  <2>1. arg.found[k] = e
    BY <1>1
  <2>2. PICK v \in Stored \union {Absent} : Visible(v) = latest[k] /\ Newest(k, v)
    BY <1>1 DEF DictInv, NewestInv
  <2>3. order \in Seq(DiskRuns) /\ \A y \in 1..Len(order) : Len(order[y][k]) <= 1
    BY SingleSearched DEF DictInv, order
  <2>4. s \in DiskEntries(order, k, arg.from, arg.to)
    BY <1>2
  <2> HIDE DEF e, s
  <2>5. ASSUME NEW w, FirstSays(order, k, w)
        PROVE  s \in Seq(Stored) /\ IF w # Absent /\ In(k) THEN s # << >> /\ s[1] = w ELSE s = << >>
    <3>1. /\ s \in Seq(Stored)
          /\ IF w # Absent /\ arg.from <= k /\ k < arg.to THEN s # << >> /\ s[1] = w ELSE s = << >>
      BY <1>1, <2>3, <2>4, <2>5, DiskEntriesAre, SMTT(30)
    <3> QED
      BY <3>1
  <2>6. ASSUME NEW w, BufferSays(C_0, k, w)
        PROVE  e \in Seq(Stored) /\ IF w # Absent /\ In(k) THEN e # << >> /\ e[1] = w ELSE e = << >>
    BY <1>1, <2>6, BufferEntriesAre DEF e
  <2>7. /\ e \in Seq(Stored) /\ s \in Seq(Stored)
        /\ \/ IF v # Absent /\ In(k) THEN e # << >> /\ e[1] = v ELSE e = << >> /\ s = << >>
           \/ e = << >> /\ IF v # Absent /\ In(k) THEN s # << >> /\ s[1] = v ELSE s = << >>
    <3>1. CASE v # Absent /\ BufferSays(C_0, k, v)
      <4>1. PICK w : FirstSays(order, k, w)
        BY <2>3, SomeFirst
      <4> HIDE DEF In
      <4> QED
        BY <2>5, <2>6, <3>1, <4>1
    <3>2. CASE BufferSays(C_0, k, Absent) /\ BehindSays(k, v)
      <4>1. DiskSays(levels, k, v)
        BY <1>1, <3>2, DiskSaysNow
      <4>2. FirstSays(order, k, v)
        BY <1>1, <4>1, SearchOrderSays DEF order
      <4> HIDE DEF In
      <4> QED
        BY <2>5, <2>6, <3>2, <4>2
    <3> QED
      BY <2>2, <3>1, <3>2 DEF Newest
  <2>8. In(k) \in BOOLEAN
    OBVIOUS
  <2> HIDE DEF In
  <2>9. Kept(k, e \o s) = IF In(k) /\ Visible(v) # Absent THEN << Visible(v) >> ELSE << >>
    BY <2>7, <2>8, RangeKeeps
  <2> QED
    BY <2>1, <2>2, <2>9 DEF s
<1>5. [k \in Keys |-> Kept(k, arg.found[k] \o seen[k])]
        = [k \in Keys |-> IF arg.from <= k /\ k < arg.to /\ latest[k] # Absent THEN << latest[k] >> ELSE << >>]
  BY <1>4, Zenon
<1> QED
  BY <1>1, <1>2, <1>3, <1>5 DEF KV!Scan

\* The second half of insert_key and delete_key when the buffer was full.
LEMMA DoMergePut ==
  ASSUME Inv, WaitInv, DoMerge
  PROVE  \E k \in Keys, v \in Values \union {Absent} : KV!Put(k, v)
<1>1. arg.key \in Keys /\ arg.value \in Stored /\ ret = NoRet
  BY DEF DoMerge, Inv, TypeOK, ArgOK, WaitInv
<1>2. latest' = [latest EXCEPT ![arg.key] = Visible(arg.value)] /\ ret' = ret
  BY DEF DoMerge, Write
<1>3. Visible(arg.value) \in Values \union {Absent}
  BY <1>1 DEF Visible, Stored
<1>4. KV!Put(arg.key, Visible(arg.value))
  BY <1>1, <1>2 DEF KV!Put, NoRet, KV!NoRet
<1> QED
  BY <1>1, <1>3, <1>4

\* Every step of the tree is one of the dictionary, or changes nothing the client sees.
LEMMA DictionaryStep ==
  ASSUME IntMin \notin Keys, Zero \notin Values, Inv, BoundsInv, DictInv, WaitInv, [Next]_vars
  PROVE  [KV!KVNext]_<<latest, ret>>
<1>1. ASSUME NEW k \in Keys, NEW v \in Stored, Insert(k, v) PROVE KV!KVNext
  <2>1. Visible(v) \in Values \union {Absent}
    BY DEF Visible, Stored
  <2>2. KV!Put(k, Visible(v))
    BY <1>1 DEF Insert, Write, KV!Put, NoRet, KV!NoRet
  <2> QED
    BY <2>1, <2>2 DEF KV!KVNext
<1>2. ASSUME NEW k \in Keys, LookupBuffer(k) PROVE KV!KVNext
  BY <1>2, LookupBufferGet DEF KV!KVNext
<1>3. ASSUME ret' = NoRet, latest' = latest PROVE KV!KVNext
  BY <1>3 DEF KV!KVNext, KV!Begin, NoRet, KV!NoRet
<1>4. CASE Call
  <2>1. ASSUME NEW k \in Keys, NEW v \in Stored, InsertFull(k, v) PROVE KV!KVNext
    BY <1>3, <2>1 DEF InsertFull
  <2>2. ASSUME NEW k \in Keys, LookupMiss(k) PROVE KV!KVNext
    BY <1>3, <2>2 DEF LookupMiss
  <2>3. ASSUME NEW lo \in Bounds, NEW hi \in Bounds, RangeBuffer(lo, hi) PROVE KV!KVNext
    BY <1>3, <2>3 DEF RangeBuffer
  <2>4. ASSUME Report \/ Destroy PROVE KV!KVNext
    BY <1>3, <2>4 DEF Report, Destroy
  <2>5. ASSUME NEW lo \in Bounds, NEW hi \in Bounds, RangeNone(lo, hi) PROVE KV!KVNext
    BY <2>5, RangeNoneScan DEF KV!KVNext
  <2> QED
    BY <1>1, <1>2, <1>4, <2>1, <2>2, <2>3, <2>4, <2>5 DEF Call
<1>5. CASE Resume
  <2>1. ASSUME DoMerge PROVE KV!KVNext
    BY <2>1, DoMergePut DEF KV!KVNext
  <2>2. ASSUME LookupDisk PROVE KV!KVNext
    BY <2>2, LookupDiskGet DEF KV!KVNext
  <2>3. ASSUME RangeDisk PROVE KV!KVNext
    BY <2>3, RangeDiskScan DEF KV!KVNext
  <2>4. ASSUME ReportJoined \/ Destroyed PROVE UNCHANGED <<latest, ret>>
    BY <2>4 DEF ReportJoined, Destroyed
  <2> QED
    BY <1>5, <2>1, <2>2, <2>3, <2>4 DEF Resume
<1>6. CASE MergeThread
  BY <1>6 DEF MergeThread, Collect, Sort, Lock, Descend, AddRuns, Free, Add, Unlock, clientVars
<1>7. CASE Gone \/ UNCHANGED vars
  BY <1>7 DEF Gone, vars, clientVars
<1> QED
  BY <1>4, <1>5, <1>6, <1>7 DEF Next

----------------------------------------------------------------------------
(* The theorems *)

\* The bounds and the Bloom filter of a run leave out no key it has.
LEMMA NoFalseNegativesNow == ASSUME Inv, BoundsInv PROVE NoFalseNegatives
  BY DEF NoFalseNegatives, BoundsInv, Bounded, MayHold, MayContain

\* lookup's tests before the search of a skip list - the smallest and the largest key
\* that SkipList::insert_key keeps, and the Bloom filter - pass over no skip list of the
\* buffer that has the key, whatever is being merged.  Runs on disk are not meant.
THEOREM SkippedRunsLackTheKey == Spec => []NoFalseNegatives
<1>1. Init => Inv /\ BoundsInv
  BY BoundsInit, InvInit
<1>2. Inv /\ BoundsInv /\ [Next]_vars => Inv' /\ BoundsInv'
  BY BoundsNext, InvNext
<1>3. Inv /\ BoundsInv => NoFalseNegatives
  BY NoFalseNegativesNow
<1> QED
  BY <1>1, <1>2, <1>3, PTL DEF Spec

\* No merge loses the newest entry of a key or brings back an older one, at any step of
\* merge_runs and mergeRunsToLevel, if no key is twice among the runs that are merged
\* together and INT_MIN is not a key.
THEOREM MergesKeepNewest ==
  ASSUME OneEntryPerKey, IntMin \notin Keys
  PROVE  Spec => []NewestSurvives
<1>1. Init => Inv /\ DictInv
  BY DictInit, InvInit
<1>2. Inv /\ DictInv /\ [Next]_vars => Inv' /\ DictInv'
  BY DictNext, InvNext
<1>3. Inv /\ DictInv => NewestSurvives
  BY NewestSurvivesNow
<1> QED
  BY <1>1, <1>2, <1>3, PTL DEF Spec

\* The tree implements the dictionary: insert_key, delete_key, lookup and range answer
\* their client as KVStore does, under the conditions of MergesKeepNewest and if the
\* value 0, which range takes for "not found", is not stored.
THEOREM TreeIsADictionary ==
  ASSUME OneEntryPerKey, IntMin \notin Keys, Zero \notin Values
  PROVE  Spec => ActsAsDictionary
<1> DEFINE All == Inv /\ BoundsInv /\ DictInv /\ WaitInv
<1>1. Init => All /\ KV!KVInit
  <2>1. Init => KV!KVInit
    BY DEF Init, KV!KVInit, NoRet, KV!NoRet
  <2> QED
    BY <2>1, InvInit, BoundsInit, DictInit, WaitInit
<1>2. All /\ [Next]_vars => All'
  BY InvNext, BoundsNext, DictNext, WaitNext
<1>3. All /\ [Next]_vars => [KV!KVNext]_KV!kvVars
  BY DictionaryStep DEF KV!kvVars
<1> QED
  BY <1>1, <1>2, <1>3, PTL DEF Spec, ActsAsDictionary, KV!KVSpec

\* The answer of the last lookup, until the next call: the binding of its key.
LookupRet == "key" \in DOMAIN ret => ret = NoRet \/ ret.value = latest[ret.key]

\* A new tree has answered nothing.
LEMMA LookupRetInit == Init => LookupRet
  BY DEF Init, LookupRet

\* lookup answers with the binding of its key, and a call that changes it comes after the
\* answer was taken.
LEMMA LookupRetNext ==
  ASSUME IntMin \notin Keys, Inv, BoundsInv, DictInv, WaitInv, LookupRet, [Next]_vars
  PROVE  LookupRet'
<1>1. ASSUME ret' = NoRet PROVE LookupRet'
  BY <1>1 DEF LookupRet, NoRet
<1>2. ASSUME UNCHANGED <<latest, ret>> PROVE LookupRet'
  BY <1>2 DEF LookupRet
<1>3. ASSUME NEW k \in Keys, KV!Get(k) PROVE LookupRet'
  BY <1>3 DEF LookupRet, KV!Get
<1>4. CASE Call
  <2>1. ASSUME NEW k \in Keys, LookupBuffer(k) PROVE LookupRet'
    BY <1>3, <2>1, LookupBufferGet
  <2>2. ASSUME NEW k \in Keys, NEW v \in Stored, Insert(k, v) \/ InsertFull(k, v) PROVE LookupRet'
    BY <1>1, <2>2 DEF Insert, InsertFull
  <2>3. ASSUME NEW k \in Keys, LookupMiss(k) PROVE LookupRet'
    BY <1>1, <2>3 DEF LookupMiss
  <2>4. ASSUME NEW lo \in Bounds, NEW hi \in Bounds, RangeBuffer(lo, hi) PROVE LookupRet'
    BY <1>1, <2>4 DEF RangeBuffer
  <2>5. ASSUME Report \/ Destroy PROVE LookupRet'
    BY <1>1, <2>5 DEF Report, Destroy
  <2>6. ASSUME NEW lo \in Bounds, NEW hi \in Bounds, RangeNone(lo, hi) PROVE LookupRet'
    <3>1. ret' = [from |-> lo, to |-> hi, found |-> EmptyArray]
      BY <2>6 DEF RangeNone
    <3>2. "key" \notin DOMAIN ret'
      BY <3>1
    <3> QED
      BY <3>2 DEF LookupRet
  <2> QED
    BY <1>4, <2>1, <2>2, <2>3, <2>4, <2>5, <2>6 DEF Call
<1>5. CASE Resume
  <2>1. ASSUME DoMerge PROVE LookupRet'
    BY <1>1, <2>1 DEF DoMerge, WaitInv
  <2>2. ASSUME LookupDisk PROVE LookupRet'
    BY <1>3, <2>2, LookupDiskGet
  <2>3. ASSUME RangeDisk PROVE LookupRet'
    <3>1. PICK found : ret' = [from |-> arg.from, to |-> arg.to, found |-> found]
      BY <2>3 DEF RangeDisk
    <3>2. "key" \notin DOMAIN ret'
      BY <3>1
    <3> QED
      BY <3>2 DEF LookupRet
  <2>4. ASSUME ReportJoined \/ Destroyed PROVE LookupRet'
    BY <1>2, <2>4 DEF ReportJoined, Destroyed
  <2> QED
    BY <1>5, <2>1, <2>2, <2>3, <2>4 DEF Resume
<1>6. CASE MergeThread
  BY <1>2, <1>6 DEF MergeThread, Collect, Sort, Lock, Descend, AddRuns, Free, Add, Unlock, clientVars
<1>7. CASE Gone \/ UNCHANGED vars
  BY <1>2, <1>7 DEF Gone, vars, clientVars
<1> QED
  BY <1>4, <1>5, <1>6, <1>7 DEF Next

\* A lookup answers with the value that was written last.  The assumptions are those of
\* MergesKeepNewest; without the first one the finding of the run stale is a
\* counterexample.
THEOREM LookupsAnswerWithLast ==
  ASSUME OneEntryPerKey, IntMin \notin Keys
  PROVE  Spec => []LookupsAreCurrent
<1> DEFINE All == Inv /\ BoundsInv /\ DictInv /\ WaitInv /\ LookupRet
<1>1. Init => All
  BY InvInit, BoundsInit, DictInit, WaitInit, LookupRetInit
<1>2. All /\ [Next]_vars => All'
  BY InvNext, BoundsNext, DictNext, WaitNext, LookupRetNext
<1>3. All => LookupsAreCurrent
  BY DEF LookupRet, LookupsAreCurrent
<1> QED
  BY <1>1, <1>2, <1>3, PTL DEF Spec

\* The answer of the last range, until the next call: the bindings of the keys in it.
ScanRet ==
  "found" \in DOMAIN ret =>
    \E lo, hi \in Bounds :
      ret = [from |-> lo, to |-> hi,
             found |-> [k \in Keys |-> IF lo <= k /\ k < hi /\ latest[k] # Absent
                                       THEN << latest[k] >> ELSE << >>]]

\* Each step of the dictionary keeps that.
LEMMA ScanRetNext == ASSUME ScanRet, [KV!KVNext]_<<latest, ret>> PROVE ScanRet'
<1>1. ASSUME ret' = NoRet PROVE ScanRet'
  <2>1. "found" \notin DOMAIN ret'
    BY <1>1 DEF NoRet
  <2> QED
    BY <2>1 DEF ScanRet
<1>2. ASSUME NEW k \in Keys, NEW v, KV!Put(k, v) PROVE ScanRet'
  BY <1>1, <1>2 DEF KV!Put, KV!NoRet, NoRet
<1>3. ASSUME NEW k \in Keys, KV!Get(k) PROVE ScanRet'
  <2>1. "found" \notin DOMAIN ret'
    BY <1>3 DEF KV!Get
  <2> QED
    BY <2>1 DEF ScanRet
<1>4. ASSUME NEW lo \in Bounds, NEW hi \in Bounds, KV!Scan(lo, hi) PROVE ScanRet'
  <2>1. ret' = [from |-> lo, to |-> hi,
                found |-> [k \in Keys |-> IF lo <= k /\ k < hi /\ latest'[k] # Absent
                                          THEN << latest'[k] >> ELSE << >>]]
    BY <1>4, Zenon DEF KV!Scan
  <2> QED
    BY <2>1, Zenon DEF ScanRet
<1>5. ASSUME KV!Begin PROVE ScanRet'
  BY <1>1, <1>5 DEF KV!Begin, KV!NoRet, NoRet
<1>6. ASSUME UNCHANGED <<latest, ret>> PROVE ScanRet'
  BY <1>6 DEF ScanRet
<1> QED
  BY <1>2, <1>3, <1>4, <1>5, <1>6 DEF KV!KVNext

\* A range has every bound key between its ends once, with the last value written.  The
\* assumptions are those of TreeIsADictionary; without the last two the findings of the
\* run zero are counterexamples.
THEOREM RangesAnswerWithLast ==
  ASSUME OneEntryPerKey, IntMin \notin Keys, Zero \notin Values
  PROVE  Spec => []RangesAreCurrent
<1> DEFINE All == Inv /\ BoundsInv /\ DictInv /\ WaitInv /\ ScanRet
<1>1. Init => All
  <2>1. Init => ScanRet
    BY DEF Init, ScanRet, NoRet
  <2> QED
    BY <2>1, InvInit, BoundsInit, DictInit, WaitInit
<1>2. All /\ [Next]_vars => All'
  BY InvNext, BoundsNext, DictNext, WaitNext, DictionaryStep, ScanRetNext
<1>3. All => RangesAreCurrent
  <2> SUFFICES ASSUME ScanRet, "found" \in DOMAIN ret, NEW k \in Keys
               PROVE  ret.found[k] = IF ret.from <= k /\ k < ret.to /\ latest[k] # Absent
                                     THEN << latest[k] >> ELSE << >>
    BY DEF RangesAreCurrent
  <2>1. PICK lo, hi, found :
          /\ ret = [from |-> lo, to |-> hi, found |-> found]
          /\ found[k] = IF lo <= k /\ k < hi /\ latest[k] # Absent THEN << latest[k] >> ELSE << >>
    BY DEF ScanRet
  <2>2. ret.from = lo /\ ret.to = hi /\ ret.found = found
    BY <2>1
  <2> QED
    BY <2>1, <2>2, Zenon
<1> QED
  BY <1>1, <1>2, <1>3, PTL DEF Spec
=============================================================================
