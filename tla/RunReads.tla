------------------------------ MODULE RunReads ------------------------------
(***************************************************************************)
(* What is asked of a run: its Bloom filter, and what a disk run can       *)
(* answer about a key, given the entries it has for the key in the order   *)
(* of its array.  LSM reads its runs this way; the searches of DiskRun are *)
(* shown to answer nothing else.                                           *)
(***************************************************************************)
EXTENDS Integers, SequencesExt

\* BloomFilter::add and mayContain, on the set of the bits that are 1.  The bits of
\* a key are those at nthHash(0), nthHash(1), ... of its hash.
BloomAdd(bits, keyBits) == bits \union keyBits

MayContain(bits, keyBits) == keyBits \subseteq bits

\* lookup: any of the entries, as the search stops at the first it meets.
Found(entries) == ToSet(entries)

\* range from lo to hi.  A search finds each end of the range and may stop inside
\* a group of equal keys.
Slices(entries, k, lo, hi) ==
  CASE k < lo \/ k > hi -> {<< >>}
    [] k = lo -> {SubSeq(entries, i, Len(entries)) : i \in 1..Max({1, Len(entries)})}
    [] k = hi -> {SubSeq(entries, 1, i - 1) : i \in 1..Max({1, Len(entries)})}
    [] OTHER  -> {entries}
=============================================================================
