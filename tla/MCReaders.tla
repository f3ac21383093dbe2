----------------------------- MODULE MCReaders -----------------------------
(***************************************************************************)
(* Rounds for Readers, which a configuration cannot write down.            *)
(***************************************************************************)
EXTENDS Readers

\* The rounds of concurrentLookupTest.
OneTwoThree == << 1, 2, 3 >>
=============================================================================
