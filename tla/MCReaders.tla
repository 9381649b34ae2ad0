----------------------------- MODULE MCReaders ------------------------------
(***************************************************************************)
(* An instance for TLC of LeafReaders and, for an entry of the SAD, of     *)
(* SadKeys beside it: the reader has the text of the keys converted as     *)
(* well, and pf_addsad writes lifetimes and keys into one message.         *)
(***************************************************************************)
EXTENDS LeafReaders

VARIABLES conf, keys, buffer, stage

keyVars == <<conf, keys, buffer, stage>>

AllOf(len, byte) == [i \in 1..len |-> byte]

\* DES and triple-DES, with a key of either's length, alone and in front of an
\* integrity key.
KeyConfs ==
  [encryption_alg : {2, 3}, encryption_key : {AllOf(8, 171), AllOf(24, 171)},
   integrity_alg : {0, 2}, integrity_key : {AllOf(20, 2)}]

Keys ==
  INSTANCE SadKeys
    WITH Confs <- KeyConfs, node <- keys, msg <- buffer, at <- stage

MCInit == Init /\ Keys!Init

ReadEntry == ReadLeaf /\ UNCHANGED keyVars

ReadKeys ==
  /\ list = "sad" /\ Read
  /\ \E upper \in BOOLEAN : Keys!ReadKeys(upper)
  /\ UNCHANGED vars

SendMessage == pf_addsad /\ Keys!SendKeys

MCSpec ==
  MCInit /\ [][ReadEntry \/ ReadKeys \/ SendMessage]_<<vars, keyVars>>

SuitableKeyTaken == Keys!SuitableKeyTaken

=============================================================================
