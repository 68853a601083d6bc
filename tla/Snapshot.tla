------------------------------ MODULE Snapshot ------------------------------
(***************************************************************************)
(* What an RCU buffer promises, without its slots and counts: one writer   *)
(* replaces the data as a whole; a reader that acquires the data holds the *)
(* version published at that moment until it releases it, and whatever it  *)
(* reads in between, word by word, is of that version, however many the    *)
(* writer publishes meanwhile.                                             *)
(***************************************************************************)
EXTENDS Naturals

CONSTANTS
  Readers,  \* the reading threads
  NONE      \* "no version held"

VARIABLES
  version,  \* the last version published
  holding,  \* the version each reader holds, or NONE
  rdFirst,  \* the version each reader last found in the first word
  rdSecond  \* the version each reader last found in the second word

vars == <<version, holding, rdFirst, rdSecond>>

Init ==
  /\ version = 0
  /\ holding = [r \in Readers |-> NONE]
  /\ rdFirst = [r \in Readers |-> 0]
  /\ rdSecond = [r \in Readers |-> 0]

Publish ==
  /\ version' = version + 1
  /\ UNCHANGED <<holding, rdFirst, rdSecond>>

Acquire(r) ==
  /\ holding[r] = NONE
  /\ holding' = [holding EXCEPT ![r] = version]
  /\ UNCHANGED <<version, rdFirst, rdSecond>>

ReadFirst(r) ==
  /\ holding[r] # NONE
  /\ rdFirst' = [rdFirst EXCEPT ![r] = holding[r]]
  /\ UNCHANGED <<version, holding, rdSecond>>

ReadSecond(r) ==
  /\ holding[r] # NONE
  /\ rdSecond' = [rdSecond EXCEPT ![r] = holding[r]]
  /\ UNCHANGED <<version, holding, rdFirst>>

\* A reader leaves with both words of the version it held.
Release(r) ==
  /\ holding[r] # NONE
  /\ rdFirst[r] = holding[r]
  /\ rdSecond[r] = holding[r]
  /\ holding' = [holding EXCEPT ![r] = NONE]
  /\ UNCHANGED <<version, rdFirst, rdSecond>>

Next ==
  \/ Publish
  \/ \E r \in Readers : Acquire(r) \/ ReadFirst(r) \/ ReadSecond(r) \/ Release(r)

Spec == Init /\ [][Next]_vars
=============================================================================
