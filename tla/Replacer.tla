---------------------------- MODULE Replacer ----------------------------
(***************************************************************************)
(* What the page buffer manager relies on its replacer for, whatever policy *)
(* it follows: a flag per frame, the count that GetEvictableCount returns,  *)
(* and a victim that is some frame whose flag is set.  LRUKReplacer         *)
(* implements this module; PageBufferManager is built on it.                *)
(*                                                                          *)
(* SetEvictable moves the count on every call, also when the flag already   *)
(* has the requested value: the count is not derived from the flags.        *)
(***************************************************************************)
EXTENDS Integers, FiniteSets

CONSTANTS
  Frames,    \* the frames registered by the buffer manager's constructor
  SizeMod    \* evictable_count_m is a std::size_t: arithmetic modulo 2^w

ASSUME ReplacerAssumption ==
  /\ IsFiniteSet(Frames)
  /\ SizeMod \in Nat \ {0}
  /\ Cardinality(Frames) < SizeMod

VARIABLES
  is_evictable,       \* is_evictable[f]: may f be chosen as a victim
  evictable_count_m   \* what GetEvictableCount returns

replacerVars == <<is_evictable, evictable_count_m>>

ReplacerTypeOK ==
  /\ is_evictable \in [Frames -> BOOLEAN]
  /\ evictable_count_m \in 0 .. SizeMod - 1

Evictable == {f \in Frames : is_evictable[f]}

\* One RegisterFrame call per frame: every flag starts set and is counted.
ReplacerInit ==
  /\ is_evictable = [f \in Frames |-> TRUE]
  /\ evictable_count_m = Cardinality(Frames)

\* SetEvictable(f, TRUE) called once for each frame of S, in any order.
SetEvictableAll(S) ==
  /\ is_evictable' = [f \in Frames |-> f \in S \/ is_evictable[f]]
  /\ evictable_count_m' = (evictable_count_m + Cardinality(S)) % SizeMod

\* Mutant: a pin that forgets to tell the replacer.
SetEvictableOnlyTrue(f, evictable) ==
  IF evictable
  THEN /\ is_evictable' = [is_evictable EXCEPT ![f] = TRUE]
       /\ evictable_count_m' = (evictable_count_m + 1) % SizeMod
  ELSE UNCHANGED replacerVars

\* Mutant: the increment of evictable_count_m is dropped.
SetEvictableNoIncrement(f, evictable) ==
  /\ is_evictable' = [is_evictable EXCEPT ![f] = evictable]
  /\ evictable_count_m' =
       (IF evictable THEN evictable_count_m ELSE evictable_count_m - 1) % SizeMod

\* Mutant: the decrement of evictable_count_m is dropped.
SetEvictableNoDecrement(f, evictable) ==
  /\ is_evictable' = [is_evictable EXCEPT ![f] = evictable]
  /\ evictable_count_m' =
       (IF evictable THEN evictable_count_m + 1 ELSE evictable_count_m) % SizeMod

\* Mutant: the count as a mathematical integer instead of a size_t.
SetEvictableUnwrapped(f, evictable) ==
  /\ is_evictable' = [is_evictable EXCEPT ![f] = evictable]
  /\ evictable_count_m' = IF evictable THEN evictable_count_m + 1 ELSE evictable_count_m - 1

SetEvictable(f, evictable) ==
  /\ is_evictable' = [is_evictable EXCEPT ![f] = evictable]
  /\ evictable_count_m' =
       (IF evictable THEN evictable_count_m + 1 ELSE evictable_count_m - 1) % SizeMod

\* EvictFrame's victim: some evictable frame (none when there is none).
\* Neither the flag nor the count moves: the pin that follows moves them.
IsVictim(f) == is_evictable[f]

ReplacerNext == \E f \in Frames, b \in BOOLEAN : SetEvictable(f, b)

ReplacerSpec == ReplacerInit /\ [][ReplacerNext]_replacerVars
=============================================================================
