-------------------------- MODULE LRUKReplacer --------------------------
(***************************************************************************)
(* The LRU-K replacer (src/storage/on_disk/buffer_manager/lru_k_replacer.cpp) *)
(* as a component of its own: any sequence of RecordAccess, SetEvictable    *)
(* and EvictFrame calls.  The frames are the ones registered by the buffer  *)
(* manager's constructor.                                                   *)
(*                                                                          *)
(* EvictFrame scans an unordered_map, so it is described here by the set of *)
(* frames its comparisons select; ScanFindsVictims compares that set with   *)
(* the loop of the code, run in every order, and both with the policy of    *)
(* lru_k_replacer.h, which the code follows in its first rule only.         *)
(*                                                                          *)
(* No constructor or setter gives k_m a value: the buffer manager builds    *)
(* its replacer with replacer_m(), which zero-initialises it, so the        *)
(* program runs with k_m = 0 and every history stays empty.                 *)
(***************************************************************************)
EXTENDS Replacer, Sequences

CONSTANTS
  Ks,            \* the values k_m is explored with
  MaxTimestamp,  \* bound on the number of accesses explored
  NoVictim       \* std::nullopt

ASSUME LRUKAssumption ==
  /\ Ks \in SUBSET Nat
  /\ MaxTimestamp \in Nat
  /\ NoVictim \notin Frames

VARIABLES
  k_m,                  \* length of the access window; never assigned
  history,              \* history[f]: timestamps of f's last accesses, oldest first
  current_timestamp_m,  \* the logical clock
  victim                \* what the last EvictFrame returned

vars == <<replacerVars, k_m, history, current_timestamp_m, victim>>

TypeOK ==
  /\ ReplacerTypeOK
  /\ k_m \in Nat
  /\ history \in [Frames -> Seq(Nat)]
  /\ current_timestamp_m \in Nat
  /\ victim \in Frames \cup {NoVictim}

Init ==
  /\ ReplacerInit
  /\ k_m \in Ks
  /\ history = [f \in Frames |-> <<>>]
  /\ current_timestamp_m = 0
  /\ victim = NoVictim

\* Fewer than k_m accesses on record.
Short(f) == Len(history[f]) < k_m

Oldest(f) == history[f][1]
Newest(f) == history[f][Len(history[f])]

\* The frames EvictFrame's comparisons select: one without any history if there is
\* one (whichever the iteration meets first); else, among the short histories, the
\* one that begins earliest; else, by history.back(), the one whose last access is
\* earliest: the least recently used frame.
Victims ==
  LET untouched == {f \in Evictable : history[f] = <<>>}
      short == {f \in Evictable : Short(f)}
  IN IF untouched # {} THEN untouched
     ELSE IF short # {}
          THEN {f \in short : \A g \in short : Oldest(f) <= Oldest(g)}
          ELSE {f \in Evictable : \A g \in Evictable : Newest(f) <= Newest(g)}

\* The policy the class comment states (lru_k_replacer.h:23-26): 1. if frames with
\* fewer than k accesses exist, the one with the least recent access (any of those
\* without one); 2. otherwise the one with the least recent k-th latest access,
\* which is where a full history begins.
Documented ==
  LET untouched == {f \in Evictable : history[f] = <<>>}
      short == {f \in Evictable : Short(f)}
      candidates == IF short # {} THEN short ELSE Evictable
  IN IF untouched # {} THEN untouched
     ELSE {f \in candidates : \A g \in candidates : Oldest(f) <= Oldest(g)}

\* Where the policy depends on more than the latest access: rule 2 with k >= 2.
KthAccessDecides == k_m > 1 /\ \A f \in Evictable : ~Short(f)

\* EvictFrame: the victim's history is cleared; its flag and the count are not
\* touched.
EvictFrame ==
  /\ \/ \E f \in Victims : /\ victim' = f
                           /\ history' = [history EXCEPT ![f] = <<>>]
     \/ Victims = {} /\ victim' = NoVictim /\ UNCHANGED history
  /\ UNCHANGED <<replacerVars, k_m, current_timestamp_m>>

\* Mutant: the window is trimmed one access too late.
RecordedLate(f) ==
  LET h == Append(history[f], current_timestamp_m)
  IN IF Len(h) > k_m + 1 THEN Tail(h) ELSE h

\* f's history after push_back and, past k_m entries, pop_front.
Recorded(f) ==
  LET h == Append(history[f], current_timestamp_m)
  IN IF Len(h) > k_m THEN Tail(h) ELSE h

RecordAccess(f) ==
  /\ current_timestamp_m < MaxTimestamp
  /\ history' = [history EXCEPT ![f] = Recorded(f)]
  /\ current_timestamp_m' = current_timestamp_m + 1
  /\ UNCHANGED <<replacerVars, k_m, victim>>

FlagFrame(f, evictable) ==
  /\ SetEvictable(f, evictable)
  /\ UNCHANGED <<k_m, history, current_timestamp_m, victim>>

Next ==
  \/ EvictFrame
  \/ \E f \in Frames : RecordAccess(f)
  \/ \E f \in Frames, b \in BOOLEAN : FlagFrame(f, b)

Spec == Init /\ [][Next]_vars

-----------------------------------------------------------------------------
(* The loop of EvictFrame, as the code writes it. *)

\* to_remove, found_short_history, and whether the scan returned early.
ScanStart == [to_remove |-> NoVictim, found_short |-> FALSE, returned |-> FALSE]

\* Mutant: found_short_history is not raised when a short history replaces a
\* full one.
ScanForgetsShort(s, f) ==
  IF s.returned \/ ~is_evictable[f] THEN s
  ELSE IF history[f] = <<>> THEN [s EXCEPT !.to_remove = f, !.returned = TRUE]
  ELSE IF s.to_remove = NoVictim
       THEN [s EXCEPT !.to_remove = f, !.found_short = Short(f)]
  ELSE IF Short(f) /\ ~s.found_short THEN [s EXCEPT !.to_remove = f]
  ELSE IF /\ Short(f) = s.found_short
          /\ \/ Short(f) /\ Oldest(f) < Oldest(s.to_remove)
             \/ ~Short(f) /\ Newest(f) < Newest(s.to_remove)
       THEN [s EXCEPT !.to_remove = f]
  ELSE s

\* One iteration of the loop over frames_m.
Scan(s, f) ==
  IF s.returned \/ ~is_evictable[f] THEN s
  ELSE IF history[f] = <<>> THEN [s EXCEPT !.to_remove = f, !.returned = TRUE]
  ELSE IF s.to_remove = NoVictim
       THEN [s EXCEPT !.to_remove = f, !.found_short = Short(f)]
  ELSE IF Short(f) /\ ~s.found_short
       THEN [s EXCEPT !.to_remove = f, !.found_short = TRUE]
  ELSE IF /\ Short(f) = s.found_short
          /\ \/ Short(f) /\ Oldest(f) < Oldest(s.to_remove)
             \/ ~Short(f) /\ Newest(f) < Newest(s.to_remove)
       THEN [s EXCEPT !.to_remove = f]
  ELSE s

\* What it returns for frames met in this order.
ScanResult(order) ==
  LET scan[i \in 0 .. Len(order)] == IF i = 0 THEN ScanStart ELSE Scan(scan[i - 1], order[i])
  IN scan[Len(order)].to_remove

\* The orders an unordered_map may have.
Orders ==
  {order \in [1 .. Cardinality(Frames) -> Frames] :
     \A i, j \in DOMAIN order : order[i] = order[j] => i = j}

-----------------------------------------------------------------------------
\* A history is a window of at most k_m past accesses in the order they were
\* made, and no two frames share a timestamp: so "oldest" and "newest" are
\* defined wherever EvictFrame compares them and never tie.
HistoryIsWindow ==
  /\ \A f \in Frames :
       /\ Len(history[f]) <= k_m
       /\ \A i \in 1 .. Len(history[f]) : history[f][i] < current_timestamp_m
       /\ \A i, j \in 1 .. Len(history[f]) : i < j => history[f][i] < history[f][j]
  /\ \A f, g \in Frames : f # g =>
       \A i \in 1 .. Len(history[f]), j \in 1 .. Len(history[g]) : history[f][i] # history[g][j]

\* Without a window there is no policy: EvictFrame may return any evictable frame,
\* however recently it was used.
NoWindowNoPolicy == k_m = 0 => Victims = Evictable

\* The one-pass scan, over all iteration orders, finds exactly the frames EvictFrame
\* is described by, nullopt when no frame is evictable; and these are the frames the
\* header's policy names as long as some evictable frame has fewer than k_m accesses
\* or k_m <= 1.  Under its rule 2 with k_m >= 2 they need not be: the code compares
\* history.back() (lru_k_replacer.cpp:49), so it evicts the least recently used frame
\* and not the one with the least recent k-th access.
ScanFindsVictims ==
  LET found == {ScanResult(order) : order \in Orders} IN
    IF Evictable = {} THEN found = {NoVictim}
    ELSE found = Victims /\ (~KthAccessDecides => found = Documented)
=============================================================================
