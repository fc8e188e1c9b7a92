--------------------- MODULE PageBufferManagerProofs ---------------------
(***************************************************************************)
(* Proofs about PageBufferManager, in four parts.                           *)
(*   BaseInv: types, and the agreement of map and frames, in every          *)
(*     environment.                                                         *)
(*   IInv, in a SafeEnvironment: pins are counted, a page in use is never   *)
(*     evicted, clean pages match the disk, no assertion fails.             *)
(*   CountInv, for clients with pages of their own: the count of evictable  *)
(*     frames is right, and no wakeup is lost.                              *)
(*   The refinement of PageStore, from IInv.                                *)
(***************************************************************************)
EXTENDS PageBufferManager, FiniteSetTheorems, TLAPS

-----------------------------------------------------------------------------
(* Program counters. *)

\* d is in the same phase of its call before and after the step: at most it
\* was woken.
SamePhase(d) ==
  /\ pc'[d] \in PC
  /\ (pc'[d] \in {"get_wait", "get_woken"}) <=> (pc[d] \in {"get_wait", "get_woken"})
  /\ (pc'[d] \in {"delete_wait", "delete_woken"}) <=> (pc[d] \in {"delete_wait", "delete_woken"})
  /\ (pc'[d] = "holding") <=> (pc[d] = "holding")
  /\ (pc'[d] = "mutating") <=> (pc[d] = "mutating")
  /\ (pc'[d] = "aborted") <=> (pc[d] = "aborted")

\* c moves to s, the others stay in their phase.
Moved(c, s) ==
  /\ pc' \in [Clients -> PC]
  /\ pc'[c] = s
  /\ \A d \in Clients \ {c} : SamePhase(d)

\* Waking a client leaves its phase alone.
LEMMA WokenPhase ==
  ASSUME NEW s \in PC
  PROVE  /\ WokenPC(s) \in PC
         /\ (WokenPC(s) \in {"get_wait", "get_woken"}) <=> (s \in {"get_wait", "get_woken"})
         /\ (WokenPC(s) \in {"delete_wait", "delete_woken"}) <=> (s \in {"delete_wait", "delete_woken"})
         /\ (WokenPC(s) = "holding") <=> (s = "holding")
         /\ (WokenPC(s) = "mutating") <=> (s = "mutating")
         /\ (WokenPC(s) = "aborted") <=> (s = "aborted")
  BY DEF WokenPC, PC

\* A plain move, as in a call that returns or starts to wait.
LEMMA MoveMoves ==
  ASSUME pc \in [Clients -> PC], NEW c \in Clients, NEW s \in PC, Move(c, s)
  PROVE  Moved(c, s)
  BY DEF Move, Moved, SamePhase

\* notify_all wakes the waiters and moves nobody else.
LEMMA NotifyAllMoves ==
  ASSUME pc \in [Clients -> PC], NEW c \in Clients, NEW s \in PC, MoveAndNotifyAll(c, s)
  PROVE  Moved(c, s)
<1>1. \A d \in Clients : pc'[d] = IF d = c THEN s ELSE WokenPC(pc[d])
  BY DEF MoveAndNotifyAll
<1>2. \A d \in Clients : WokenPC(pc[d]) \in PC
  BY WokenPhase
<1>3. pc' \in [Clients -> PC]
  BY <1>2 DEF MoveAndNotifyAll
<1>4. ASSUME NEW d \in Clients \ {c} PROVE SamePhase(d)
  <2>1. pc'[d] = WokenPC(pc[d]) /\ pc[d] \in PC
    BY <1>1, <1>4
  <2> QED BY <2>1, WokenPhase DEF SamePhase
<1> QED BY <1>1, <1>3, <1>4 DEF Moved

\* notify_one wakes at most one waiter; a client that is not waiting moves
\* where it says.
LEMMA NotifyOneMoves ==
  ASSUME pc \in [Clients -> PC], NEW c \in Clients, NEW s \in PC, MoveAndNotifyOne(c, s),
         pc[c] = "holding"
  PROVE  Moved(c, s)
<1>1. CASE Waiters = {}
  BY <1>1 DEF MoveAndNotifyOne, Moved, SamePhase
<1>2. CASE Waiters # {}
  <2>1. PICK w \in Waiters : pc' = [pc EXCEPT ![c] = s, ![w] = WokenPC(pc[w])]
    BY <1>2 DEF MoveAndNotifyOne
  <2>2. w \in Clients /\ w # c /\ pc[w] \in PC
    BY <2>1 DEF Waiters
  <2>3. WokenPC(pc[w]) \in PC
    BY <2>2, WokenPhase
  <2>4. pc' \in [Clients -> PC] /\ pc'[c] = s
    BY <2>1, <2>2, <2>3
  <2>5. SamePhase(w)
    <3>1. pc'[w] = WokenPC(pc[w])
      BY <2>1, <2>2
    <3> QED BY <3>1, <2>2, WokenPhase DEF SamePhase
  <2>6. ASSUME NEW d \in Clients \ {c, w} PROVE SamePhase(d)
    <3>1. pc'[d] = pc[d]
      BY <2>1, <2>2
    <3> QED BY <3>1 DEF SamePhase
  <2> QED BY <2>4, <2>5, <2>6 DEF Moved
<1> QED BY <1>1, <1>2

-----------------------------------------------------------------------------
(* The replacer's state keeps its type. *)

LEMMA SetEvictableType ==
  ASSUME ReplacerTypeOK, NEW f, NEW b \in BOOLEAN, SetEvictable(f, b)
  PROVE  ReplacerTypeOK'
<1>1. is_evictable' \in [Frames -> BOOLEAN]
  BY DEF SetEvictable, ReplacerTypeOK
<1>2. \A x \in Int : x % SizeMod \in 0 .. SizeMod - 1
  BY ReplacerAssumption
<1>3. evictable_count_m \in Int
  BY ReplacerAssumption DEF ReplacerTypeOK
<1> QED BY <1>1, <1>2, <1>3 DEF SetEvictable, ReplacerTypeOK

LEMMA SetEvictableAllType ==
  ASSUME ReplacerTypeOK, NEW S \in SUBSET Frames, SetEvictableAll(S)
  PROVE  ReplacerTypeOK'
<1>1. Cardinality(S) \in Nat
  BY FS_Subset, FS_CardinalityType, ReplacerAssumption
<1>2. \A x \in Int : x % SizeMod \in 0 .. SizeMod - 1
  BY ReplacerAssumption
<1>3. evictable_count_m \in Int
  BY ReplacerAssumption DEF ReplacerTypeOK
<1>4. is_evictable' \in [Frames -> BOOLEAN]
  BY DEF SetEvictableAll, ReplacerTypeOK
<1> QED BY <1>1, <1>2, <1>3, <1>4 DEF SetEvictableAll, ReplacerTypeOK

LEMMA ReplacerFreshType ==
  Cardinality(Frames) \in 0 .. SizeMod - 1
  BY FS_CardinalityType, ReplacerAssumption

-----------------------------------------------------------------------------
(* BaseInv is preserved by every step, whatever fails.  One lemma per kind of *)
(* step; WaitStep and ReturnStep cover the steps that move one client only.  *)

\* Helper: what a write-back leaves on disk and in the map.
LEMMA FlushTypes ==
  ASSUME BaseInv, NEW f \in Frames, is_dirty[f] => Flushable(f)
  PROVE  /\ FlushedDisk(f) \in [Pages -> Bytes]
         /\ MapWithout(f) \in [Pages -> Frames \cup {NoFrame}]
<1>1. is_dirty[f] => fp_id[f] \in Pages /\ data[page_map_m[fp_id[f]]] \in Bytes
  BY DEF BaseInv, TypeOK, Flushable, Cached
<1> QED BY <1>1 DEF FlushedDisk, MapWithout, BaseInv, TypeOK

\* Clients whose call did not move keep what it is about.
LEMMA OthersKeepCalls ==
  ASSUME CallTypes, NEW c \in Clients, NEW s, Moved(c, s), CallTyped(c)',
         \A d \in Clients \ {c} : arg'[d] = arg[d] /\ frame_m'[d] = frame_m[d]
  PROVE  CallTypes'
  BY DEF CallTypes, CallTyped, Moved, SamePhase

\* A client that moves without a page, everything else unchanged.
LEMMA CallTypesAfterReturn ==
  ASSUME TypeOK, CallTypes, NEW c \in Clients, NEW s \in {"idle", "no_frame"},
         Moved(c, s), arg' = [arg EXCEPT ![c] = NoPage],
         frame_m' = frame_m \/ frame_m' = [frame_m EXCEPT ![c] = NoFrame]
  PROVE  /\ CallTypes'
         /\ pc' \in [Clients -> PC]
         /\ arg' \in [Clients -> Pages \cup Files \cup {NoPage}]
         /\ frame_m' \in [Clients -> Frames \cup {NoFrame}]
<1>1. /\ pc' \in [Clients -> PC]
      /\ arg' \in [Clients -> Pages \cup Files \cup {NoPage}]
      /\ frame_m' \in [Clients -> Frames \cup {NoFrame}]
  BY DEF TypeOK, Moved
<1>2. CallTyped(c)' /\ \A d \in Clients \ {c} : arg'[d] = arg[d] /\ frame_m'[d] = frame_m[d]
  BY DEF CallTyped, Moved, TypeOK
<1> QED BY <1>1, <1>2, OthersKeepCalls

\* A client that gets a page.
LEMMA CallTypesAfterGet ==
  ASSUME TypeOK, CallTypes, NEW c \in Clients, NEW p \in Pages, NEW f \in Frames,
         Moved(c, "holding"), ReturnsPage(c, p, f)
  PROVE  /\ CallTypes'
         /\ pc' \in [Clients -> PC]
         /\ arg' \in [Clients -> Pages \cup Files \cup {NoPage}]
         /\ frame_m' \in [Clients -> Frames \cup {NoFrame}]
<1>1. /\ pc' \in [Clients -> PC]
      /\ arg' \in [Clients -> Pages \cup Files \cup {NoPage}]
      /\ frame_m' \in [Clients -> Frames \cup {NoFrame}]
  BY DEF TypeOK, Moved, ReturnsPage
<1>2. CallTyped(c)' /\ \A d \in Clients \ {c} : arg'[d] = arg[d] /\ frame_m'[d] = frame_m[d]
  BY DEF CallTyped, Moved, TypeOK, ReturnsPage
<1> QED BY <1>1, <1>2, OthersKeepCalls

LEMMA BaseHit ==
  ASSUME BaseInv, NEW c \in Clients, NEW p \in Pages, Hit(c, p)
  PROVE  BaseInv'
<1> DEFINE f == page_map_m[p]
<1>1. f \in Frames
  BY DEF BaseInv, TypeOK, Hit, Cached
<1>2. Moved(c, "holding")
  BY MoveMoves DEF BaseInv, TypeOK, Hit, PC
<1>3. /\ CallTypes'
      /\ pc' \in [Clients -> PC]
      /\ arg' \in [Clients -> Pages \cup Files \cup {NoPage}]
      /\ frame_m' \in [Clients -> Frames \cup {NoFrame}]
  BY <1>1, <1>2, CallTypesAfterGet DEF BaseInv, Hit
<1>4. ReplacerTypeOK'
  BY SetEvictableType DEF BaseInv, TypeOK, Hit
<1>5. TypeOK'
  BY <1>1, <1>3, <1>4 DEF BaseInv, TypeOK, Hit, fileVars
<1>6. MapConsistent'
  BY DEF BaseInv, MapConsistent, Cached, Hit
<1> QED BY <1>3, <1>5, <1>6 DEF BaseInv

LEMMA BaseLoadAndPin ==
  ASSUME BaseInv, NEW c \in Clients, NEW p \in Pages, NEW f \in Frames, LoadAndPin(c, p, f)
  PROVE  BaseInv'
<1>1. /\ FlushedDisk(f) \in [Pages -> Bytes]
      /\ MapWithout(f) \in [Pages -> Frames \cup {NoFrame}]
  BY FlushTypes DEF LoadAndPin
<1>2. Moved(c, "holding")
  BY NotifyAllMoves DEF BaseInv, TypeOK, LoadAndPin, PC
<1>3. /\ CallTypes'
      /\ pc' \in [Clients -> PC]
      /\ arg' \in [Clients -> Pages \cup Files \cup {NoPage}]
      /\ frame_m' \in [Clients -> Frames \cup {NoFrame}]
  BY <1>2, CallTypesAfterGet DEF BaseInv, LoadAndPin
<1>4. ReplacerTypeOK'
  BY SetEvictableType DEF BaseInv, TypeOK, LoadAndPin
<1>5. TypeOK'
  <2>1. disk' \in [Pages -> Bytes]
    BY <1>1 DEF LoadAndPin
  <2>2. /\ page_map_m' \in [Pages -> Frames \cup {NoFrame}]
        /\ fp_id' \in [Frames -> Pages \cup {NoPage}]
        /\ is_dirty' \in [Frames -> BOOLEAN]
        /\ pin_count' \in [Frames -> Int]
    BY <1>1 DEF LoadAndPin, BaseInv, TypeOK
  <2>3. data' \in [Frames -> Bytes]
    BY <2>1 DEF LoadAndPin, BaseInv, TypeOK
  <2> QED BY <1>3, <1>4, <2>1, <2>2, <2>3 DEF LoadAndPin, BaseInv, TypeOK, fileVars
<1>6. MapConsistent'
  <2> SUFFICES ASSUME NEW q \in Pages, page_map_m'[q] # NoFrame
               PROVE  fp_id'[page_map_m'[q]] = q
    BY DEF MapConsistent, Cached
  <2>1. CASE q = p
    BY <2>1, <1>1 DEF LoadAndPin, BaseInv, TypeOK
  <2>2. CASE q # p
    <3>1. page_map_m'[q] = page_map_m[q] /\ q # fp_id[f] /\ page_map_m[q] # NoFrame
      BY <2>2, <1>1 DEF LoadAndPin, MapWithout
    <3>2. fp_id[page_map_m[q]] = q /\ page_map_m[q] # f
      BY <3>1 DEF BaseInv, MapConsistent, Cached
    <3> QED BY <3>1, <3>2 DEF LoadAndPin, BaseInv, TypeOK
  <2> QED BY <2>1, <2>2
<1> QED BY <1>3, <1>5, <1>6 DEF BaseInv

\* A call that returns without a page; the disk may have been written to.
LEMMA BaseReturn ==
  ASSUME BaseInv, NEW c \in Clients, NEW s \in {"idle", "no_frame"}, Returns(c, s),
         UNCHANGED <<frameVars, replacerVars, fileVars, running>>,
         disk' \in [Pages -> Bytes]
  PROVE  BaseInv'
<1>1. Moved(c, s)
  BY MoveMoves DEF BaseInv, TypeOK, Returns, PC
<1>2. /\ CallTypes'
      /\ pc' \in [Clients -> PC]
      /\ arg' \in [Clients -> Pages \cup Files \cup {NoPage}]
      /\ frame_m' \in [Clients -> Frames \cup {NoFrame}]
  BY <1>1, CallTypesAfterReturn DEF BaseInv, Returns
<1>3. TypeOK'
  BY <1>2 DEF BaseInv, TypeOK, ReplacerTypeOK, frameVars, replacerVars, fileVars
<1>4. MapConsistent'
  BY DEF BaseInv, MapConsistent, Cached, frameVars
<1> QED BY <1>2, <1>3, <1>4 DEF BaseInv

LEMMA BaseLoadFlushFails ==
  ASSUME BaseInv, NEW c \in Clients, NEW p \in Pages, NEW f \in Frames, LoadFlushFails(c, p, f)
  PROVE  BaseInv'
<1>1. disk' \in [Pages -> Bytes]
  <2>1. CASE disk' = disk
    BY <2>1 DEF BaseInv, TypeOK
  <2>2. CASE /\ Flushable(f)
             /\ \E b \in WriteOutcomes(fp_id[f]) : disk' = [disk EXCEPT ![fp_id[f]] = b]
    <3>1. fp_id[f] \in Pages /\ data[page_map_m[fp_id[f]]] \in Bytes
      BY <2>2 DEF BaseInv, TypeOK, Flushable, Cached
    <3>2. WriteOutcomes(fp_id[f]) \subseteq Bytes
      BY <3>1 DEF WriteOutcomes, BaseInv, TypeOK, Bytes
    <3> QED BY <2>2, <3>1, <3>2 DEF BaseInv, TypeOK
  <2> QED BY <2>1, <2>2 DEF LoadFlushFails
<1> QED BY <1>1, BaseReturn DEF LoadFlushFails

LEMMA BaseLoadReadFails ==
  ASSUME BaseInv, NEW c \in Clients, NEW p \in Pages, NEW f \in Frames, LoadReadFails(c, p, f)
  PROVE  BaseInv'
<1>1. /\ FlushedDisk(f) \in [Pages -> Bytes]
      /\ MapWithout(f) \in [Pages -> Frames \cup {NoFrame}]
  BY FlushTypes DEF LoadReadFails
<1>2. Moved(c, "idle")
  BY MoveMoves DEF BaseInv, TypeOK, LoadReadFails, Returns, PC
<1>3. /\ CallTypes'
      /\ pc' \in [Clients -> PC]
      /\ arg' \in [Clients -> Pages \cup Files \cup {NoPage}]
      /\ frame_m' \in [Clients -> Frames \cup {NoFrame}]
  BY <1>2, CallTypesAfterReturn DEF BaseInv, LoadReadFails, Returns
<1>4. data' \in [Frames -> Bytes]
  BY DEF LoadReadFails, BaseInv, TypeOK, Bytes
<1>5. TypeOK'
  BY <1>1, <1>3, <1>4 DEF LoadReadFails, BaseInv, TypeOK, ReplacerTypeOK, replacerVars, fileVars
<1>6. MapConsistent'
  BY DEF LoadReadFails, MapWithout, BaseInv, TypeOK, MapConsistent, Cached
<1> QED BY <1>3, <1>5, <1>6 DEF BaseInv

\* A failed assertion ends the program and changes nothing else.
LEMMA BaseAborts ==
  ASSUME BaseInv, NEW c \in Clients, Aborts(c)
  PROVE  BaseInv'
<1>1. Moved(c, "aborted")
  BY MoveMoves DEF BaseInv, TypeOK, Aborts, PC
<1>2. CallTypes'
  BY <1>1, OthersKeepCalls DEF Moved, CallTyped, Aborts, BaseInv
<1>3. TypeOK'
  BY <1>1 DEF Moved, Aborts, BaseInv, TypeOK, ReplacerTypeOK, frameVars, replacerVars, fileVars
<1>4. MapConsistent'
  BY DEF BaseInv, MapConsistent, Cached, Aborts, frameVars
<1> QED BY <1>2, <1>3, <1>4 DEF BaseInv

LEMMA BaseFinishGet ==
  ASSUME BaseInv, NEW c \in Clients, NEW p \in Pages, FinishGet(c, p)
  PROVE  BaseInv'
<1>1. CASE Hit(c, p)
  BY <1>1, BaseHit
<1>2. CASE LoadFindsNoFrame(c, p)
  BY <1>2, BaseReturn DEF LoadFindsNoFrame, BaseInv, TypeOK
<1>3. ASSUME NEW f \in Frames, LoadAndPin(c, p, f) PROVE BaseInv'
  BY <1>3, BaseLoadAndPin
<1>4. ASSUME NEW f \in Frames, LoadFlushFails(c, p, f) PROVE BaseInv'
  BY <1>4, BaseLoadFlushFails
<1>5. ASSUME NEW f \in Frames, LoadReadFails(c, p, f) PROVE BaseInv'
  BY <1>5, BaseLoadReadFails
<1>6. ASSUME NEW f \in Frames, LoadAborts(c, p, f) PROVE BaseInv'
  BY <1>6, BaseAborts DEF LoadAborts
<1> QED BY <1>1, <1>2, <1>3, <1>4, <1>5, <1>6 DEF FinishGet

LEMMA BaseWaits ==
  ASSUME BaseInv, NEW c \in Clients, NEW s, NEW what, Waits(c, s, what),
         \/ s = "get_wait" /\ what \in Pages
         \/ s = "delete_wait" /\ what \in Files
  PROVE  BaseInv'
<1>1. Moved(c, s)
  BY MoveMoves DEF BaseInv, TypeOK, Waits, PC
<1>2. CallTypes'
  <2>1. CallTyped(c)'
    BY <1>1 DEF Moved, CallTyped, Waits, BaseInv, TypeOK
  <2>2. \A d \in Clients \ {c} : arg'[d] = arg[d] /\ frame_m'[d] = frame_m[d]
    BY DEF Waits, BaseInv, TypeOK
  <2> QED BY <1>1, <2>1, <2>2, OthersKeepCalls DEF BaseInv
<1>3. TypeOK'
  BY <1>1 DEF Moved, Waits, BaseInv, TypeOK, ReplacerTypeOK, frameVars, replacerVars, fileVars
<1>4. MapConsistent'
  BY DEF BaseInv, MapConsistent, Cached, Waits, frameVars
<1> QED BY <1>2, <1>3, <1>4 DEF BaseInv

LEMMA BaseGetMutView ==
  ASSUME BaseInv, NEW c \in Clients, GetMutView(c)
  PROVE  BaseInv'
<1>1. Moved(c, "mutating")
  BY MoveMoves DEF BaseInv, TypeOK, GetMutView, PC
<1>2. CallTypes'
  <2>1. CallTyped(c)'
    BY <1>1 DEF Moved, GetMutView, At, BaseInv, CallTypes, CallTyped
  <2> QED BY <1>1, <2>1, OthersKeepCalls DEF GetMutView, BaseInv
<1>3. TypeOK'
  BY <1>1 DEF Moved, GetMutView, BaseInv, TypeOK, ReplacerTypeOK, replacerVars, fileVars
<1>4. MapConsistent'
  BY DEF BaseInv, MapConsistent, Cached, GetMutView
<1> QED BY <1>2, <1>3, <1>4 DEF BaseInv

LEMMA BaseStoreBytes ==
  ASSUME BaseInv, NEW c \in Clients, NEW v \in Versions, StoreBytes(c, v)
  PROVE  BaseInv'
<1>1. Moved(c, "holding")
  BY MoveMoves DEF BaseInv, TypeOK, StoreBytes, PC
<1>2. CallTypes'
  <2>1. CallTyped(c)'
    BY <1>1 DEF Moved, StoreBytes, At, BaseInv, CallTypes, CallTyped
  <2> QED BY <1>1, <2>1, OthersKeepCalls DEF StoreBytes, BaseInv
<1>3. data' \in [Frames -> Bytes]
  <2>1. <<arg[c], v>> \in Bytes
    BY DEF StoreBytes, At, BaseInv, CallTypes, CallTyped, Bytes
  <2> QED BY <2>1 DEF StoreBytes, BaseInv, TypeOK
<1>4. TypeOK'
  BY <1>1, <1>3 DEF Moved, StoreBytes, BaseInv, TypeOK, ReplacerTypeOK, replacerVars, fileVars
<1>5. MapConsistent'
  BY DEF BaseInv, MapConsistent, Cached, StoreBytes
<1> QED BY <1>2, <1>4, <1>5 DEF BaseInv

LEMMA BaseRemoveAccessor ==
  ASSUME BaseInv, NEW c \in Clients, RemoveAccessor(c)
  PROVE  BaseInv'
<1> DEFINE f == AccessorFrame(c)
<1>1. f \in Frames
  BY DEF RemoveAccessor, AccessorKnown, AccessorFrame, At, BaseInv, CallTypes, CallTyped, TypeOK
<1>2. Moved(c, "idle")
  BY MoveMoves, NotifyOneMoves DEF BaseInv, TypeOK, RemoveAccessor, At, PC
<1>3. /\ CallTypes'
      /\ pc' \in [Clients -> PC]
      /\ arg' \in [Clients -> Pages \cup Files \cup {NoPage}]
      /\ frame_m' \in [Clients -> Frames \cup {NoFrame}]
  BY <1>2, CallTypesAfterReturn DEF BaseInv, RemoveAccessor
<1>4. ReplacerTypeOK'
  <2>1. CASE SetEvictable(f, TRUE)
    BY <2>1, SetEvictableType DEF BaseInv, TypeOK
  <2>2. CASE UNCHANGED replacerVars
    BY <2>2 DEF BaseInv, TypeOK, ReplacerTypeOK, replacerVars
  <2> QED BY <2>1, <2>2 DEF RemoveAccessor
<1>5. TypeOK'
  <2>1. pin_count' \in [Frames -> Int]
    BY <1>1 DEF RemoveAccessor, BaseInv, TypeOK
  <2> QED BY <1>3, <1>4, <2>1 DEF RemoveAccessor, BaseInv, TypeOK, fileVars
<1>6. MapConsistent'
  BY DEF BaseInv, MapConsistent, Cached, RemoveAccessor
<1> QED BY <1>3, <1>5, <1>6 DEF BaseInv

\* The frames of a file's cached pages are frames.
LEMMA FramesOfType ==
  ASSUME TypeOK, NEW fl PROVE FramesOf(fl) \in SUBSET Frames
  BY DEF TypeOK, FramesOf, PagesOf, Cached

LEMMA BaseFinishDelete ==
  ASSUME BaseInv, NEW c \in Clients, NEW fl \in Files, FinishDelete(c, fl)
  PROVE  BaseInv'
<1>1. Moved(c, "idle")
  BY NotifyAllMoves DEF BaseInv, TypeOK, FinishDelete, PC
<1>2. /\ CallTypes'
      /\ pc' \in [Clients -> PC]
      /\ arg' \in [Clients -> Pages \cup Files \cup {NoPage}]
      /\ frame_m' \in [Clients -> Frames \cup {NoFrame}]
  BY <1>1, CallTypesAfterReturn DEF BaseInv, FinishDelete
<1>3. ReplacerTypeOK'
  BY FramesOfType, SetEvictableAllType DEF BaseInv, TypeOK, FinishDelete
<1>4. TypeOK'
  <2>1. page_map_m' \in [Pages -> Frames \cup {NoFrame}]
    BY DEF FinishDelete, BaseInv, TypeOK
  <2>2. is_dirty' \in [Frames -> BOOLEAN]
    BY DEF FinishDelete, BaseInv, TypeOK
  <2>3. files' \in SUBSET Files /\ retired' \in SUBSET Files /\ allocated' \in SUBSET Pages
    BY DEF FinishDelete, BaseInv, TypeOK, fileVars
  <2> QED BY <1>2, <1>3, <2>1, <2>2, <2>3 DEF FinishDelete, BaseInv, TypeOK
<1>5. MapConsistent'
  BY DEF BaseInv, TypeOK, MapConsistent, Cached, FinishDelete
<1> QED BY <1>2, <1>4, <1>5 DEF BaseInv

LEMMA BaseSpuriousWakeup ==
  ASSUME BaseInv, NEW c \in Clients, SpuriousWakeup(c)
  PROVE  BaseInv'
<1>1. pc[c] \in PC /\ WokenPC(pc[c]) \in PC
  BY WokenPhase DEF BaseInv, TypeOK
<1>2. Moved(c, WokenPC(pc[c]))
  BY <1>1, MoveMoves DEF BaseInv, TypeOK, SpuriousWakeup
<1>3. CallTypes'
  <2>1. CallTyped(c)'
    <3>1. pc'[c] = WokenPC(pc[c])
      BY <1>2 DEF Moved
    <3> QED BY <1>1, <3>1, WokenPhase DEF SpuriousWakeup, BaseInv, CallTypes, CallTyped
  <2> QED BY <1>2, <2>1, OthersKeepCalls DEF SpuriousWakeup, BaseInv
<1>4. TypeOK'
  BY <1>2 DEF Moved, SpuriousWakeup, BaseInv, TypeOK, ReplacerTypeOK, frameVars, replacerVars, fileVars
<1>5. MapConsistent'
  BY DEF BaseInv, MapConsistent, Cached, SpuriousWakeup, frameVars
<1> QED BY <1>3, <1>4, <1>5 DEF BaseInv

LEMMA BaseFiles ==
  ASSUME BaseInv,
         \/ \E fl \in Files : CreateFile(fl)
         \/ \E p \in Pages : AllocatePage(p)
  PROVE  BaseInv'
<1>1. UNCHANGED <<frameVars, replacerVars, running, clientVars, retired>>
  BY DEF CreateFile, AllocatePage
<1>2. /\ disk' \in [Pages -> Bytes]
      /\ files' \in SUBSET Files
      /\ allocated' \in SUBSET Pages
  <2>1. \A p \in Pages : <<p, Zero>> \in Bytes
    BY PoolAssumption DEF Bytes
  <2> QED BY <2>1 DEF CreateFile, AllocatePage, BaseInv, TypeOK
<1>3. TypeOK'
  BY <1>1, <1>2 DEF BaseInv, TypeOK, ReplacerTypeOK, frameVars, replacerVars, clientVars
<1>4. CallTypes' /\ MapConsistent'
  BY <1>1 DEF BaseInv, CallTypes, CallTyped, MapConsistent, Cached, frameVars, clientVars
<1> QED BY <1>3, <1>4 DEF BaseInv

LEMMA BaseShutdown ==
  ASSUME BaseInv, Shutdown
  PROVE  BaseInv'
<1>1. disk' \in [Pages -> Bytes]
  <2>1. PICK left \in [Pages -> UNION {FlushOutcomes(p) : p \in Pages}] :
          (\A p \in Pages : left[p] \in FlushOutcomes(p)) /\ disk' = left
    BY DEF Shutdown
  <2>2. \A p \in Pages : Cached(p) => data[page_map_m[p]] \in Bytes
    BY DEF Cached, BaseInv, TypeOK
  <2>3. \A p \in Pages : disk[p] \in Bytes
    BY DEF BaseInv, TypeOK
  <2>4. \A p \in Pages : FlushOutcomes(p) \subseteq Bytes
    BY <2>2, <2>3 DEF FlushOutcomes, WriteOutcomes, Bytes
  <2>5. \A p \in Pages : left[p] \in Bytes
    BY <2>1, <2>4
  <2> QED BY <2>1, <2>5
<1>2. TypeOK'
  BY <1>1 DEF Shutdown, BaseInv, TypeOK, ReplacerTypeOK, replacerVars, fileVars, clientVars
<1>3. CallTypes' /\ MapConsistent'
  BY DEF Shutdown, BaseInv, CallTypes, CallTyped, MapConsistent, Cached, clientVars
<1> QED BY <1>2, <1>3 DEF BaseInv

LEMMA BaseConstruct ==
  ASSUME BaseInv, Construct
  PROVE  BaseInv'
<1>1. TypeOK'
  BY ReplacerFreshType DEF Construct, BaseInv, TypeOK, ReplacerTypeOK, fileVars, clientVars
<1>2. CallTypes' /\ MapConsistent'
  BY DEF Construct, BaseInv, CallTypes, CallTyped, MapConsistent, Cached, clientVars
<1> QED BY <1>1, <1>2 DEF BaseInv

LEMMA BaseInit ==
  Init => BaseInv
<1> SUFFICES ASSUME Init PROVE BaseInv
  OBVIOUS
<1>1. TypeOK
  <2>1. \A p \in Pages : <<p, Zero>> \in Bytes
    BY PoolAssumption DEF Bytes
  <2>2. ReplacerTypeOK
    BY ReplacerFreshType DEF Init, ReplacerInit, ReplacerTypeOK
  <2> QED BY <2>1, <2>2, PoolAssumption DEF Init, TypeOK, Bytes, PC
<1>2. CallTypes /\ MapConsistent
  BY DEF Init, CallTypes, CallTyped, MapConsistent, Cached
<1> QED BY <1>1, <1>2 DEF BaseInv

\* One step per action of Next.
LEMMA BaseStep ==
  BaseInv /\ [Next]_vars => BaseInv'
<1> SUFFICES ASSUME BaseInv, [Next]_vars PROVE BaseInv'
  OBVIOUS
<1>1. ASSUME NEW c \in Clients, ClientStep(c) PROVE BaseInv'
  <2>1. ASSUME NEW p \in Pages, GetPage(c, p) PROVE BaseInv'
    BY <2>1, BaseFinishGet, BaseWaits DEF GetPage
  <2>2. ASSUME NEW p \in Pages, GetPageIfFrameAvailable(c, p) PROVE BaseInv'
    BY <2>2, BaseFinishGet DEF GetPageIfFrameAvailable
  <2>3. CASE ResumeGetPage(c)
    <3>1. arg[c] \in Pages
      BY <2>3 DEF ResumeGetPage, At, BaseInv, CallTypes, CallTyped
    <3> QED BY <2>3, <3>1, BaseFinishGet, BaseWaits DEF ResumeGetPage
  <2>4. CASE GetMutView(c)
    BY <2>4, BaseGetMutView
  <2>5. ASSUME NEW v \in Versions, StoreBytes(c, v) PROVE BaseInv'
    BY <2>5, BaseStoreBytes
  <2>6. CASE RemoveAccessor(c)
    BY <2>6, BaseRemoveAccessor
  <2>7. CASE AbortInRemoveAccessor(c)
    BY <2>7, BaseAborts DEF AbortInRemoveAccessor
  <2>8. ASSUME NEW fl \in Files, DeleteFile(c, fl) PROVE BaseInv'
    BY <2>8, BaseFinishDelete, BaseWaits DEF DeleteFile
  <2>9. CASE ResumeDeleteFile(c) \/ DeleteFileTimeout(c)
    <3>1. arg[c] \in Files
      BY <2>9 DEF ResumeDeleteFile, DeleteFileTimeout, At, BaseInv, CallTypes, CallTyped
    <3>2. CASE FinishDelete(c, arg[c])
      BY <3>1, <3>2, BaseFinishDelete
    <3>3. CASE Waits(c, "delete_wait", arg[c])
      BY <3>1, <3>3, BaseWaits
    <3>4. CASE Returns(c, "idle") /\ UNCHANGED <<frameVars, replacerVars, disk, fileVars, running>>
      BY <3>4, BaseReturn DEF BaseInv, TypeOK
    <3> QED BY <2>9, <3>2, <3>3, <3>4 DEF ResumeDeleteFile, DeleteFileTimeout
  <2>10. CASE SpuriousWakeup(c)
    BY <2>10, BaseSpuriousWakeup
  <2> QED BY <1>1, <2>1, <2>2, <2>3, <2>4, <2>5, <2>6, <2>7, <2>8, <2>9, <2>10 DEF ClientStep
<1>2. CASE \/ \E fl \in Files : CreateFile(fl)
           \/ \E p \in Pages : AllocatePage(p)
  BY <1>2, BaseFiles
<1>3. CASE Shutdown
  BY <1>3, BaseShutdown
<1>4. CASE Construct
  BY <1>4, BaseConstruct
<1>5. CASE UNCHANGED vars
  BY <1>5 DEF vars, frameVars, replacerVars, fileVars, clientVars, BaseInv, TypeOK,
              ReplacerTypeOK, CallTypes, CallTyped, MapConsistent, Cached
<1> QED BY <1>1, <1>2, <1>3, <1>4, <1>5 DEF Next

LEMMA BaseAlways ==
  Spec => []BaseInv
<1> QED BY BaseInit, BaseStep, PTL DEF Spec

\* Every variable keeps its type in every environment; in particular the size_t
\* count stays below SizeMod however often it is moved too far
\* (page_buffer_manager.cpp, lru_k_replacer.cpp:76-88).
THEOREM TypesCorrect == Spec => []TypeOK
<1>1. BaseInv => TypeOK
  BY DEF BaseInv
<1> QED BY <1>1, BaseAlways, PTL

\* In every environment, with any number of frames, clients and pages and
\* whatever reads, writes and removals fail: the map sends a cached page to a
\* frame that was loaded with it, so no two pages share a frame and FlushPage
\* never writes one page over another (page_buffer_manager.cpp:113-161).
THEOREM MapAgreesWithFrames == Spec => []MapConsistent
<1>1. BaseInv => MapConsistent
  BY DEF BaseInv
<1> QED BY <1>1, BaseAlways, PTL

-----------------------------------------------------------------------------
(* Counting the holders of a frame. *)

LEMMA HoldersFinite ==
  ASSUME NEW g
  PROVE  /\ IsFiniteSet(HoldersOn(g))
         /\ Cardinality(HoldersOn(g)) \in Nat
<1>1. HoldersOn(g) \subseteq Clients
  BY DEF HoldersOn, Holders
<1> QED BY <1>1, FS_Subset, FS_CardinalityType, PoolAssumption

\* A frame that somebody holds has a positive count, one that nobody holds has zero.
LEMMA HoldersCount ==
  ASSUME NEW g
  PROVE  Cardinality(HoldersOn(g)) = 0 <=> HoldersOn(g) = {}
  BY HoldersFinite, FS_EmptySet

\* c's new page on frame f is one more holder of f and of no other frame.
LEMMA OneMoreHolder ==
  ASSUME TypeOK, NEW c \in Clients, NEW f \in Frames, Moved(c, "holding"),
         c \notin Holders, frame_m' = [frame_m EXCEPT ![c] = f]
  PROVE  \A g \in Frames : Cardinality(HoldersOn(g)') =
           IF g = f THEN Cardinality(HoldersOn(g)) + 1 ELSE Cardinality(HoldersOn(g))
<1> SUFFICES ASSUME NEW g \in Frames
             PROVE  Cardinality(HoldersOn(g)') =
                      IF g = f THEN Cardinality(HoldersOn(g)) + 1 ELSE Cardinality(HoldersOn(g))
  OBVIOUS
<1>1. \A d \in Clients \ {c} : d \in HoldersOn(g)' <=> d \in HoldersOn(g)
  BY DEF HoldersOn, Holders, Moved, SamePhase, TypeOK
<1>2. c \notin HoldersOn(g) /\ (c \in HoldersOn(g)' <=> g = f)
  BY DEF HoldersOn, Holders, Moved, TypeOK
<1>3. HoldersOn(g) \subseteq Clients /\ HoldersOn(g)' \subseteq Clients
  BY DEF HoldersOn, Holders
<1>4. CASE g = f
  <2>1. HoldersOn(g)' = HoldersOn(g) \cup {c}
    BY <1>1, <1>2, <1>3, <1>4
  <2> QED BY <2>1, <1>2, <1>4, HoldersFinite, FS_AddElement
<1>5. CASE g # f
  BY <1>1, <1>2, <1>3, <1>5
<1> QED BY <1>4, <1>5

\* c's page on frame f goes away: one holder of f less.
LEMMA OneHolderLess ==
  ASSUME TypeOK, NEW c \in Clients, NEW f \in Frames, Moved(c, "idle"),
         c \in Holders, frame_m[c] = f, frame_m' = [frame_m EXCEPT ![c] = NoFrame]
  PROVE  \A g \in Frames : Cardinality(HoldersOn(g)') =
           IF g = f THEN Cardinality(HoldersOn(g)) - 1 ELSE Cardinality(HoldersOn(g))
<1> SUFFICES ASSUME NEW g \in Frames
             PROVE  Cardinality(HoldersOn(g)') =
                      IF g = f THEN Cardinality(HoldersOn(g)) - 1 ELSE Cardinality(HoldersOn(g))
  OBVIOUS
<1>1. \A d \in Clients \ {c} : d \in HoldersOn(g)' <=> d \in HoldersOn(g)
  BY DEF HoldersOn, Holders, Moved, SamePhase, TypeOK
<1>2. c \notin HoldersOn(g)' /\ (c \in HoldersOn(g) <=> g = f)
  BY DEF HoldersOn, Holders, Moved, TypeOK
<1>3. HoldersOn(g) \subseteq Clients /\ HoldersOn(g)' \subseteq Clients
  BY DEF HoldersOn, Holders
<1>4. CASE g = f
  <2>1. HoldersOn(g)' = HoldersOn(g) \ {c}
    BY <1>1, <1>2, <1>3, <1>4
  <2> QED BY <2>1, <1>2, <1>4, HoldersFinite, FS_RemoveElement
<1>5. CASE g # f
  BY <1>1, <1>2, <1>3, <1>5
<1> QED BY <1>4, <1>5

\* A step that neither gives nor takes a page leaves the holders alone.
LEMMA SameHolders ==
  ASSUME NEW c \in Clients, NEW s, Moved(c, s), frame_m' = frame_m,
         s \in {"holding", "mutating"} <=> c \in Holders
  PROVE  Holders' = Holders /\ \A g : HoldersOn(g)' = HoldersOn(g)
<1>1. \A d \in Clients : d \in Holders' <=> d \in Holders
  BY DEF Holders, Moved, SamePhase
<1>2. Holders' = Holders
  BY <1>1 DEF Holders
<1> QED BY <1>2 DEF HoldersOn

-----------------------------------------------------------------------------
(* Clients after a move of one of them. *)

LEMMA GettersAfterMove ==
  ASSUME TypeOK, GettersSafe, NEW c \in Clients, NEW s, Moved(c, s),
         s \notin {"get_wait", "get_woken"},
         arg'[c] \notin Files,
         \A d \in Clients \ {c} : arg'[d] = arg[d],
         allocated \subseteq allocated'
  PROVE  GettersSafe'
<1> SUFFICES ASSUME NEW d \in Clients, pc'[d] \in {"get_wait", "get_woken"}
             PROVE  arg'[d] \in allocated' /\ \A e \in Clients : arg'[e] # FileOf[arg'[d]]
  BY DEF GettersSafe
<1>1. d # c /\ SamePhase(d)
  BY DEF Moved
<1>2. arg'[d] = arg[d] /\ arg[d] \in allocated /\ \A e \in Clients : arg[e] # FileOf[arg[d]]
  BY <1>1 DEF SamePhase, GettersSafe
<1>3. FileOf[arg[d]] \in Files
  BY <1>2, PoolAssumption DEF TypeOK
<1> QED BY <1>2, <1>3

LEMMA LiveAfterMove ==
  ASSUME NoAbort, NEW c \in Clients, NEW s, Moved(c, s), s # "aborted", running'
  PROVE  NoAbort' /\ StoppedIdle'
  BY DEF NoAbort, Alive, StoppedIdle, Moved, SamePhase

-----------------------------------------------------------------------------
(* IInv, one lemma per kind of step.  c's request for page p is legitimate:   *)

Requested(p) == p \in allocated /\ \A d \in Clients : arg[d] # FileOf[p]

\* Steps that only move clients: a call that returns without a page or starts
\* to wait, a spurious wakeup.  The disk may have been written to.
LEMMA SafeClientOnly ==
  ASSUME IInv, BaseInv', NEW c \in Clients, NEW s, Moved(c, s), running, running',
         s \notin {"holding", "mutating", "aborted"}, c \notin Holders,
         UNCHANGED <<frameVars, replacerVars, fileVars, frame_m>>,
         \A d \in Clients \ {c} : arg'[d] = arg[d],
         CleanMatchesDisk', GettersSafe'
  PROVE  IInv'
<1>1. Holders' = Holders /\ \A g : HoldersOn(g)' = HoldersOn(g)
  BY SameHolders
<1>2. HoldersResident'
  <2>1. \A h \in Holders : h # c /\ h \in Clients
    BY DEF Holders
  <2> QED BY <1>1, <2>1 DEF IInv, HoldersResident, frameVars
<1>3. PinAccounting' /\ EvictableIffUnpinned'
  BY <1>1 DEF IInv, PinAccounting, EvictableIffUnpinned, frameVars, replacerVars
<1>4. StaleFramesHarmless' /\ FilesAccounted'
  BY DEF IInv, StaleFramesHarmless, FilesAccounted, Cached, frameVars, fileVars
<1>5. MutatorsDirty'
  BY DEF IInv, MutatorsDirty, Moved, SamePhase, frameVars
<1>6. NoAbort' /\ StoppedIdle'
  BY LiveAfterMove DEF IInv
<1> QED BY <1>2, <1>3, <1>4, <1>5, <1>6 DEF IInv

LEMMA SafeReturn ==
  ASSUME IInv, NEW c \in Clients, NEW s \in {"idle", "no_frame"}, Returns(c, s),
         running, c \notin Holders,
         UNCHANGED <<frameVars, replacerVars, fileVars, running>>,
         disk' \in [Pages -> Bytes], CleanMatchesDisk'
  PROVE  IInv'
<1>1. BaseInv'
  BY BaseReturn DEF IInv
<1>2. Moved(c, s)
  BY MoveMoves DEF IInv, BaseInv, TypeOK, Returns, PC
<1>3. arg'[c] = NoPage /\ \A d \in Clients \ {c} : arg'[d] = arg[d]
  BY DEF Returns, IInv, BaseInv, TypeOK
<1>4. GettersSafe'
  BY <1>2, <1>3, GettersAfterMove, PoolAssumption DEF IInv, BaseInv, fileVars
<1> QED BY <1>1, <1>2, <1>3, <1>4, SafeClientOnly DEF Returns

LEMMA SafeWaitsForFrame ==
  ASSUME IInv, NEW c \in Clients, NEW p \in Pages, Requested(p), Waits(c, "get_wait", p),
         running, c \notin Holders
  PROVE  IInv'
<1>1. BaseInv'
  BY BaseWaits DEF IInv
<1>2. Moved(c, "get_wait")
  BY MoveMoves DEF IInv, BaseInv, TypeOK, Waits, PC
<1>3. arg'[c] = p /\ \A d \in Clients \ {c} : arg'[d] = arg[d]
  BY DEF Waits, IInv, BaseInv, TypeOK
<1>4. p \notin Files /\ \A q \in Pages : FileOf[q] \in Files
  BY PoolAssumption
<1>5. GettersSafe'
  <2> SUFFICES ASSUME NEW d \in Clients, pc'[d] \in {"get_wait", "get_woken"}
               PROVE  arg'[d] \in allocated' /\ \A e \in Clients : arg'[e] # FileOf[arg'[d]]
    BY DEF GettersSafe
  <2>1. arg'[d] \in allocated /\ \A e \in Clients : arg[e] # FileOf[arg'[d]]
    <3>1. CASE d = c
      BY <3>1, <1>3 DEF Requested
    <3>2. CASE d # c
      BY <3>2, <1>2, <1>3 DEF Moved, SamePhase, IInv, GettersSafe
    <3> QED BY <3>1, <3>2
  <2>2. FileOf[arg'[d]] \in Files /\ allocated' = allocated
    BY <2>1, <1>4 DEF IInv, BaseInv, TypeOK, Waits, fileVars
  <2> QED BY <2>1, <2>2, <1>3, <1>4
<1>6. CleanMatchesDisk'
  BY DEF Waits, IInv, CleanMatchesDisk, Cached, frameVars
<1> QED BY <1>1, <1>2, <1>3, <1>5, <1>6, SafeClientOnly DEF Waits

LEMMA SafeWaitsForRelease ==
  ASSUME IInv, NEW c \in Clients, NEW fl \in Files, Waits(c, "delete_wait", fl),
         running, c \notin Holders,
         \A d \in Clients : pc[d] \in {"get_wait", "get_woken"} => FileOf[arg[d]] # fl
  PROVE  IInv'
<1>1. BaseInv'
  BY BaseWaits DEF IInv
<1>2. Moved(c, "delete_wait")
  BY MoveMoves DEF IInv, BaseInv, TypeOK, Waits, PC
<1>3. arg'[c] = fl /\ \A d \in Clients \ {c} : arg'[d] = arg[d]
  BY DEF Waits, IInv, BaseInv, TypeOK
<1>4. GettersSafe'
  <2> SUFFICES ASSUME NEW d \in Clients, pc'[d] \in {"get_wait", "get_woken"}
               PROVE  arg'[d] \in allocated' /\ \A e \in Clients : arg'[e] # FileOf[arg'[d]]
    BY DEF GettersSafe
  <2>1. d # c /\ pc[d] \in {"get_wait", "get_woken"}
    BY <1>2 DEF Moved, SamePhase
  <2> QED BY <2>1, <1>3 DEF IInv, GettersSafe, Waits, fileVars
<1>5. CleanMatchesDisk'
  BY DEF Waits, IInv, CleanMatchesDisk, Cached, frameVars
<1> QED BY <1>1, <1>2, <1>3, <1>4, <1>5, SafeClientOnly DEF Waits

LEMMA SafeSpuriousWakeup ==
  ASSUME IInv, NEW c \in Clients, SpuriousWakeup(c)
  PROVE  IInv'
<1>1. BaseInv'
  BY BaseSpuriousWakeup DEF IInv
<1>2. pc[c] \in PC /\ WokenPC(pc[c]) \in {"get_woken", "delete_woken"} /\ c \notin Holders
  BY DEF SpuriousWakeup, Waiters, Holders, WokenPC, PC
<1>3. Moved(c, WokenPC(pc[c]))
  BY <1>2, WokenPhase, MoveMoves DEF IInv, BaseInv, TypeOK, SpuriousWakeup
<1>4. pc[c] = "get_wait" <=> WokenPC(pc[c]) = "get_woken"
  BY <1>2 DEF SpuriousWakeup, Waiters, WokenPC
<1>5. GettersSafe'
  <2>1. \A d \in Clients : pc'[d] \in {"get_wait", "get_woken"} => pc[d] \in {"get_wait", "get_woken"}
    BY <1>2, <1>3, <1>4 DEF Moved, SamePhase
  <2> QED BY <2>1 DEF IInv, GettersSafe, SpuriousWakeup, fileVars
<1>6. CleanMatchesDisk'
  BY DEF SpuriousWakeup, IInv, CleanMatchesDisk, Cached, frameVars
<1> QED BY <1>1, <1>2, <1>3, <1>5, <1>6, SafeClientOnly DEF SpuriousWakeup

\* What SetEvictable does to the flags.
LEMMA FlagSet ==
  ASSUME TypeOK, NEW f \in Frames, NEW b \in BOOLEAN, SetEvictable(f, b)
  PROVE  \A g \in Frames : is_evictable'[g] <=> IF g = f THEN b ELSE is_evictable[g]
  BY DEF TypeOK, ReplacerTypeOK, SetEvictable

LEMMA SafeHit ==
  ASSUME IInv, NEW c \in Clients, NEW p \in Pages, Hit(c, p), running, c \notin Holders
  PROVE  IInv'
<1> DEFINE f == page_map_m[p]
<1>1. f \in Frames /\ TypeOK
  BY DEF Hit, Cached, IInv, BaseInv, TypeOK
<1>2. BaseInv'
  BY BaseHit DEF IInv
<1>3. Moved(c, "holding")
  BY MoveMoves DEF IInv, BaseInv, TypeOK, Hit, PC
<1>4. /\ arg'[c] = p /\ frame_m'[c] = f
      /\ \A d \in Clients \ {c} : arg'[d] = arg[d] /\ frame_m'[d] = frame_m[d]
  BY DEF Hit, ReturnsPage, IInv, BaseInv, TypeOK
<1>5. \A g \in Frames : pin_count'[g] = IF g = f THEN pin_count[g] + 1 ELSE pin_count[g]
  BY <1>1 DEF Hit, TypeOK
<1>6. HoldersResident'
  BY <1>3, <1>4 DEF HoldersResident, Holders, Moved, SamePhase, Hit, IInv
<1>7. PinAccounting'
  BY <1>1, <1>3, <1>5, OneMoreHolder DEF Hit, ReturnsPage, IInv, PinAccounting
<1>8. EvictableIffUnpinned'
  <2>1. pin_count[f] \in Nat
    BY <1>1, HoldersFinite DEF IInv, PinAccounting
  <2>2. \A g \in Frames : is_evictable'[g] <=> g # f /\ is_evictable[g]
    BY <1>1, FlagSet DEF Hit
  <2> QED BY <2>1, <2>2, <1>1, <1>5 DEF IInv, EvictableIffUnpinned
<1>9. CleanMatchesDisk' /\ StaleFramesHarmless' /\ FilesAccounted'
  BY DEF Hit, IInv, CleanMatchesDisk, StaleFramesHarmless, FilesAccounted, Cached, fileVars
<1>10. MutatorsDirty'
  BY <1>3, <1>4 DEF Hit, IInv, MutatorsDirty, Moved, SamePhase
<1>11. GettersSafe'
  BY <1>1, <1>3, <1>4, GettersAfterMove, PoolAssumption DEF Hit, IInv, fileVars
<1>12. NoAbort' /\ StoppedIdle'
  BY <1>3, LiveAfterMove DEF Hit, IInv
<1> QED BY <1>2, <1>6, <1>7, <1>8, <1>9, <1>10, <1>11, <1>12 DEF IInv

\* While the manager runs, a page id that a frame still carries is mapped to that
\* frame or to none: an erase by page id cannot hit another frame's page.
LEMMA EraseHitsOwnFrame ==
  ASSUME IInv, running, NEW f \in Frames
  PROVE  /\ fp_id[f] \in Pages /\ Cached(fp_id[f]) => page_map_m[fp_id[f]] = f
         /\ is_dirty[f] => fp_id[f] \in Pages /\ page_map_m[fp_id[f]] = f
<1>1. fp_id[f] \in Pages \cup {NoPage}
  BY DEF IInv, BaseInv, TypeOK
<1>2. is_dirty[f] => fp_id[f] \in Pages /\ page_map_m[fp_id[f]] = f
  BY <1>1 DEF IInv, StaleFramesHarmless
<1>3. ASSUME fp_id[f] \in Pages, Cached(fp_id[f]), page_map_m[fp_id[f]] # f PROVE FALSE
  <2>1. FileOf[fp_id[f]] \in retired
    BY <1>3, PoolAssumption DEF IInv, StaleFramesHarmless
  <2>2. FileOf[fp_id[f]] \in files
    BY <1>3 DEF IInv, FilesAccounted
  <2> QED BY <2>1, <2>2 DEF IInv, FilesAccounted
<1> QED BY <1>2, <1>3

LEMMA SafeLoadAndPin ==
  ASSUME IInv, NEW c \in Clients, NEW p \in Pages, NEW f \in Frames, LoadAndPin(c, p, f),
         running, c \notin Holders
  PROVE  IInv'
<1>1. TypeOK /\ BaseInv' /\ TypeOK'
  BY BaseLoadAndPin DEF IInv, BaseInv
<1>2. Moved(c, "holding")
  BY <1>1, NotifyAllMoves DEF TypeOK, LoadAndPin, PC
<1>3. /\ arg'[c] = p /\ frame_m'[c] = f
      /\ \A d \in Clients \ {c} : arg'[d] = arg[d] /\ frame_m'[d] = frame_m[d]
  BY <1>1 DEF LoadAndPin, ReturnsPage, TypeOK
<1>4. pin_count[f] = 0 /\ HoldersOn(f) = {}
  BY HoldersCount DEF LoadAndPin, IsVictim, IInv, EvictableIffUnpinned, PinAccounting
<1>5. \A g \in Frames : /\ pin_count'[g] = IF g = f THEN 1 ELSE pin_count[g]
                        /\ fp_id'[g] = IF g = f THEN p ELSE fp_id[g]
                        /\ is_dirty'[g] <=> g # f /\ is_dirty[g]
                        /\ data'[g] = IF g = f THEN disk'[p] ELSE data[g]
  BY <1>1 DEF LoadAndPin, TypeOK
\* The map: p is in f, nothing else is, and other frames keep their pages.
<1>6. /\ page_map_m'[p] = f
      /\ \A q \in Pages \ {p} :
           page_map_m'[q] = IF q = fp_id[f] THEN NoFrame ELSE page_map_m[q]
      /\ \A q \in Pages \ {p} : page_map_m'[q] # f
  <2>1. /\ page_map_m'[p] = f
        /\ \A q \in Pages \ {p} :
             page_map_m'[q] = IF q = fp_id[f] THEN NoFrame ELSE page_map_m[q]
    BY <1>1 DEF LoadAndPin, MapWithout
  <2>2. \A q \in Pages : page_map_m[q] = f => q = fp_id[f]
    BY PoolAssumption DEF IInv, BaseInv, MapConsistent, Cached
  <2> QED BY <2>1, <2>2, PoolAssumption
<1>7. \A q \in Pages : q # p /\ page_map_m[q] \in Frames \ {f} => page_map_m'[q] = page_map_m[q]
  BY <1>6, EraseHitsOwnFrame, PoolAssumption DEF Cached
<1>8. HoldersResident'
  <2> SUFFICES ASSUME NEW h \in Holders' PROVE page_map_m'[arg'[h]] = frame_m'[h]
    BY DEF HoldersResident
  <2>1. CASE h = c
    BY <2>1, <1>3, <1>6
  <2>2. CASE h # c
    <3>1. h \in Holders /\ h \in Clients /\ arg'[h] = arg[h] /\ frame_m'[h] = frame_m[h]
      BY <2>2, <1>2, <1>3 DEF Holders, Moved, SamePhase
    <3>2. arg[h] \in Pages /\ frame_m[h] \in Frames /\ page_map_m[arg[h]] = frame_m[h]
      BY <3>1 DEF Holders, IInv, BaseInv, CallTypes, CallTyped, HoldersResident
    <3>3. frame_m[h] # f /\ arg[h] # p
      BY <3>1, <3>2, <1>4, PoolAssumption DEF HoldersOn, LoadAndPin, Cached
    <3> QED BY <3>1, <3>2, <3>3, <1>7
  <2> QED BY <2>1, <2>2
<1>9. PinAccounting'
  <2>1. \A g \in Frames : Cardinality(HoldersOn(g)') =
           IF g = f THEN Cardinality(HoldersOn(g)) + 1 ELSE Cardinality(HoldersOn(g))
    BY <1>1, <1>2, OneMoreHolder DEF LoadAndPin, ReturnsPage
  <2>2. Cardinality(HoldersOn(f)) = 0
    BY <1>4 DEF IInv, PinAccounting
  <2>3. ASSUME NEW g \in Frames PROVE pin_count'[g] = Cardinality(HoldersOn(g)')
    BY <2>1, <2>2, <1>5 DEF IInv, PinAccounting
  <2> QED BY <2>3 DEF PinAccounting
<1>10. EvictableIffUnpinned'
  <2>1. \A g \in Frames : is_evictable'[g] <=> g # f /\ is_evictable[g]
    BY <1>1, FlagSet DEF LoadAndPin
  <2> QED BY <2>1, <1>5 DEF IInv, EvictableIffUnpinned
<1>11. CleanMatchesDisk'
  <2> SUFFICES ASSUME NEW q \in Pages, page_map_m'[q] # NoFrame, ~is_dirty'[page_map_m'[q]]
               PROVE  data'[page_map_m'[q]] = disk'[q]
    BY DEF CleanMatchesDisk, Cached
  <2>1. CASE q = p
    BY <2>1, <1>5, <1>6
  <2>2. CASE q # p
    <3>1. q # fp_id[f] /\ page_map_m'[q] = page_map_m[q] /\ page_map_m[q] \in Frames \ {f}
      BY <2>2, <1>1, <1>6 DEF TypeOK
    <3>2. data[page_map_m[q]] = disk[q]
      BY <3>1, <1>5, PoolAssumption DEF IInv, CleanMatchesDisk, Cached
    <3>3. disk'[q] = disk[q]
      BY <3>1, <1>1 DEF LoadAndPin, FlushedDisk, TypeOK
    <3> QED BY <3>1, <3>2, <3>3, <1>5
  <2> QED BY <2>1, <2>2
<1>12. StaleFramesHarmless'
  <2> SUFFICES ASSUME NEW g \in Frames
               PROVE  /\ fp_id'[g] = NoPage => ~is_dirty'[g]
                      /\ fp_id'[g] # NoPage /\ page_map_m'[fp_id'[g]] # g =>
                           ~is_dirty'[g] /\ FileOf[fp_id'[g]] \in retired'
    BY DEF StaleFramesHarmless
  <2>1. CASE g = f
    BY <2>1, <1>5, <1>6, PoolAssumption
  <2>2. CASE g # f
    <3>1. fp_id'[g] = fp_id[g] /\ is_dirty'[g] = is_dirty[g] /\ retired' = retired
      BY <2>2, <1>5 DEF LoadAndPin, fileVars
    <3>2. fp_id[g] \in Pages /\ page_map_m[fp_id[g]] = g => page_map_m'[fp_id[g]] = g
      BY <2>2, <1>7, PoolAssumption DEF LoadAndPin, Cached
    <3>3. fp_id[g] \in Pages \cup {NoPage}
      BY <1>1 DEF TypeOK
    <3> QED BY <3>1, <3>2, <3>3 DEF IInv, StaleFramesHarmless
  <2> QED BY <2>1, <2>2
<1>13. MutatorsDirty'
  <2> SUFFICES ASSUME NEW d \in Clients, pc'[d] = "mutating" PROVE is_dirty'[frame_m'[d]]
    BY DEF MutatorsDirty
  <2>1. d # c /\ pc[d] = "mutating" /\ frame_m'[d] = frame_m[d]
    BY <1>2, <1>3 DEF Moved, SamePhase
  <2>2. frame_m[d] \in Frames \ {f} /\ is_dirty[frame_m[d]]
    BY <2>1, <1>4 DEF IInv, BaseInv, CallTypes, CallTyped, MutatorsDirty, HoldersOn, Holders
  <2> QED BY <2>1, <2>2, <1>5
<1>14. FilesAccounted'
  BY <1>6 DEF LoadAndPin, IInv, FilesAccounted, Cached, fileVars
<1>15. GettersSafe'
  BY <1>1, <1>2, <1>3, GettersAfterMove, PoolAssumption DEF LoadAndPin, IInv, fileVars
<1>16. NoAbort' /\ StoppedIdle'
  BY <1>2, LiveAfterMove DEF LoadAndPin, IInv
<1> QED BY <1>1, <1>8, <1>9, <1>10, <1>11, <1>12, <1>13, <1>14, <1>15, <1>16 DEF IInv

LEMMA SafeLoadFlushFails ==
  ASSUME IInv, NEW c \in Clients, NEW p \in Pages, NEW f \in Frames, LoadFlushFails(c, p, f),
         running, c \notin Holders
  PROVE  IInv'
<1>1. fp_id[f] \in Pages /\ page_map_m[fp_id[f]] = f
  BY EraseHitsOwnFrame DEF LoadFlushFails
<1>2. PICK b \in WriteOutcomes(fp_id[f]) : disk' = [disk EXCEPT ![fp_id[f]] = b]
  BY <1>1, PoolAssumption DEF LoadFlushFails, Flushable, Cached
<1>3. b \in Bytes
  BY <1>1, <1>2 DEF WriteOutcomes, Bytes, IInv, BaseInv, TypeOK
<1>4. disk' \in [Pages -> Bytes]
  BY <1>2, <1>3 DEF IInv, BaseInv, TypeOK
\* The page whose write failed is still dirty.
<1>5. CleanMatchesDisk'
  <2>1. \A q \in Pages \ {fp_id[f]} : disk'[q] = disk[q]
    BY <1>2 DEF IInv, BaseInv, TypeOK
  <2> QED BY <1>1, <2>1 DEF LoadFlushFails, IInv, CleanMatchesDisk, Cached, frameVars
<1> QED BY <1>4, <1>5, SafeReturn DEF LoadFlushFails

LEMMA SafeFinishGet ==
  ASSUME SafeEnvironment, IInv, NEW c \in Clients, NEW p \in Pages, FinishGet(c, p),
         running, c \notin Holders, Requested(p)
  PROVE  IInv'
<1>1. FileOf[p] \in files /\ p \in allocated /\ p \notin ReadFaults
  BY DEF Requested, IInv, FilesAccounted, SafeEnvironment
<1>2. CASE Hit(c, p)
  BY <1>2, SafeHit
<1>3. CASE LoadFindsNoFrame(c, p)
  <2>1. CleanMatchesDisk' /\ disk' \in [Pages -> Bytes]
    BY <1>3 DEF LoadFindsNoFrame, IInv, BaseInv, TypeOK, CleanMatchesDisk, Cached, frameVars
  <2> QED BY <1>3, <2>1, SafeReturn DEF LoadFindsNoFrame
<1>4. ASSUME NEW f \in Frames, LoadAndPin(c, p, f) PROVE IInv'
  BY <1>4, SafeLoadAndPin
<1>5. ASSUME NEW f \in Frames, LoadFlushFails(c, p, f) PROVE IInv'
  BY <1>5, SafeLoadFlushFails
<1>6. ASSUME NEW f \in Frames, LoadReadFails(c, p, f) \/ LoadAborts(c, p, f) PROVE FALSE
  BY <1>1, <1>6 DEF LoadReadFails, LoadAborts
<1> QED BY <1>2, <1>3, <1>4, <1>5, <1>6 DEF FinishGet

LEMMA SafeGetMutView ==
  ASSUME IInv, NEW c \in Clients, GetMutView(c)
  PROVE  IInv'
<1> DEFINE f == frame_m[c]
<1>1. TypeOK /\ BaseInv' /\ running /\ c \in Holders
  BY BaseGetMutView DEF IInv, BaseInv, GetMutView, At, Holders
<1>2. Moved(c, "mutating")
  BY <1>1, MoveMoves DEF TypeOK, GetMutView, PC
<1>3. f \in Frames /\ arg[c] \in Pages /\ page_map_m[arg[c]] = f /\ fp_id[f] = arg[c]
  <2>1. f \in Frames /\ arg[c] \in Pages /\ page_map_m[arg[c]] = f
    BY <1>1 DEF Holders, IInv, BaseInv, CallTypes, CallTyped, HoldersResident
  <2> QED BY <2>1, PoolAssumption DEF IInv, BaseInv, MapConsistent, Cached
<1>4. Holders' = Holders /\ \A g : HoldersOn(g)' = HoldersOn(g)
  BY <1>1, <1>2, SameHolders DEF GetMutView
<1>5. \A g \in Frames : is_dirty'[g] <=> g = f \/ is_dirty[g]
  BY <1>1, <1>3 DEF GetMutView, TypeOK
<1>6. HoldersResident' /\ PinAccounting' /\ EvictableIffUnpinned'
  BY <1>4 DEF GetMutView, IInv, HoldersResident, PinAccounting, EvictableIffUnpinned, replacerVars
<1>7. CleanMatchesDisk'
  BY <1>1, <1>5 DEF GetMutView, IInv, CleanMatchesDisk, Cached, TypeOK
<1>8. StaleFramesHarmless'
  BY <1>3, <1>5, PoolAssumption DEF GetMutView, IInv, StaleFramesHarmless, fileVars
<1>9. MutatorsDirty'
  <2> SUFFICES ASSUME NEW d \in Clients, pc'[d] = "mutating" PROVE is_dirty'[frame_m'[d]]
    BY DEF MutatorsDirty
  <2>1. CASE d = c
    BY <2>1, <1>3, <1>5 DEF GetMutView
  <2>2. CASE d # c
    <3>1. pc[d] = "mutating"
      BY <2>2, <1>2 DEF Moved, SamePhase
    <3>2. frame_m[d] \in Frames /\ is_dirty[frame_m[d]]
      BY <3>1 DEF IInv, BaseInv, CallTypes, CallTyped, MutatorsDirty
    <3> QED BY <3>2, <1>5 DEF GetMutView
  <2> QED BY <2>1, <2>2
<1>10. FilesAccounted'
  BY DEF GetMutView, IInv, FilesAccounted, Cached, fileVars
<1>11. GettersSafe'
  BY <1>1, <1>2, <1>3, GettersAfterMove, PoolAssumption DEF GetMutView, IInv, fileVars
<1>12. NoAbort' /\ StoppedIdle'
  BY <1>1, <1>2, LiveAfterMove DEF GetMutView, IInv
<1> QED BY <1>1, <1>6, <1>7, <1>8, <1>9, <1>10, <1>11, <1>12 DEF IInv

LEMMA SafeStoreBytes ==
  ASSUME IInv, NEW c \in Clients, NEW v \in Versions, StoreBytes(c, v)
  PROVE  IInv'
<1>1. TypeOK /\ BaseInv' /\ running /\ c \in Holders
  BY BaseStoreBytes DEF IInv, BaseInv, StoreBytes, At, Holders
<1>2. Moved(c, "holding")
  BY <1>1, MoveMoves DEF TypeOK, StoreBytes, PC
<1>3. Holders' = Holders /\ \A g : HoldersOn(g)' = HoldersOn(g)
  BY <1>1, <1>2, SameHolders DEF StoreBytes
<1>4. HoldersResident' /\ PinAccounting' /\ EvictableIffUnpinned'
  BY <1>3 DEF StoreBytes, IInv, HoldersResident, PinAccounting, EvictableIffUnpinned, replacerVars
\* The frame stored into is dirty.
<1>5. CleanMatchesDisk'
  <2>1. is_dirty[frame_m[c]]
    BY DEF StoreBytes, At, IInv, MutatorsDirty
  <2>2. \A g \in Frames : g # frame_m[c] => data'[g] = data[g]
    BY <1>1 DEF StoreBytes, TypeOK
  <2> QED BY <1>1, <2>1, <2>2 DEF StoreBytes, IInv, CleanMatchesDisk, Cached, TypeOK
<1>6. StaleFramesHarmless' /\ FilesAccounted'
  BY DEF StoreBytes, IInv, StaleFramesHarmless, FilesAccounted, Cached, fileVars
<1>7. MutatorsDirty'
  BY <1>2 DEF StoreBytes, IInv, MutatorsDirty, Moved, SamePhase
<1>8. GettersSafe'
  <2>1. arg[c] \in Pages
    BY DEF StoreBytes, At, IInv, BaseInv, CallTypes, CallTyped
  <2> QED BY <1>1, <1>2, <2>1, GettersAfterMove, PoolAssumption DEF StoreBytes, IInv, fileVars
<1>9. NoAbort' /\ StoppedIdle'
  BY <1>1, <1>2, LiveAfterMove DEF StoreBytes, IInv
<1> QED BY <1>1, <1>4, <1>5, <1>6, <1>7, <1>8, <1>9 DEF IInv

\* ~Page finds the frame it points to, pinned: both assertions of RemoveAccessor hold.
LEMMA AccessorFound ==
  ASSUME IInv, NEW c \in Holders
  PROVE  /\ AccessorFrame(c) = frame_m[c] /\ frame_m[c] \in Frames
         /\ pin_count[frame_m[c]] \in Nat \ {0}
         /\ AccessorKnown(c)
<1> DEFINE f == frame_m[c]
<1>1. c \in Clients /\ f \in Frames /\ arg[c] \in Pages /\ page_map_m[arg[c]] = f
  BY DEF Holders, IInv, BaseInv, CallTypes, CallTyped, HoldersResident
<1>2. fp_id[f] = arg[c]
  BY <1>1, PoolAssumption DEF IInv, BaseInv, MapConsistent, Cached
<1>3. AccessorFrame(c) = f
  BY <1>1, <1>2, PoolAssumption DEF AccessorFrame
<1>4. pin_count[f] \in Nat /\ pin_count[f] # 0
  <2>1. c \in HoldersOn(f)
    BY DEF HoldersOn
  <2>2. Cardinality(HoldersOn(f)) \in Nat /\ Cardinality(HoldersOn(f)) # 0
    BY <2>1, HoldersFinite, HoldersCount
  <2> QED BY <1>1, <2>2 DEF IInv, PinAccounting
<1> QED BY <1>1, <1>3, <1>4, PoolAssumption DEF AccessorKnown

LEMMA SafeRemoveAccessor ==
  ASSUME IInv, NEW c \in Clients, RemoveAccessor(c)
  PROVE  IInv'
<1> DEFINE f == frame_m[c]
<1>1. TypeOK /\ BaseInv' /\ running /\ c \in Holders
  BY BaseRemoveAccessor DEF IInv, BaseInv, RemoveAccessor, At, Holders
<1>2. Moved(c, "idle")
  BY <1>1, MoveMoves, NotifyOneMoves DEF TypeOK, RemoveAccessor, At, PC
<1>3. f \in Frames /\ AccessorFrame(c) = f /\ pin_count[f] \in Nat \ {0}
  BY <1>1, AccessorFound
<1>4. /\ arg'[c] = NoPage
      /\ \A d \in Clients \ {c} : arg'[d] = arg[d] /\ frame_m'[d] = frame_m[d]
  BY <1>1 DEF RemoveAccessor, TypeOK
<1>5. \A g \in Frames : pin_count'[g] = IF g = f THEN pin_count[g] - 1 ELSE pin_count[g]
  BY <1>1, <1>3 DEF RemoveAccessor, TypeOK
<1>6. HoldersResident'
  BY <1>2, <1>4 DEF HoldersResident, Holders, Moved, SamePhase, RemoveAccessor, IInv
<1>7. PinAccounting'
  <2>1. \A g \in Frames : Cardinality(HoldersOn(g)') =
          IF g = f THEN Cardinality(HoldersOn(g)) - 1 ELSE Cardinality(HoldersOn(g))
    BY <1>1, <1>2, <1>3, OneHolderLess DEF RemoveAccessor
  <2> QED BY <2>1, <1>5 DEF IInv, PinAccounting
<1>8. EvictableIffUnpinned'
  <2>1. CASE pin_count[f] = 1
    <3>1. \A g \in Frames : is_evictable'[g] <=> IF g = f THEN TRUE ELSE is_evictable[g]
      BY <1>1, <1>3, <2>1, FlagSet DEF RemoveAccessor
    <3> QED BY <3>1, <2>1, <1>3, <1>5 DEF IInv, EvictableIffUnpinned
  <2>2. CASE pin_count[f] # 1
    <3>1. is_evictable' = is_evictable
      BY <2>2, <1>3 DEF RemoveAccessor, replacerVars
    <3>2. pin_count[f] # 0 /\ pin_count'[f] # 0 /\ \A g \in Frames : g # f => pin_count'[g] = pin_count[g]
      BY <2>2, <1>3, <1>5
    <3> QED BY <3>1, <3>2, <1>3 DEF IInv, EvictableIffUnpinned
  <2> QED BY <2>1, <2>2
<1>9. CleanMatchesDisk' /\ StaleFramesHarmless' /\ FilesAccounted'
  BY DEF RemoveAccessor, IInv, CleanMatchesDisk, StaleFramesHarmless, FilesAccounted, Cached, fileVars
<1>10. MutatorsDirty'
  BY <1>2, <1>4 DEF RemoveAccessor, IInv, MutatorsDirty, Moved, SamePhase
<1>11. GettersSafe'
  BY <1>1, <1>2, <1>4, GettersAfterMove, PoolAssumption DEF RemoveAccessor, IInv, fileVars
<1>12. NoAbort' /\ StoppedIdle'
  BY <1>1, <1>2, LiveAfterMove DEF RemoveAccessor, IInv
<1> QED BY <1>1, <1>6, <1>7, <1>8, <1>9, <1>10, <1>11, <1>12 DEF IInv

LEMMA SafeFinishDelete ==
  ASSUME SafeEnvironment, IInv, NEW c \in Clients, NEW fl \in Files, FinishDelete(c, fl),
         running, c \notin Holders,
         \A d \in Clients : pc[d] \in {"get_wait", "get_woken"} => FileOf[arg[d]] # fl
  PROVE  IInv'
<1>1. TypeOK /\ BaseInv'
  BY BaseFinishDelete DEF IInv, BaseInv
<1>2. Moved(c, "idle")
  BY <1>1, NotifyAllMoves DEF TypeOK, FinishDelete, PC
<1>3. arg'[c] = NoPage /\ \A d \in Clients \ {c} : arg'[d] = arg[d]
  BY <1>1 DEF FinishDelete, TypeOK
<1>4. Holders' = Holders /\ \A g : HoldersOn(g)' = HoldersOn(g)
  BY <1>2, SameHolders DEF FinishDelete
<1>5. \A p \in Pages : page_map_m'[p] = IF FileOf[p] = fl THEN NoFrame ELSE page_map_m[p]
  BY DEF FinishDelete
\* Nobody has pinned a frame that is given back.
<1>6. \A g \in FramesOf(fl) : g \in Frames /\ pin_count[g] = 0 /\ HoldersOn(g) = {}
  <2> SUFFICES ASSUME NEW g \in FramesOf(fl)
               PROVE  g \in Frames /\ pin_count[g] = 0 /\ HoldersOn(g) = {}
    OBVIOUS
  <2>1. g \in Frames /\ ~(pin_count[g] > 0)
    BY <1>1, FramesOfType DEF FinishDelete, FileHasPinnedPages, FramesOf
  <2>2. pin_count[g] = Cardinality(HoldersOn(g)) /\ Cardinality(HoldersOn(g)) \in Nat
    BY <2>1, HoldersFinite DEF IInv, PinAccounting
  <2> QED BY <2>1, <2>2, HoldersCount
<1>7. \A g \in Frames : is_dirty'[g] <=> g \notin FramesOf(fl) /\ is_dirty[g]
  BY DEF FinishDelete
<1>8. files' = files \ {fl} /\ retired' = retired \cup {fl} /\ allocated' = allocated \ PagesOf(fl)
  BY DEF FinishDelete, SafeEnvironment
\* A cached page of fl has its frame given back.
<1>9. \A p \in Pages : FileOf[p] = fl /\ page_map_m[p] # NoFrame => page_map_m[p] \in FramesOf(fl)
  BY DEF FramesOf, PagesOf, Cached
<1>10. \A p \in Pages : FileOf[p] # fl /\ page_map_m[p] # NoFrame => page_map_m[p] \notin FramesOf(fl)
  BY DEF FramesOf, PagesOf, Cached, IInv, BaseInv, MapConsistent
<1>11. HoldersResident'
  <2> SUFFICES ASSUME NEW h \in Holders PROVE page_map_m'[arg'[h]] = frame_m'[h]
    BY <1>4 DEF HoldersResident
  <2>1. arg'[h] = arg[h] /\ frame_m'[h] = frame_m[h] /\ arg[h] \in Pages
    BY <1>3 DEF Holders, FinishDelete, IInv, BaseInv, CallTypes, CallTyped
  <2>2. page_map_m[arg[h]] = frame_m[h] /\ frame_m[h] # NoFrame
    BY PoolAssumption DEF Holders, IInv, BaseInv, CallTypes, CallTyped, HoldersResident
  <2>3. FileOf[arg[h]] # fl
    BY <2>1, <2>2, <1>6, <1>9 DEF HoldersOn
  <2> QED BY <2>1, <2>2, <2>3, <1>5
<1>12. PinAccounting'
  BY <1>4 DEF FinishDelete, IInv, PinAccounting
<1>13. EvictableIffUnpinned'
  <2>1. \A g \in Frames : is_evictable'[g] <=> g \in FramesOf(fl) \/ is_evictable[g]
    BY DEF FinishDelete, SetEvictableAll
  <2> QED BY <2>1, <1>6 DEF FinishDelete, IInv, EvictableIffUnpinned
<1>14. CleanMatchesDisk'
  <2> SUFFICES ASSUME NEW q \in Pages, page_map_m'[q] # NoFrame, ~is_dirty'[page_map_m'[q]]
               PROVE  data'[page_map_m'[q]] = disk'[q]
    BY DEF CleanMatchesDisk, Cached
  <2>1. FileOf[q] # fl /\ page_map_m'[q] = page_map_m[q] /\ page_map_m[q] \in Frames
    BY <1>1, <1>5 DEF TypeOK
  <2>2. ~is_dirty[page_map_m[q]]
    BY <2>1, <1>7, <1>10, PoolAssumption
  <2> QED BY <2>1, <2>2, PoolAssumption DEF FinishDelete, IInv, CleanMatchesDisk, Cached
<1>15. StaleFramesHarmless'
  <2> SUFFICES ASSUME NEW g \in Frames
               PROVE  /\ fp_id[g] = NoPage => ~is_dirty'[g]
                      /\ fp_id[g] # NoPage /\ page_map_m'[fp_id[g]] # g =>
                           ~is_dirty'[g] /\ FileOf[fp_id[g]] \in retired'
    BY DEF StaleFramesHarmless, FinishDelete
  <2>1. fp_id[g] = NoPage => ~is_dirty'[g]
    BY <1>7 DEF IInv, StaleFramesHarmless
  <2>2. ASSUME fp_id[g] # NoPage, page_map_m'[fp_id[g]] # g
        PROVE  ~is_dirty'[g] /\ FileOf[fp_id[g]] \in retired'
    <3>1. fp_id[g] \in Pages
      BY <2>2, <1>1 DEF TypeOK
    <3>2. CASE page_map_m[fp_id[g]] = g
      BY <2>2, <3>1, <3>2, <1>5, <1>7, <1>8, <1>9, PoolAssumption
    <3>3. CASE page_map_m[fp_id[g]] # g
      BY <2>2, <3>3, <1>7, <1>8 DEF IInv, StaleFramesHarmless
    <3> QED BY <3>2, <3>3
  <2> QED BY <2>1, <2>2
<1>16. MutatorsDirty'
  <2> SUFFICES ASSUME NEW d \in Clients, pc'[d] = "mutating" PROVE is_dirty'[frame_m'[d]]
    BY DEF MutatorsDirty
  <2>1. pc[d] = "mutating" /\ frame_m'[d] = frame_m[d]
    BY <1>2 DEF Moved, SamePhase, FinishDelete
  <2>2. frame_m[d] \in Frames /\ is_dirty[frame_m[d]] /\ d \in HoldersOn(frame_m[d])
    BY <2>1 DEF IInv, BaseInv, CallTypes, CallTyped, MutatorsDirty, HoldersOn, Holders
  <2> QED BY <2>1, <2>2, <1>6, <1>7
<1>17. FilesAccounted'
  <2>1. \A p \in Pages : page_map_m'[p] # NoFrame => p \in allocated'
    BY <1>5, <1>8 DEF IInv, FilesAccounted, Cached, PagesOf
  <2>2. \A p \in allocated' : FileOf[p] \in files'
    BY <1>1, <1>8 DEF IInv, FilesAccounted, PagesOf, TypeOK
  <2>3. files' \cap retired' = {}
    BY <1>8 DEF IInv, FilesAccounted
  <2> QED BY <2>1, <2>2, <2>3 DEF FilesAccounted, Cached
<1>18. GettersSafe'
  <2> SUFFICES ASSUME NEW d \in Clients, pc'[d] \in {"get_wait", "get_woken"}
               PROVE  arg'[d] \in allocated' /\ \A e \in Clients : arg'[e] # FileOf[arg'[d]]
    BY DEF GettersSafe
  <2>1. d # c /\ pc[d] \in {"get_wait", "get_woken"} /\ arg'[d] = arg[d]
    BY <1>2, <1>3 DEF Moved, SamePhase
  <2>2. arg[d] \in allocated /\ \A e \in Clients : arg[e] # FileOf[arg[d]]
    BY <2>1 DEF IInv, GettersSafe
  <2>3. arg[d] \in allocated'
    BY <2>1, <2>2, <1>8 DEF PagesOf
  <2>4. FileOf[arg[d]] \in Files
    BY <2>2, <1>1, PoolAssumption DEF TypeOK
  <2> QED BY <2>1, <2>2, <2>3, <2>4, <1>3, PoolAssumption
<1>19. NoAbort' /\ StoppedIdle'
  BY <1>2, LiveAfterMove DEF FinishDelete, IInv
<1> QED BY <1>1, <1>11, <1>12, <1>13, <1>14, <1>15, <1>16, <1>17, <1>18, <1>19 DEF IInv

\* Steps in which no client moves.
LEMMA SafeCreateFile ==
  ASSUME SafeEnvironment, IInv, NEW fl \in Files, CreateFile(fl)
  PROVE  IInv'
<1>1. BaseInv'
  BY BaseFiles DEF IInv
<1>2. FilesAccounted'
  BY DEF CreateFile, SafeEnvironment, IInv, FilesAccounted, Cached, frameVars
<1>3. HoldersResident' /\ PinAccounting' /\ EvictableIffUnpinned'
  BY DEF CreateFile, IInv, HoldersResident, PinAccounting, EvictableIffUnpinned, HoldersOn, Holders,
         frameVars, replacerVars, clientVars
<1>4. CleanMatchesDisk' /\ StaleFramesHarmless' /\ MutatorsDirty'
  BY DEF CreateFile, IInv, CleanMatchesDisk, StaleFramesHarmless, MutatorsDirty, Cached,
         frameVars, clientVars
<1>5. GettersSafe' /\ StoppedIdle' /\ NoAbort'
  BY DEF CreateFile, IInv, GettersSafe, StoppedIdle, NoAbort, Alive, Cached, frameVars, clientVars
<1> QED BY <1>1, <1>2, <1>3, <1>4, <1>5 DEF IInv

LEMMA SafeAllocatePage ==
  ASSUME IInv, NEW p \in Pages, AllocatePage(p)
  PROVE  IInv'
<1>1. BaseInv'
  BY BaseFiles DEF IInv
<1>2. FilesAccounted'
  BY DEF AllocatePage, IInv, FilesAccounted, Cached, frameVars
<1>3. HoldersResident' /\ PinAccounting' /\ EvictableIffUnpinned'
  BY DEF AllocatePage, IInv, HoldersResident, PinAccounting, EvictableIffUnpinned, HoldersOn, Holders,
         frameVars, replacerVars, clientVars
\* A page that was never handed out is not cached.
<1>4. CleanMatchesDisk'
  BY DEF AllocatePage, IInv, BaseInv, TypeOK, FilesAccounted, CleanMatchesDisk, Cached, frameVars
<1>5. StaleFramesHarmless' /\ MutatorsDirty'
  BY DEF AllocatePage, IInv, StaleFramesHarmless, MutatorsDirty, frameVars, clientVars
<1>6. GettersSafe' /\ StoppedIdle' /\ NoAbort'
  BY DEF AllocatePage, IInv, GettersSafe, StoppedIdle, NoAbort, Alive, Cached, frameVars, clientVars
<1> QED BY <1>1, <1>2, <1>3, <1>4, <1>5, <1>6 DEF IInv

\* With nobody inside a call there is nobody to hold a page.
LEMMA SafeRestart ==
  ASSUME IInv, Shutdown \/ Construct
  PROVE  IInv'
<1>1. BaseInv'
  BY BaseShutdown, BaseConstruct DEF IInv
<1>2. \A c \in Clients : pc[c] \in {"idle", "no_frame"} /\ pc'[c] = pc[c]
  BY DEF Shutdown, Construct, Idle, IInv, StoppedIdle, clientVars
<1>3. Holders = {} /\ Holders' = {}
  BY <1>2 DEF Holders
<1>4. HoldersResident' /\ MutatorsDirty' /\ GettersSafe' /\ StoppedIdle' /\ NoAbort'
  BY <1>2, <1>3 DEF HoldersResident, MutatorsDirty, GettersSafe, StoppedIdle, NoAbort, Alive,
                    Shutdown, Construct, Cached
<1>5. \A g : HoldersOn(g) = {} /\ HoldersOn(g)' = {}
  BY <1>3 DEF HoldersOn
<1>6. PinAccounting'
  BY <1>5, FS_EmptySet DEF Shutdown, Construct, IInv, PinAccounting
<1>7. EvictableIffUnpinned'
  BY DEF Shutdown, Construct, IInv, EvictableIffUnpinned, replacerVars
<1>8. CleanMatchesDisk' /\ FilesAccounted'
  BY DEF Shutdown, Construct, IInv, CleanMatchesDisk, FilesAccounted, Cached, fileVars
<1>9. StaleFramesHarmless'
  BY DEF Shutdown, Construct, StaleFramesHarmless
<1> QED BY <1>1, <1>4, <1>6, <1>7, <1>8, <1>9 DEF IInv

LEMMA SafeInit ==
  Init => IInv
<1> SUFFICES ASSUME Init PROVE IInv
  OBVIOUS
<1>1. BaseInv
  BY BaseInit
<1>2. Holders = {} /\ \A g : HoldersOn(g) = {}
  BY DEF Init, Holders, HoldersOn
<1>3. HoldersResident /\ PinAccounting /\ EvictableIffUnpinned
  BY <1>2, FS_EmptySet DEF Init, ReplacerInit, HoldersResident, PinAccounting, EvictableIffUnpinned
<1>4. CleanMatchesDisk /\ StaleFramesHarmless /\ MutatorsDirty
  BY DEF Init, CleanMatchesDisk, StaleFramesHarmless, MutatorsDirty, Cached
<1>5. FilesAccounted /\ GettersSafe /\ StoppedIdle /\ NoAbort
  BY DEF Init, FilesAccounted, GettersSafe, StoppedIdle, NoAbort, Alive, Cached
<1> QED BY <1>1, <1>3, <1>4, <1>5 DEF IInv

\* One step per action of Next.
LEMMA SafeStep ==
  ASSUME SafeEnvironment PROVE IInv /\ [Next]_vars => IInv'
<1> SUFFICES ASSUME IInv, [Next]_vars PROVE IInv'
  OBVIOUS
<1>1. ASSUME NEW c \in Clients, ClientStep(c) PROVE IInv'
  <2>1. ASSUME NEW p \in Pages, GetPage(c, p) \/ GetPageIfFrameAvailable(c, p) PROVE IInv'
    <3>1. running /\ c \notin Holders /\ Requested(p)
      BY <2>1 DEF GetPage, GetPageIfFrameAvailable, Idle, Holders, MayUse, SafeEnvironment, Requested
    <3> QED BY <2>1, <3>1, SafeFinishGet, SafeWaitsForFrame DEF GetPage, GetPageIfFrameAvailable
  <2>2. CASE ResumeGetPage(c)
    <3>1. arg[c] \in Pages /\ running /\ c \notin Holders /\ Requested(arg[c])
      BY <2>2 DEF ResumeGetPage, At, Holders, IInv, BaseInv, CallTypes, CallTyped, GettersSafe, Requested
    <3> QED BY <2>2, <3>1, SafeFinishGet, SafeWaitsForFrame DEF ResumeGetPage
  <2>3. CASE GetMutView(c)
    BY <2>3, SafeGetMutView
  <2>4. ASSUME NEW v \in Versions, StoreBytes(c, v) PROVE IInv'
    BY <2>4, SafeStoreBytes
  <2>5. CASE RemoveAccessor(c)
    BY <2>5, SafeRemoveAccessor
  <2>6. CASE AbortInRemoveAccessor(c)
    <3>1. c \in Holders
      BY <2>6 DEF AbortInRemoveAccessor, At, Holders
    <3> QED BY <2>6, <3>1, AccessorFound DEF AbortInRemoveAccessor
  <2>7. ASSUME NEW fl \in Files, DeleteFile(c, fl) PROVE IInv'
    <3>1. /\ running /\ c \notin Holders
          /\ \A d \in Clients : pc[d] \in {"get_wait", "get_woken"} => FileOf[arg[d]] # fl
      BY <2>7 DEF DeleteFile, Idle, Holders, MayDelete, SafeEnvironment
    <3> QED BY <2>7, <3>1, SafeFinishDelete, SafeWaitsForRelease DEF DeleteFile
  <2>8. CASE ResumeDeleteFile(c) \/ DeleteFileTimeout(c)
    <3>1. /\ arg[c] \in Files /\ running /\ c \notin Holders
          /\ \A d \in Clients : pc[d] \in {"get_wait", "get_woken"} => FileOf[arg[d]] # arg[c]
      BY <2>8 DEF ResumeDeleteFile, DeleteFileTimeout, At, Holders, IInv, BaseInv, CallTypes,
                  CallTyped, GettersSafe
    <3>2. CASE FinishDelete(c, arg[c])
      BY <3>1, <3>2, SafeFinishDelete
    <3>3. CASE Waits(c, "delete_wait", arg[c])
      BY <3>1, <3>3, SafeWaitsForRelease
    <3>4. CASE Returns(c, "idle") /\ UNCHANGED <<frameVars, replacerVars, disk, fileVars, running>>
      <4>1. CleanMatchesDisk' /\ disk' \in [Pages -> Bytes]
        BY <3>4 DEF IInv, BaseInv, TypeOK, CleanMatchesDisk, Cached, frameVars
      <4> QED BY <3>1, <3>4, <4>1, SafeReturn
    <3> QED BY <2>8, <3>2, <3>3, <3>4 DEF ResumeDeleteFile, DeleteFileTimeout
  <2>9. CASE SpuriousWakeup(c)
    BY <2>9, SafeSpuriousWakeup
  <2> QED BY <1>1, <2>1, <2>2, <2>3, <2>4, <2>5, <2>6, <2>7, <2>8, <2>9 DEF ClientStep
<1>2. ASSUME NEW fl \in Files, CreateFile(fl) PROVE IInv'
  BY <1>2, SafeCreateFile
<1>3. ASSUME NEW p \in Pages, AllocatePage(p) PROVE IInv'
  BY <1>3, SafeAllocatePage
<1>4. CASE Shutdown \/ Construct
  BY <1>4, SafeRestart
<1>5. CASE UNCHANGED vars
  <2>1. BaseInv'
    BY <1>5, BaseStep DEF IInv
  <2>2. HoldersResident' /\ PinAccounting' /\ EvictableIffUnpinned' /\ CleanMatchesDisk'
    BY <1>5 DEF vars, frameVars, replacerVars, clientVars, IInv, HoldersResident, PinAccounting,
                EvictableIffUnpinned, CleanMatchesDisk, HoldersOn, Holders, Cached
  <2>3. StaleFramesHarmless' /\ MutatorsDirty' /\ FilesAccounted'
    BY <1>5 DEF vars, frameVars, fileVars, clientVars, IInv, StaleFramesHarmless, MutatorsDirty,
                FilesAccounted, Cached
  <2>4. GettersSafe' /\ StoppedIdle' /\ NoAbort'
    BY <1>5 DEF vars, frameVars, fileVars, clientVars, IInv, GettersSafe, StoppedIdle, NoAbort,
                Alive, Cached
  <2> QED BY <2>1, <2>2, <2>3, <2>4 DEF IInv
<1> QED BY <1>1, <1>2, <1>3, <1>4, <1>5 DEF Next

LEMMA SafeAlways ==
  ASSUME SafeEnvironment PROVE Spec => []IInv
<1>1. IInv /\ [Next]_vars => IInv'
  BY SafeStep
<1> QED BY <1>1, SafeInit, PTL DEF Spec

-----------------------------------------------------------------------------
(* The theorems: for any number of frames, pages, files and clients. *)

\* pin_count is the number of Page objects on the frame
\* (page_buffer_manager.cpp:169, 190).
THEOREM PinsCounted == ASSUME SafeEnvironment PROVE Spec => []PinAccounting
<1>1. IInv => PinAccounting
  BY DEF IInv
<1> QED BY <1>1, SafeAlways, PTL

\* A page that somebody holds is never evicted, moved or dropped
\* (page_buffer_manager.cpp:52-76, 113-140).
THEOREM PinnedPagesStay == ASSUME SafeEnvironment PROVE Spec => []HoldersResident
<1>1. IInv => HoldersResident
  BY DEF IInv
<1> QED BY <1>1, SafeAlways, PTL

\* The replacer's flags follow the pin counts (page_buffer_manager.cpp:172, 192),
\* although its count does not.
THEOREM FlagsFollowPins == ASSUME SafeEnvironment PROVE Spec => []EvictableIffUnpinned
<1>1. IInv => EvictableIffUnpinned
  BY DEF IInv
<1> QED BY <1>1, SafeAlways, PTL

\* Dropping a clean frame loses nothing (page_buffer_manager.cpp:124), even when
\* earlier attempts to write pages back failed.
THEOREM CleanPagesOnDisk == ASSUME SafeEnvironment PROVE Spec => []CleanMatchesDisk
<1>1. IInv => CleanMatchesDisk
  BY DEF IInv
<1> QED BY <1>1, SafeAlways, PTL

\* None of the assertions of RemoveAccessor and ReadPage can fail
\* (page_buffer_manager.cpp:167, 170; disk_manager.cpp:55).
THEOREM AssertionsHold == ASSUME SafeEnvironment PROVE Spec => []NoAbort
<1>1. IInv => NoAbort
  BY DEF IInv
<1> QED BY <1>1, SafeAlways, PTL
-----------------------------------------------------------------------------
(* Waiting for frames.  The count of evictable frames is right as long as no  *)
(* frame is pinned twice and no file deleted: clients with pages of their own. *)

PrivatePages ==
  /\ Deleters = {}
  /\ \A c, d \in Clients : c # d => Uses[c] \cap Uses[d] = {}

Getting == {"get_wait", "get_woken"}

\* A client's call is about a page of its own, which is not in the pool while
\* the client waits for a frame; nobody deletes.
OwnCalls ==
  \A c \in Clients :
    /\ pc[c] \in Getting \cup {"holding", "mutating"} => arg[c] \in Uses[c]
    /\ pc[c] \in Getting => ~Cached(arg[c])
    /\ pc[c] \notin {"delete_wait", "delete_woken"}

CountInv == OwnCalls /\ CountAccurate /\ NoPhantomFrame

\* Every client but c stays where it is or is woken.
OthersWoken(c) == \A d \in Clients \ {c} : pc'[d] \in {pc[d], WokenPC(pc[d])}

LEMMA MovesWake ==
  ASSUME TypeOK, NEW c \in Clients, NEW s \in PC,
         Move(c, s) \/ MoveAndNotifyAll(c, s)
           \/ (MoveAndNotifyOne(c, s) /\ pc[c] \notin {"get_wait", "delete_wait"})
  PROVE  OthersWoken(c) /\ pc'[c] = s
<1>1. CASE Move(c, s) \/ MoveAndNotifyAll(c, s)
  BY <1>1 DEF Move, MoveAndNotifyAll, OthersWoken, TypeOK
<1>2. CASE MoveAndNotifyOne(c, s) /\ pc[c] \notin {"get_wait", "delete_wait"}
  <2>1. CASE Waiters = {}
    BY <1>2, <2>1 DEF MoveAndNotifyOne, OthersWoken, TypeOK
  <2>2. CASE Waiters # {}
    <3>1. PICK w \in Waiters : pc' = [pc EXCEPT ![c] = s, ![w] = WokenPC(pc[w])]
      BY <1>2, <2>2 DEF MoveAndNotifyOne
    <3>2. w \in Clients /\ w # c
      BY <1>2, <3>1 DEF Waiters
    <3> QED BY <3>1, <3>2 DEF OthersWoken, TypeOK
  <2> QED BY <2>1, <2>2
<1> QED BY <1>1, <1>2

\* The clients' part of CountInv after a step of c that brings no page but c's
\* own into the pool.
LEMMA OwnCallsAfterMove ==
  ASSUME PrivatePages, TypeOK, OwnCalls, NoPhantomFrame, NEW c \in Clients, OthersWoken(c),
         pc'[c] \notin {"no_frame", "delete_wait", "delete_woken"},
         pc'[c] \in Getting \cup {"holding", "mutating"} => arg'[c] \in Uses[c],
         pc'[c] \in Getting => page_map_m'[arg'[c]] = NoFrame,
         \A d \in Clients \ {c} : arg'[d] = arg[d],
         \A q \in Pages \ Uses[c] : page_map_m[q] = NoFrame => page_map_m'[q] = NoFrame
  PROVE  OwnCalls' /\ NoPhantomFrame'
<1> SUFFICES ASSUME NEW d \in Clients
             PROVE  /\ pc'[d] \in Getting \cup {"holding", "mutating"} => arg'[d] \in Uses[d]
                    /\ pc'[d] \in Getting => page_map_m'[arg'[d]] = NoFrame
                    /\ pc'[d] \notin {"delete_wait", "delete_woken", "no_frame"}
  BY DEF OwnCalls, NoPhantomFrame, Cached
<1>1. CASE d = c
  BY <1>1
<1>2. CASE d # c
  <2>1. pc[d] \notin {"delete_wait", "delete_woken", "no_frame"} /\ arg'[d] = arg[d]
    BY <1>2 DEF OwnCalls, NoPhantomFrame
  <2>2. /\ pc'[d] \notin {"delete_wait", "delete_woken", "no_frame"}
        /\ pc'[d] \in Getting => pc[d] \in Getting
        /\ pc'[d] \in {"holding", "mutating"} => pc'[d] = pc[d]
    BY <1>2, <2>1 DEF OthersWoken, WokenPC, Getting
  <2>3. pc'[d] \in Getting \cup {"holding", "mutating"} => arg[d] \in Uses[d]
    BY <2>2 DEF OwnCalls
  <2>4. arg[d] \in Uses[d] => arg[d] \in Pages \ Uses[c]
    BY <1>2, PoolAssumption DEF PrivatePages
  <2>5. pc'[d] \in Getting => page_map_m[arg[d]] = NoFrame
    BY <2>2 DEF OwnCalls, Cached
  <2> QED BY <2>1, <2>2, <2>3, <2>4, <2>5 DEF Cached
<1> QED BY <1>1, <1>2

-----------------------------------------------------------------------------
(* The count follows the flags as long as SetEvictable is called to change one. *)

LEMMA EvictableFinite ==
  IsFiniteSet(Evictable) /\ Cardinality(Evictable) \in Nat /\ Cardinality(Evictable) < SizeMod
<1>1. Evictable \subseteq Frames
  BY DEF Evictable
<1>2. /\ IsFiniteSet(Evictable) /\ Cardinality(Evictable) <= Cardinality(Frames)
      /\ Cardinality(Evictable) \in Nat /\ Cardinality(Frames) \in Nat
  BY <1>1, FS_Subset, FS_CardinalityType, ReplacerAssumption
<1> QED BY <1>2, ReplacerAssumption

LEMMA CountTaken ==
  ASSUME TypeOK, CountAccurate, NEW f \in Frames, is_evictable[f], SetEvictable(f, FALSE)
  PROVE  CountAccurate' /\ Evictable' = Evictable \ {f}
<1>1. Evictable' = Evictable \ {f}
  BY FlagSet DEF Evictable
<1>2. f \in Evictable
  BY DEF Evictable
<1>3. Cardinality(Evictable') = Cardinality(Evictable) - 1
  BY <1>1, <1>2, EvictableFinite, FS_RemoveElement
<1>4. Cardinality(Evictable) - 1 \in 0 .. SizeMod - 1
  <2>1. Cardinality(Evictable) # 0
    BY <1>2, EvictableFinite, FS_EmptySet
  <2> QED BY <2>1, EvictableFinite, ReplacerAssumption
<1>5. \A x \in 0 .. SizeMod - 1 : x % SizeMod = x
  BY ReplacerAssumption
<1> QED BY <1>1, <1>3, <1>4, <1>5 DEF CountAccurate, SetEvictable

LEMMA CountGiven ==
  ASSUME TypeOK, CountAccurate, NEW f \in Frames, ~is_evictable[f], SetEvictable(f, TRUE)
  PROVE  CountAccurate'
<1>1. Evictable' = Evictable \cup {f}
  BY FlagSet DEF Evictable
<1>2. f \notin Evictable
  BY DEF Evictable
<1>3. Cardinality(Evictable') = Cardinality(Evictable) + 1
  BY <1>1, <1>2, EvictableFinite, FS_AddElement
<1>4. Cardinality(Evictable) + 1 \in 0 .. SizeMod - 1
  <2>1. Evictable' \subseteq Frames
    BY DEF Evictable
  <2>2. Cardinality(Evictable') <= Cardinality(Frames) /\ Cardinality(Frames) \in Nat
    BY <2>1, FS_Subset, FS_CardinalityType, ReplacerAssumption
  <2> QED BY <1>3, <2>2, EvictableFinite, ReplacerAssumption
<1>5. \A x \in 0 .. SizeMod - 1 : x % SizeMod = x
  BY ReplacerAssumption
<1> QED BY <1>1, <1>3, <1>4, <1>5 DEF CountAccurate, SetEvictable

\* What c finds in the pool for a page of its own is pinned by nobody.
LEMMA OwnPageUnpinned ==
  ASSUME PrivatePages, IInv, OwnCalls, NEW c \in Clients, c \notin Holders,
         NEW p \in Uses[c], Cached(p)
  PROVE  page_map_m[p] \in Frames /\ is_evictable[page_map_m[p]]
<1> DEFINE f == page_map_m[p]
<1>1. p \in Pages /\ f \in Frames /\ fp_id[f] = p
  BY PoolAssumption DEF Cached, IInv, BaseInv, TypeOK, MapConsistent
<1>2. ASSUME NEW d \in HoldersOn(f) PROVE FALSE
  <2>1. d \in Clients /\ d # c /\ d \in Holders /\ arg[d] \in Uses[d] /\ arg[d] \in Pages
    BY PoolAssumption DEF HoldersOn, Holders, OwnCalls
  <2>2. page_map_m[arg[d]] = f
    BY <2>1 DEF HoldersOn, IInv, HoldersResident
  <2>3. arg[d] = p
    BY <2>1, <2>2, <1>1, PoolAssumption DEF IInv, BaseInv, MapConsistent, Cached
  <2> QED BY <2>1, <2>3 DEF PrivatePages
<1>3. HoldersOn(f) = {}
  BY <1>2
<1>4. pin_count[f] = 0
  BY <1>1, <1>3, HoldersCount DEF IInv, PinAccounting
<1> QED BY <1>1, <1>4 DEF IInv, EvictableIffUnpinned
-----------------------------------------------------------------------------
(* CountInv, one lemma per kind of step. *)

LEMMA CountHit ==
  ASSUME PrivatePages, IInv, CountInv, NEW c \in Clients, NEW p \in Uses[c], Hit(c, p),
         c \notin Holders
  PROVE  CountInv' /\ Evictable' \subseteq Evictable
<1>1. TypeOK /\ page_map_m[p] \in Frames /\ is_evictable[page_map_m[p]]
  BY OwnPageUnpinned DEF Hit, IInv, BaseInv, CountInv
<1>2. CountAccurate' /\ Evictable' \subseteq Evictable
  BY <1>1, CountTaken DEF Hit, CountInv
<1>3. OthersWoken(c) /\ pc'[c] = "holding"
  BY <1>1, MovesWake DEF Hit, PC
<1>4. arg'[c] = p /\ \A d \in Clients \ {c} : arg'[d] = arg[d]
  BY <1>1 DEF Hit, ReturnsPage, TypeOK
<1>5. OwnCalls' /\ NoPhantomFrame'
  BY <1>1, <1>3, <1>4, OwnCallsAfterMove DEF Hit, CountInv, Getting
<1> QED BY <1>2, <1>5 DEF CountInv

LEMMA CountLoadAndPin ==
  ASSUME PrivatePages, IInv, CountInv, NEW c \in Clients, NEW p \in Uses[c], NEW f \in Frames,
         LoadAndPin(c, p, f)
  PROVE  CountInv'
<1>1. TypeOK /\ p \in Pages /\ is_evictable[f]
  BY PoolAssumption DEF LoadAndPin, IsVictim, IInv, BaseInv
<1>2. CountAccurate'
  BY <1>1, CountTaken DEF LoadAndPin, CountInv
<1>3. OthersWoken(c) /\ pc'[c] = "holding"
  BY <1>1, MovesWake DEF LoadAndPin, PC
<1>4. arg'[c] = p /\ \A d \in Clients \ {c} : arg'[d] = arg[d]
  BY <1>1 DEF LoadAndPin, ReturnsPage, TypeOK
<1>5. \A q \in Pages \ Uses[c] : page_map_m[q] = NoFrame => page_map_m'[q] = NoFrame
  BY <1>1 DEF LoadAndPin, MapWithout
<1>6. OwnCalls' /\ NoPhantomFrame'
  BY <1>1, <1>3, <1>4, <1>5, OwnCallsAfterMove DEF CountInv, Getting
<1> QED BY <1>2, <1>6 DEF CountInv

\* The count promises a frame only if a flag is set.
LEMMA PromiseKept ==
  ASSUME CountAccurate
  PROVE  evictable_count_m > 0 <=> Evictable # {}
  BY EvictableFinite, FS_EmptySet DEF CountAccurate

\* Calls that return, move on or wait and leave the frames alone.
LEMMA CountClientOnly ==
  ASSUME PrivatePages, TypeOK, CountInv, NEW c \in Clients, OthersWoken(c),
         pc'[c] \notin {"no_frame", "delete_wait", "delete_woken"},
         pc'[c] \in Getting \cup {"holding", "mutating"} => arg'[c] \in Uses[c],
         pc'[c] \in Getting => page_map_m[arg'[c]] = NoFrame,
         \A d \in Clients \ {c} : arg'[d] = arg[d],
         UNCHANGED <<page_map_m, replacerVars>>
  PROVE  CountInv' /\ Evictable' = Evictable
<1>1. CountAccurate' /\ Evictable' = Evictable
  BY DEF CountInv, CountAccurate, Evictable, replacerVars
<1>2. OwnCalls' /\ NoPhantomFrame'
  BY OwnCallsAfterMove DEF CountInv
<1> QED BY <1>1, <1>2 DEF CountInv

LEMMA CountFinishGet ==
  ASSUME SafeEnvironment, PrivatePages, IInv, CountInv, NEW c \in Clients, NEW p \in Uses[c],
         FrameAvailable(p), FinishGet(c, p), running, c \notin Holders, Requested(p)
  PROVE  CountInv'
<1>1. TypeOK /\ p \in Pages /\ FileOf[p] \in files /\ p \in allocated /\ p \notin ReadFaults
  BY PoolAssumption DEF Requested, IInv, BaseInv, FilesAccounted, SafeEnvironment
<1>2. CASE Hit(c, p)
  BY <1>2, CountHit
<1>3. CASE LoadFindsNoFrame(c, p)
  BY <1>3, PromiseKept DEF LoadFindsNoFrame, FrameAvailable, CountInv
<1>4. ASSUME NEW f \in Frames, LoadAndPin(c, p, f) PROVE CountInv'
  BY <1>4, CountLoadAndPin
<1>5. ASSUME NEW f \in Frames, LoadFlushFails(c, p, f) PROVE CountInv'
  <2>1. OthersWoken(c) /\ pc'[c] = "idle"
    BY <1>1, <1>5, MovesWake DEF LoadFlushFails, Returns, PC
  <2>2. \A d \in Clients \ {c} : arg'[d] = arg[d]
    BY <1>1, <1>5 DEF LoadFlushFails, Returns, TypeOK
  <2> QED BY <1>1, <1>5, <2>1, <2>2, CountClientOnly DEF LoadFlushFails, frameVars, Getting
<1>6. ASSUME NEW f \in Frames, LoadReadFails(c, p, f) \/ LoadAborts(c, p, f) PROVE FALSE
  BY <1>1, <1>6 DEF LoadReadFails, LoadAborts
<1> QED BY <1>2, <1>3, <1>4, <1>5, <1>6 DEF FinishGet

LEMMA CountWaits ==
  ASSUME PrivatePages, TypeOK, CountInv, NEW c \in Clients, NEW p \in Uses[c],
         ~FrameAvailable(p), Waits(c, "get_wait", p)
  PROVE  CountInv' /\ Evictable' = {}
<1>1. OthersWoken(c) /\ pc'[c] = "get_wait"
  BY MovesWake DEF Waits, PC
<1>2. arg'[c] = p /\ \A d \in Clients \ {c} : arg'[d] = arg[d]
  BY DEF Waits, TypeOK
<1>3. page_map_m[p] = NoFrame /\ Evictable = {}
  BY PromiseKept DEF FrameAvailable, Cached, CountInv
<1> QED BY <1>1, <1>2, <1>3, CountClientOnly DEF Waits, frameVars, Getting

LEMMA CountRemoveAccessor ==
  ASSUME PrivatePages, IInv, CountInv, NEW c \in Clients, RemoveAccessor(c)
  PROVE  CountInv'
<1> DEFINE f == frame_m[c]
<1>1. TypeOK /\ c \in Holders /\ pc[c] = "holding"
  BY DEF IInv, BaseInv, RemoveAccessor, At, Holders
<1>2. f \in Frames /\ AccessorFrame(c) = f /\ pin_count[f] \in Nat \ {0}
  BY <1>1, AccessorFound
<1>3. OthersWoken(c) /\ pc'[c] = "idle"
  BY <1>1, MovesWake DEF RemoveAccessor, PC
<1>4. \A d \in Clients \ {c} : arg'[d] = arg[d]
  BY <1>1 DEF RemoveAccessor, TypeOK
<1>5. OwnCalls' /\ NoPhantomFrame'
  BY <1>1, <1>3, <1>4, OwnCallsAfterMove DEF RemoveAccessor, CountInv, Getting
<1>6. CountAccurate'
  <2>1. CASE pin_count[f] = 1
    <3>1. ~is_evictable[f]
      BY <1>2, <2>1 DEF IInv, EvictableIffUnpinned
    <3> QED BY <1>1, <1>2, <2>1, <3>1, CountGiven DEF RemoveAccessor, CountInv
  <2>2. CASE pin_count[f] # 1
    BY <1>2, <2>2 DEF RemoveAccessor, CountInv, CountAccurate, Evictable, replacerVars
  <2> QED BY <2>1, <2>2
<1> QED BY <1>5, <1>6 DEF CountInv

LEMMA CountStep ==
  ASSUME SafeEnvironment, PrivatePages, IInv, CountInv, [Next]_vars
  PROVE  CountInv'
<1>1. ASSUME NEW c \in Clients, ClientStep(c) PROVE CountInv'
  <2> TypeOK
    BY DEF IInv, BaseInv
  <2>1. ASSUME NEW p \in Pages, GetPage(c, p) \/ GetPageIfFrameAvailable(c, p) PROVE CountInv'
    <3>1. running /\ c \notin Holders /\ Requested(p) /\ p \in Uses[c]
      BY <2>1 DEF GetPage, GetPageIfFrameAvailable, Idle, Holders, MayUse, SafeEnvironment, Requested
    <3> QED BY <2>1, <3>1, CountFinishGet, CountWaits DEF GetPage, GetPageIfFrameAvailable
  <2>2. CASE ResumeGetPage(c)
    <3>1. running /\ c \notin Holders /\ Requested(arg[c]) /\ arg[c] \in Uses[c]
      BY <2>2 DEF ResumeGetPage, At, Holders, IInv, GettersSafe, Requested, CountInv, OwnCalls, Getting
    <3> QED BY <2>2, <3>1, CountFinishGet, CountWaits DEF ResumeGetPage
  <2>3. ASSUME NEW v \in Versions, GetMutView(c) \/ StoreBytes(c, v) PROVE CountInv'
    <3>1. OthersWoken(c) /\ pc'[c] \in {"holding", "mutating"}
      BY <2>3, MovesWake DEF GetMutView, StoreBytes, PC
    <3>2. arg'[c] \in Uses[c]
      BY <2>3 DEF GetMutView, StoreBytes, At, CountInv, OwnCalls
    <3> QED BY <2>3, <3>1, <3>2, CountClientOnly DEF GetMutView, StoreBytes, Getting
  <2>4. CASE RemoveAccessor(c)
    BY <2>4, CountRemoveAccessor
  <2>5. CASE AbortInRemoveAccessor(c)
    <3>1. c \in Holders
      BY <2>5 DEF AbortInRemoveAccessor, At, Holders
    <3> QED BY <2>5, <3>1, AccessorFound DEF AbortInRemoveAccessor
  <2>6. ASSUME (\E fl \in Files : DeleteFile(c, fl)) \/ ResumeDeleteFile(c) \/ DeleteFileTimeout(c)
        PROVE  FALSE
    BY <2>6 DEF DeleteFile, MayDelete, PrivatePages, ResumeDeleteFile, DeleteFileTimeout, At,
                CountInv, OwnCalls
  <2>7. CASE SpuriousWakeup(c)
    <3>1. pc[c] = "get_wait" /\ WokenPC(pc[c]) = "get_woken"
      BY <2>7 DEF SpuriousWakeup, Waiters, CountInv, OwnCalls, WokenPC
    <3>2. OthersWoken(c) /\ pc'[c] = "get_woken"
      BY <2>7, <3>1, MovesWake DEF SpuriousWakeup, PC
    <3>3. arg'[c] = arg[c] /\ arg[c] \in Uses[c] /\ page_map_m[arg[c]] = NoFrame
      BY <2>7, <3>1 DEF SpuriousWakeup, CountInv, OwnCalls, Cached, Getting
    <3> QED BY <2>7, <3>2, <3>3, CountClientOnly DEF SpuriousWakeup, frameVars
  <2>8. CASE GetMutView(c)
    <3>1. PICK v : v \in Versions
      BY PoolAssumption
    <3> QED BY <2>8, <3>1, <2>3
  <2> QED BY <1>1, <2>1, <2>2, <2>3, <2>4, <2>5, <2>6, <2>7, <2>8 DEF ClientStep
<1>2. CASE UNCHANGED <<page_map_m, replacerVars, clientVars>>
  BY <1>2 DEF CountInv, OwnCalls, CountAccurate, NoPhantomFrame, Evictable, Cached, replacerVars, clientVars
<1>3. CASE Shutdown \/ Construct
  <2>1. \A c \in Clients : pc'[c] = pc[c] /\ pc[c] = "idle"
    BY <1>3 DEF Shutdown, Construct, Idle, IInv, StoppedIdle, clientVars, CountInv, NoPhantomFrame
  <2>2. OwnCalls' /\ NoPhantomFrame'
    BY <2>1 DEF OwnCalls, NoPhantomFrame, Getting
  <2>3. CountAccurate'
    <3>1. CASE Shutdown
      BY <3>1 DEF Shutdown, CountInv, CountAccurate, Evictable, replacerVars
    <3>2. CASE Construct
      <4>1. Evictable' = Frames
        BY <3>2 DEF Construct, Evictable
      <4> QED BY <3>2, <4>1 DEF Construct, CountAccurate
    <3> QED BY <1>3, <3>1, <3>2
  <2> QED BY <2>2, <2>3 DEF CountInv
<1> QED BY <1>1, <1>2, <1>3 DEF Next, CreateFile, AllocatePage, frameVars, clientVars, vars

LEMMA CountInit ==
  ASSUME Init PROVE CountInv
<1>1. Evictable = Frames
  BY DEF Init, ReplacerInit, Evictable
<1>2. OwnCalls /\ NoPhantomFrame
  BY DEF Init, OwnCalls, NoPhantomFrame, Getting
<1> QED BY <1>1, <1>2 DEF Init, ReplacerInit, CountInv, CountAccurate

LEMMA CountAlways ==
  ASSUME SafeEnvironment, PrivatePages PROVE Spec => [](IInv /\ CountInv)
<1>1. IInv /\ CountInv /\ [Next]_vars => IInv' /\ CountInv'
  BY SafeStep, CountStep
<1>2. Init => IInv /\ CountInv
  BY SafeInit, CountInit
<1> QED BY <1>1, <1>2, PTL DEF Spec

\* With pages of their own the clients keep "the number of evictable frames"
\* (lru_k_replacer.h:80) right, through evictions, reloads, failed writes and
\* restarts; shared pages break it.
THEOREM CountIsRight == ASSUME SafeEnvironment, PrivatePages PROVE Spec => []CountAccurate
<1>1. IInv /\ CountInv => CountAccurate
  BY DEF CountInv
<1> QED BY <1>1, CountAlways, PTL

\* LoadPage finds a victim whenever GetPage's wait promised a frame: the error
\* "no evictable frame available" (page_buffer_manager.cpp:120) is not returned.
THEOREM PromisedFramesExist == ASSUME SafeEnvironment, PrivatePages PROVE Spec => []NoPhantomFrame
<1>1. IInv /\ CountInv => NoPhantomFrame
  BY DEF CountInv
<1> QED BY <1>1, CountAlways, PTL

-----------------------------------------------------------------------------
(* No wakeup is lost when, besides, every dirty victim can be written back. *)

LEMMA WakeupFinishGet ==
  ASSUME SafeEnvironment, PrivatePages, WriteFaults = {}, IInv, CountInv, NoLostWakeup,
         NEW c \in Clients, NEW p \in Uses[c], FrameAvailable(p), FinishGet(c, p),
         running, c \notin Holders, Requested(p), pc[c] = "get_woken" => ~Cached(p)
  PROVE  NoLostWakeup'
<1>1. TypeOK /\ p \in Pages /\ FileOf[p] \in files /\ p \in allocated /\ p \notin ReadFaults
  BY PoolAssumption DEF Requested, IInv, BaseInv, FilesAccounted, SafeEnvironment
\* A client that finds its page in the pool has not been waiting.
<1>2. CASE Hit(c, p)
  <2>1. Evictable' \subseteq Evictable
    BY <1>2, CountHit
  <2>2. pc[c] # "get_woken" /\ pc' = [pc EXCEPT ![c] = "holding"]
    BY <1>2 DEF Hit, Move
  <2> QED BY <1>1, <2>1, <2>2 DEF NoLostWakeup, TypeOK
<1>3. CASE LoadFindsNoFrame(c, p)
  BY <1>3, PromiseKept DEF LoadFindsNoFrame, FrameAvailable, CountInv
<1>4. ASSUME NEW f \in Frames, LoadAndPin(c, p, f) PROVE NoLostWakeup'
  <2>1. \A d \in Clients : pc'[d] # "get_wait"
    BY <1>4 DEF LoadAndPin, MoveAndNotifyAll, WokenPC
  <2> QED BY <2>1 DEF NoLostWakeup
<1>5. ASSUME NEW f \in Frames, LoadFlushFails(c, p, f) PROVE FALSE
  <2>1. Flushable(f)
    BY <1>5, EraseHitsOwnFrame, PoolAssumption DEF LoadFlushFails, Flushable, Cached
  <2> QED BY <1>5, <2>1 DEF LoadFlushFails
<1>6. ASSUME NEW f \in Frames, LoadReadFails(c, p, f) \/ LoadAborts(c, p, f) PROVE FALSE
  BY <1>1, <1>6 DEF LoadReadFails, LoadAborts
<1> QED BY <1>2, <1>3, <1>4, <1>5, <1>6 DEF FinishGet

LEMMA WakeupRemoveAccessor ==
  ASSUME IInv, CountInv, NoLostWakeup, NEW c \in Clients, RemoveAccessor(c)
  PROVE  NoLostWakeup'
<1>1. TypeOK /\ c \in Holders /\ pc[c] = "holding"
  BY DEF IInv, BaseInv, RemoveAccessor, At, Holders
<1>2. CASE MoveAndNotifyOne(c, "idle") /\ Waiters # {}
  <2>1. PICK w \in Waiters : pc' = [pc EXCEPT ![c] = "idle", ![w] = WokenPC(pc[w])]
    BY <1>2 DEF MoveAndNotifyOne
  <2>2. w \in Clients /\ w # c /\ pc[w] = "get_wait"
    BY <1>1, <2>1 DEF Waiters, CountInv, OwnCalls
  <2>3. pc'[w] = "get_woken"
    BY <1>1, <2>1, <2>2 DEF TypeOK, WokenPC
  <2> QED BY <2>2, <2>3 DEF NoLostWakeup
<1>3. CASE MoveAndNotifyOne(c, "idle") /\ Waiters = {}
  <2>1. \A d \in Clients : pc'[d] # "get_wait"
    BY <1>1, <1>3 DEF MoveAndNotifyOne, Waiters, TypeOK
  <2> QED BY <2>1 DEF NoLostWakeup
<1>4. CASE Move(c, "idle") /\ UNCHANGED replacerVars
  BY <1>1, <1>4 DEF Move, NoLostWakeup, Evictable, replacerVars, TypeOK
<1> QED BY <1>2, <1>3, <1>4 DEF RemoveAccessor

LEMMA WakeupStep ==
  ASSUME SafeEnvironment, PrivatePages, WriteFaults = {}, IInv, CountInv, NoLostWakeup, [Next]_vars
  PROVE  NoLostWakeup'
<1>1. ASSUME NEW c \in Clients, ClientStep(c) PROVE NoLostWakeup'
  <2> TypeOK
    BY DEF IInv, BaseInv
  <2>1. ASSUME NEW p \in Pages, GetPage(c, p) \/ GetPageIfFrameAvailable(c, p) PROVE NoLostWakeup'
    <3>1. /\ running /\ c \notin Holders /\ Requested(p) /\ p \in Uses[c] /\ pc[c] # "get_woken"
      BY <2>1 DEF GetPage, GetPageIfFrameAvailable, Idle, Holders, MayUse, SafeEnvironment, Requested
    <3>2. ASSUME ~FrameAvailable(p), Waits(c, "get_wait", p) PROVE NoLostWakeup'
      BY <3>1, <3>2, CountWaits DEF NoLostWakeup
    <3> QED BY <2>1, <3>1, <3>2, WakeupFinishGet DEF GetPage, GetPageIfFrameAvailable
  <2>2. CASE ResumeGetPage(c)
    <3>1. /\ running /\ c \notin Holders /\ Requested(arg[c]) /\ arg[c] \in Uses[c]
          /\ ~Cached(arg[c])
      BY <2>2 DEF ResumeGetPage, At, Holders, IInv, GettersSafe, Requested, CountInv, OwnCalls, Getting
    <3>2. ASSUME ~FrameAvailable(arg[c]), Waits(c, "get_wait", arg[c]) PROVE NoLostWakeup'
      BY <3>1, <3>2, CountWaits DEF NoLostWakeup
    <3> QED BY <2>2, <3>1, <3>2, WakeupFinishGet DEF ResumeGetPage
  <2>3. CASE GetMutView(c) \/ \E v \in Versions : StoreBytes(c, v)
    BY <2>3 DEF GetMutView, StoreBytes, At, Move, NoLostWakeup, Evictable, replacerVars, TypeOK
  <2>4. CASE RemoveAccessor(c)
    BY <2>4, WakeupRemoveAccessor
  <2>5. CASE AbortInRemoveAccessor(c)
    <3>1. c \in Holders
      BY <2>5 DEF AbortInRemoveAccessor, At, Holders
    <3> QED BY <2>5, <3>1, AccessorFound DEF AbortInRemoveAccessor
  <2>6. ASSUME (\E fl \in Files : DeleteFile(c, fl)) \/ ResumeDeleteFile(c) \/ DeleteFileTimeout(c)
        PROVE  FALSE
    BY <2>6 DEF DeleteFile, MayDelete, PrivatePages, ResumeDeleteFile, DeleteFileTimeout, At,
                CountInv, OwnCalls
  <2>7. CASE SpuriousWakeup(c)
    <3>1. pc[c] = "get_wait" /\ pc'[c] = WokenPC(pc[c])
      BY <2>7 DEF SpuriousWakeup, Waiters, Move, CountInv, OwnCalls, TypeOK
    <3> QED BY <3>1 DEF NoLostWakeup, WokenPC
  <2> QED BY <1>1, <2>1, <2>2, <2>3, <2>4, <2>5, <2>6, <2>7 DEF ClientStep
<1>2. CASE UNCHANGED <<replacerVars, clientVars>>
  BY <1>2 DEF NoLostWakeup, Evictable, replacerVars, clientVars
<1>3. CASE Shutdown \/ Construct
  <2>1. \A c \in Clients : pc'[c] # "get_wait"
    BY <1>3 DEF Shutdown, Construct, Idle, IInv, StoppedIdle, clientVars
  <2> QED BY <2>1 DEF NoLostWakeup
<1> QED BY <1>1, <1>2, <1>3 DEF Next, CreateFile, AllocatePage, vars

\* A frame that could be taken while a client waits in GetPage has been
\* announced to some waiter: one notify_one per released frame
\* (page_buffer_manager.cpp:174) and the notify_all of LoadPage
\* (page_buffer_manager.cpp:134) are enough.
THEOREM WakeupsArrive ==
  ASSUME SafeEnvironment, PrivatePages, WriteFaults = {} PROVE Spec => []NoLostWakeup
<1>1. IInv /\ CountInv /\ NoLostWakeup /\ [Next]_vars => IInv' /\ CountInv' /\ NoLostWakeup'
  BY SafeStep, CountStep, WakeupStep
<1>2. Init => IInv /\ CountInv /\ NoLostWakeup
  <2>1. Init => NoLostWakeup
    BY DEF Init, NoLostWakeup
  <2> QED BY <2>1, SafeInit, CountInit
<1> QED BY <1>1, <1>2, PTL DEF Spec
-----------------------------------------------------------------------------
(* The pool implements PageStore: under the refinement mapping StoredBytes,   *)
(* Held, Mutators every step is a step of the page store or a stutter.        *)

\* What a failing write can spoil: a page whose last write-back, in the
\* destructor, fails is lost, so either writes succeed or nothing is shut down.
DurableShutdown == WriteFaults = {} \/ MayShutdown = FALSE

\* A page's bytes as the pool answers them, spelled out.
LEMMA StoredAt ==
  ASSUME NEW p \in Pages
  PROVE  StoredBytes[p] = IF p \notin allocated THEN NoBytes
                          ELSE IF page_map_m[p] # NoFrame THEN data[page_map_m[p]] ELSE disk[p]
  BY DEF StoredBytes, Cached

LEMMA StoredAtNext ==
  ASSUME NEW p \in Pages
  PROVE  StoredBytes'[p] = IF p \notin allocated' THEN NoBytes
                           ELSE IF page_map_m'[p] # NoFrame THEN data'[page_map_m'[p]] ELSE disk'[p]
  BY DEF StoredBytes, Cached

\* StoredBytes is a function on Pages: equal at every page is equal.
LEMMA StoredEqual ==
  ASSUME \A p \in Pages : StoredBytes'[p] = StoredBytes[p]
  PROVE  StoredBytes' = StoredBytes
  BY DEF StoredBytes

-----------------------------------------------------------------------------
(* Guards. *)

\* Clients that do not move keep their guards.
LEMMA OthersKeepGuards ==
  ASSUME NEW c \in Clients, NEW s, Moved(c, s), \A d \in Clients \ {c} : arg'[d] = arg[d]
  PROVE  \A d \in Clients \ {c} : Held'[d] = Held[d] /\ (d \in Mutators' <=> d \in Mutators)
  BY DEF Held, Holders, Mutators, Moved, SamePhase

\* A client without a guard that moves and gets none leaves all guards alone.
LEMMA GuardsKept ==
  ASSUME NEW c \in Clients, NEW s, Moved(c, s), \A d \in Clients \ {c} : arg'[d] = arg[d],
         c \notin Holders, s \notin {"holding", "mutating"}
  PROVE  Held' = Held /\ Mutators' = Mutators
<1>1. \A d \in Clients : Held'[d] = Held[d] /\ (d \in Mutators' <=> d \in Mutators)
  <2>1. Held'[c] = Held[c] /\ c \notin Mutators' /\ c \notin Mutators
    BY DEF Held, Holders, Mutators, Moved
  <2> QED BY <2>1, OthersKeepGuards
<1>2. Held' = Held
  BY <1>1 DEF Held
<1>3. Mutators' = Mutators
  BY <1>1 DEF Mutators
<1> QED BY <1>2, <1>3

LEMMA GuardsQuiet ==
  ASSUME UNCHANGED <<pc, arg>>
  PROVE  Held' = Held /\ Mutators' = Mutators
  BY DEF Held, Holders, Mutators

\* A call that returns or waits without a page.
LEMMA GuardsAfterReturn ==
  ASSUME IInv, NEW c \in Clients, c \notin Holders, NEW s, NEW what,
         \/ Returns(c, s) /\ s \in {"idle", "no_frame"}
         \/ Waits(c, s, what) /\ s \in {"get_wait", "delete_wait"}
  PROVE  Held' = Held /\ Mutators' = Mutators
<1>1. s \in PC /\ s \notin {"holding", "mutating"}
  BY DEF PC
<1>2. Moved(c, s)
  BY <1>1, MoveMoves DEF Returns, Waits, IInv, BaseInv, TypeOK
<1>3. \A d \in Clients \ {c} : arg'[d] = arg[d]
  BY DEF Returns, Waits, IInv, BaseInv, TypeOK
<1> QED BY <1>1, <1>2, <1>3, GuardsKept

\* A page that exists has bytes.
LEMMA StoredThere ==
  ASSUME IInv, NEW p \in Pages, p \in allocated
  PROVE  StoredBytes[p] # NoBytes
<1>1. disk[p] \in Bytes /\ \A f \in Frames : data[f] \in Bytes
  BY DEF IInv, BaseInv, TypeOK
<1>2. page_map_m[p] \in Frames \cup {NoFrame}
  BY DEF IInv, BaseInv, TypeOK
<1> QED BY <1>1, <1>2, StoredAt, PoolAssumption

\* Getting a page that exists, its bytes unchanged, is Acquire.
LEMMA GetIsAcquire ==
  ASSUME IInv, NEW c \in Clients, c \notin Holders, NEW p \in Pages, p \in allocated,
         NEW f \in Frames, ReturnsPage(c, p, f), Moved(c, "holding"), StoredBytes' = StoredBytes
  PROVE  Store!Acquire(c, p)
<1>1. arg'[c] = p /\ \A d \in Clients \ {c} : arg'[d] = arg[d]
  BY DEF ReturnsPage, IInv, BaseInv, TypeOK
<1>2. \A d \in Clients \ {c} : Held'[d] = Held[d] /\ (d \in Mutators' <=> d \in Mutators)
  BY <1>1, OthersKeepGuards
<1>3. Held[c] = NoPage /\ Held'[c] = p /\ c \notin Mutators' /\ c \notin Mutators
  BY <1>1 DEF Held, Holders, Mutators, Moved
<1>4. Held' = [Held EXCEPT ![c] = p]
  <2>1. \A d \in Clients : Held'[d] = IF d = c THEN p ELSE Held[d]
    BY <1>2, <1>3
  <2> QED BY <2>1 DEF Held
<1>5. Mutators' = Mutators
  BY <1>2, <1>3 DEF Mutators
<1> QED BY <1>3, <1>4, <1>5, StoredThere DEF Store!Acquire

-----------------------------------------------------------------------------
(* Steps that change no page. *)

\* Steps that leave the frames' contents, the map, the disk and the files alone.
LEMMA StoredQuiet ==
  ASSUME UNCHANGED <<page_map_m, data, disk, allocated>>
  PROVE  StoredBytes' = StoredBytes
  BY DEF StoredBytes, Cached

\* Loading p into the victim f moves bytes between disk and memory only.
LEMMA StoredLoad ==
  ASSUME IInv, NEW c \in Clients, NEW p \in Pages, NEW f \in Frames, LoadAndPin(c, p, f), running
  PROVE  StoredBytes' = StoredBytes
<1>1. TypeOK /\ TypeOK' /\ allocated' = allocated
  BY BaseLoadAndPin DEF IInv, BaseInv, LoadAndPin, fileVars
<1>2. page_map_m[p] = NoFrame /\ page_map_m'[p] = f /\ f # NoFrame
  BY <1>1, FlushTypes, PoolAssumption DEF LoadAndPin, MapWithout, Cached
<1>3. data'[f] = disk'[p] /\ \A g \in Frames : g # f => data'[g] = data[g]
  BY <1>1 DEF LoadAndPin, TypeOK
<1>4. is_dirty[f] => fp_id[f] \in Pages /\ page_map_m[fp_id[f]] = f
  BY EraseHitsOwnFrame
<1>5. disk'[p] = disk[p]
  BY <1>1, <1>2, <1>4 DEF LoadAndPin, FlushedDisk, TypeOK
<1>6. ASSUME NEW q \in Pages PROVE StoredBytes'[q] = StoredBytes[q]
  <2>1. CASE q = p
    BY <2>1, <1>1, <1>2, <1>3, <1>5, StoredAt, StoredAtNext
  <2>2. CASE q # p /\ q = fp_id[f]
    <3>1. page_map_m'[q] = NoFrame
      BY <2>2, <1>1 DEF LoadAndPin, MapWithout
    <3>2. page_map_m[q] # NoFrame => page_map_m[q] = f
      BY <2>2, EraseHitsOwnFrame DEF Cached
    <3>3. page_map_m[q] = f => disk'[q] = data[f]
      <4>1. CASE is_dirty[f]
        BY <4>1, <2>2, <1>1, <1>4 DEF LoadAndPin, FlushedDisk, TypeOK
      <4>2. CASE ~is_dirty[f]
        BY <4>2, <1>1, <1>2 DEF LoadAndPin, FlushedDisk, IInv, CleanMatchesDisk, Cached
      <4> QED BY <4>1, <4>2
    <3>4. page_map_m[q] = NoFrame => disk'[q] = disk[q]
      BY <2>2, <1>2, <1>4 DEF LoadAndPin, FlushedDisk
    <3> QED BY <3>1, <3>2, <3>3, <3>4, <1>1, StoredAt, StoredAtNext
  <2>3. CASE q # p /\ q # fp_id[f]
    <3>1. page_map_m'[q] = page_map_m[q] /\ disk'[q] = disk[q]
      BY <2>3, <1>1, <1>4 DEF LoadAndPin, MapWithout, FlushedDisk, TypeOK
    <3>2. page_map_m[q] # NoFrame => page_map_m[q] \in Frames \ {f}
      BY <2>3, <1>1 DEF IInv, BaseInv, MapConsistent, Cached, TypeOK
    <3> QED BY <3>1, <3>2, <1>1, <1>3, StoredAt, StoredAtNext
  <2> QED BY <2>1, <2>2, <2>3
<1> QED BY <1>6, StoredEqual

\* A write-back that fails spoils the disk copy of a page that stays cached.
LEMMA StoredFlushFails ==
  ASSUME IInv, NEW c \in Clients, NEW p \in Pages, NEW f \in Frames, LoadFlushFails(c, p, f), running
  PROVE  StoredBytes' = StoredBytes
<1>1. fp_id[f] \in Pages /\ page_map_m[fp_id[f]] = f /\ f # NoFrame
  BY EraseHitsOwnFrame, PoolAssumption DEF LoadFlushFails
<1>2. page_map_m' = page_map_m /\ data' = data /\ allocated' = allocated
  BY DEF LoadFlushFails, frameVars, fileVars
<1>3. \A q \in Pages : q # fp_id[f] => disk'[q] = disk[q]
  BY DEF LoadFlushFails, IInv, BaseInv, TypeOK
<1>4. ASSUME NEW q \in Pages PROVE StoredBytes'[q] = StoredBytes[q]
  BY <1>1, <1>2, <1>3, StoredAt, StoredAtNext
<1> QED BY <1>4, StoredEqual

\* All the outcomes of GetPage and GetPageIfFrameAvailable.
LEMMA FinishGetRefines ==
  ASSUME SafeEnvironment, IInv, NEW c \in Clients, NEW p \in Pages, FinishGet(c, p),
         running, c \notin Holders, Requested(p)
  PROVE  Store!Acquire(c, p) \/ UNCHANGED <<StoredBytes, Held, Mutators>>
<1>1. FileOf[p] \in files /\ p \in allocated /\ p \notin ReadFaults /\ pc \in [Clients -> PC]
  BY DEF Requested, IInv, FilesAccounted, SafeEnvironment, BaseInv, TypeOK
<1>2. CASE Hit(c, p)
  <2>1. StoredBytes' = StoredBytes
    BY <1>2, StoredQuiet DEF Hit, fileVars
  <2>2. Moved(c, "holding")
    BY <1>1, <1>2, MoveMoves DEF Hit, PC
  <2>3. page_map_m[p] \in Frames /\ ReturnsPage(c, p, page_map_m[p])
    BY <1>2 DEF Hit, Cached, IInv, BaseInv, TypeOK
  <2> QED BY <1>1, <2>1, <2>2, <2>3, GetIsAcquire
<1>3. CASE LoadFindsNoFrame(c, p)
  <2>1. StoredBytes' = StoredBytes
    BY <1>3, StoredQuiet DEF LoadFindsNoFrame, frameVars, fileVars
  <2>2. Returns(c, "no_frame")
    BY <1>3 DEF LoadFindsNoFrame
  <2> QED BY <2>1, <2>2, GuardsAfterReturn
<1>4. ASSUME NEW f \in Frames, LoadAndPin(c, p, f) PROVE Store!Acquire(c, p)
  <2>1. StoredBytes' = StoredBytes
    BY <1>4, StoredLoad
  <2>2. Moved(c, "holding")
    BY <1>1, <1>4, NotifyAllMoves DEF LoadAndPin, PC
  <2> QED BY <1>1, <1>4, <2>1, <2>2, GetIsAcquire DEF LoadAndPin
<1>5. ASSUME NEW f \in Frames, LoadFlushFails(c, p, f)
      PROVE  UNCHANGED <<StoredBytes, Held, Mutators>>
  <2>1. StoredBytes' = StoredBytes
    BY <1>5, StoredFlushFails
  <2>2. Returns(c, "idle")
    BY <1>5 DEF LoadFlushFails
  <2> QED BY <2>1, <2>2, GuardsAfterReturn
<1>6. ASSUME NEW f \in Frames, LoadReadFails(c, p, f) \/ LoadAborts(c, p, f) PROVE FALSE
  BY <1>1, <1>6 DEF LoadReadFails, LoadAborts
<1> QED BY <1>2, <1>3, <1>4, <1>5, <1>6 DEF FinishGet

LEMMA WaitRefines ==
  ASSUME IInv, NEW c \in Clients, c \notin Holders, NEW s \in {"get_wait", "delete_wait"},
         NEW what, Waits(c, s, what)
  PROVE  UNCHANGED <<StoredBytes, Held, Mutators>>
  BY StoredQuiet, GuardsAfterReturn DEF Waits, frameVars, fileVars

LEMMA MutViewIsOpen ==
  ASSUME IInv, NEW c \in Clients, GetMutView(c)
  PROVE  Store!Open(c)
<1>1. c \in Holders /\ c \notin Mutators /\ arg[c] \in Pages /\ Held[c] = arg[c] /\ Held[c] # NoPage
  BY PoolAssumption DEF GetMutView, At, Holders, Held, Mutators, IInv, BaseInv, CallTypes, CallTyped
<1>2. Moved(c, "mutating") /\ arg' = arg
  BY MoveMoves DEF GetMutView, IInv, BaseInv, TypeOK, PC
<1>3. \A d \in Clients \ {c} : Held'[d] = Held[d] /\ (d \in Mutators' <=> d \in Mutators)
  BY <1>2, OthersKeepGuards
<1>4. c \in Mutators' /\ Held'[c] = Held[c]
  BY <1>1, <1>2 DEF Mutators, Held, Holders, Moved
<1>5. Held' = Held /\ Mutators' = Mutators \cup {c}
  <2>1. \A d \in Clients : Held'[d] = Held[d]
    BY <1>3, <1>4
  <2>2. Held' = Held
    BY <2>1 DEF Held
  <2>3. Mutators' = Mutators \cup {c}
    BY <1>3, <1>4 DEF Mutators
  <2> QED BY <2>2, <2>3
<1>6. ASSUME NEW d \in Mutators PROVE Held[d] # Held[c]
  <2>1. d \in Clients /\ d \in Holders /\ Held[d] = arg[d] /\ frame_m[d] # frame_m[c]
    BY DEF Mutators, Holders, Held, GetMutView
  <2>2. page_map_m[arg[d]] = frame_m[d] /\ page_map_m[arg[c]] = frame_m[c]
    BY <1>1, <2>1 DEF IInv, HoldersResident
  <2> QED BY <1>1, <2>1, <2>2
<1>7. StoredBytes' = StoredBytes
  BY StoredQuiet DEF GetMutView, fileVars
<1> QED BY <1>1, <1>5, <1>6, <1>7 DEF Store!Open

LEMMA AccessorIsRelease ==
  ASSUME IInv, NEW c \in Clients, RemoveAccessor(c)
  PROVE  Store!Release(c)
<1>1. c \in Holders /\ c \notin Mutators /\ arg[c] \in Pages /\ Held[c] = arg[c] /\ Held[c] # NoPage
  BY PoolAssumption DEF RemoveAccessor, At, Holders, Held, Mutators, IInv, BaseInv, CallTypes, CallTyped
<1>2. Moved(c, "idle") /\ \A d \in Clients \ {c} : arg'[d] = arg[d]
  BY MoveMoves, NotifyOneMoves DEF RemoveAccessor, At, IInv, BaseInv, TypeOK, PC
<1>3. \A d \in Clients \ {c} : Held'[d] = Held[d] /\ (d \in Mutators' <=> d \in Mutators)
  BY <1>2, OthersKeepGuards
<1>4. c \notin Mutators' /\ Held'[c] = NoPage
  BY <1>2 DEF Mutators, Held, Holders, Moved
<1>5. Held' = [Held EXCEPT ![c] = NoPage]
  <2>1. \A d \in Clients : Held'[d] = IF d = c THEN NoPage ELSE Held[d]
    BY <1>3, <1>4
  <2> QED BY <2>1 DEF Held
<1>6. Mutators' = Mutators
  BY <1>1, <1>3, <1>4 DEF Mutators
<1>7. StoredBytes' = StoredBytes
  BY StoredQuiet DEF RemoveAccessor, fileVars
<1> QED BY <1>1, <1>5, <1>6, <1>7 DEF Store!Release

\* The destructor writes every cached page back; a new manager caches none.
LEMMA StoredRestart ==
  ASSUME DurableShutdown, IInv, Shutdown \/ Construct
  PROVE  StoredBytes' = StoredBytes
<1>1. CASE Shutdown
  <2>1. WriteFaults = {}
    BY <1>1 DEF DurableShutdown, Shutdown
  <2>2. \A q \in Pages : disk'[q] = IF page_map_m[q] # NoFrame THEN data[page_map_m[q]] ELSE disk[q]
    BY <1>1, <2>1 DEF Shutdown, FlushOutcomes, Cached
  <2>3. \A q \in Pages : page_map_m'[q] = NoFrame
    BY <1>1 DEF Shutdown
  <2>4. ASSUME NEW q \in Pages PROVE StoredBytes'[q] = StoredBytes[q]
    BY <1>1, <2>2, <2>3, StoredAt, StoredAtNext DEF Shutdown, fileVars
  <2> QED BY <2>4, StoredEqual
<1>2. CASE Construct
  BY <1>2, StoredQuiet DEF Construct, IInv, BaseInv, TypeOK, StoppedIdle, Cached, fileVars
<1> QED BY <1>1, <1>2

-----------------------------------------------------------------------------
(* Steps that change a page. *)

\* A client's store reaches the page it asked for and no other.
LEMMA StoreIsWrite ==
  ASSUME IInv, NEW c \in Clients, NEW v \in Versions, StoreBytes(c, v)
  PROVE  Store!Write(c, v)
<1> DEFINE p == arg[c]
<1> DEFINE f == frame_m[c]
<1>1. c \in Holders /\ p \in Pages /\ f \in Frames /\ page_map_m[p] = f /\ f # NoFrame
  BY PoolAssumption DEF StoreBytes, At, Holders, IInv, BaseInv, CallTypes, CallTyped, HoldersResident
<1>2. data'[f] = <<p, v>> /\ \A g \in Frames : g # f => data'[g] = data[g]
  BY <1>1 DEF StoreBytes, IInv, BaseInv, TypeOK
<1>3. page_map_m' = page_map_m /\ disk' = disk /\ allocated' = allocated
  BY DEF StoreBytes, fileVars
<1>4. p \in allocated
  BY <1>1 DEF IInv, FilesAccounted, Cached
<1>5. ASSUME NEW q \in Pages
      PROVE  StoredBytes'[q] = IF q = p THEN <<p, v>> ELSE StoredBytes[q]
  <2>1. page_map_m[q] = f => q = p
    BY <1>1 DEF IInv, BaseInv, MapConsistent, Cached
  <2>2. page_map_m[q] \in Frames \cup {NoFrame}
    BY DEF IInv, BaseInv, TypeOK
  <2> QED BY <1>1, <1>2, <1>3, <1>4, <2>1, <2>2, StoredAt, StoredAtNext
<1>6. StoredBytes' = [StoredBytes EXCEPT ![p] = <<p, v>>]
  BY <1>5 DEF StoredBytes
<1>7. c \in Mutators /\ Held[c] = p
  BY <1>1 DEF StoreBytes, At, Mutators, Held
<1>8. Held' = Held /\ Mutators' = Mutators \ {c}
  <2>1. Moved(c, "holding") /\ arg' = arg
    BY MoveMoves DEF StoreBytes, IInv, BaseInv, TypeOK, PC
  <2>2. \A d \in Clients \ {c} : Held'[d] = Held[d] /\ (d \in Mutators' <=> d \in Mutators)
    BY <2>1, OthersKeepGuards
  <2>3. c \notin Mutators' /\ Held'[c] = Held[c]
    BY <1>7, <2>1 DEF Mutators, Held, Holders, Moved
  <2>4. \A d \in Clients : Held'[d] = Held[d]
    BY <2>2, <2>3
  <2>5. Held' = Held
    BY <2>4 DEF Held
  <2>6. Mutators' = Mutators \ {c}
    BY <2>2, <2>3 DEF Mutators
  <2> QED BY <2>5, <2>6
<1> QED BY <1>6, <1>7, <1>8 DEF Store!Write

LEMMA AllocateIsAllocate ==
  ASSUME IInv, NEW p \in Pages, AllocatePage(p)
  PROVE  Store!Allocate(p)
<1>1. p \notin allocated /\ page_map_m[p] = NoFrame
  BY DEF AllocatePage, IInv, FilesAccounted, Cached
<1>2. /\ page_map_m' = page_map_m /\ data' = data /\ allocated' = allocated \cup {p}
      /\ disk'[p] = <<p, Zero>> /\ \A q \in Pages : q # p => disk'[q] = disk[q]
  BY DEF AllocatePage, frameVars, IInv, BaseInv, TypeOK
<1>3. ASSUME NEW q \in Pages
      PROVE  StoredBytes'[q] = IF q = p THEN <<p, Zero>> ELSE StoredBytes[q]
  BY <1>1, <1>2, StoredAt, StoredAtNext
<1>4. StoredBytes' = [StoredBytes EXCEPT ![p] = <<p, Zero>>]
  BY <1>3 DEF StoredBytes
<1>5. Held' = Held /\ Mutators' = Mutators
  BY GuardsQuiet DEF AllocatePage, clientVars
<1> QED BY <1>1, <1>4, <1>5, StoredAt DEF Store!Allocate

\* A file is deleted while nobody holds a page of it.
LEMMA DeleteIsDrop ==
  ASSUME SafeEnvironment, IInv, NEW c \in Clients, NEW fl \in Files, FinishDelete(c, fl),
         c \notin Holders
  PROVE  Store!Drop(fl)
<1>1. data' = data /\ disk' = disk /\ allocated' = allocated \ PagesOf(fl)
  BY DEF FinishDelete, SafeEnvironment
<1>2. \A q \in Pages : FileOf[q] # fl => page_map_m'[q] = page_map_m[q]
  BY DEF FinishDelete
<1>3. ASSUME NEW q \in Pages
      PROVE  StoredBytes'[q] = IF FileOf[q] = fl THEN NoBytes ELSE StoredBytes[q]
  BY <1>1, <1>2, StoredAt, StoredAtNext DEF PagesOf
<1>4. StoredBytes' = [q \in Pages |-> IF FileOf[q] = fl THEN NoBytes ELSE StoredBytes[q]]
  BY <1>3 DEF StoredBytes
<1>5. ASSUME NEW d \in Clients, Held[d] # NoPage PROVE FileOf[Held[d]] # fl
  <2>1. d \in Holders /\ Held[d] = arg[d] /\ arg[d] \in Pages
    BY <1>5 DEF Held, Holders, IInv, BaseInv, CallTypes, CallTyped
  <2>2. page_map_m[arg[d]] = frame_m[d] /\ frame_m[d] # NoFrame /\ pin_count[frame_m[d]] > 0
    BY <2>1, AccessorFound, PoolAssumption DEF IInv, HoldersResident
  <2> QED BY <2>1, <2>2 DEF FinishDelete, FileHasPinnedPages, PagesOf, Cached
<1>6. Held' = Held /\ Mutators' = Mutators
  <2>1. Moved(c, "idle")
    BY NotifyAllMoves DEF FinishDelete, IInv, BaseInv, TypeOK, PC
  <2>2. \A d \in Clients \ {c} : arg'[d] = arg[d]
    BY DEF FinishDelete, IInv, BaseInv, TypeOK
  <2> QED BY <2>1, <2>2, GuardsKept
<1> QED BY <1>4, <1>5, <1>6 DEF Store!Drop

-----------------------------------------------------------------------------
LEMMA RefinesInit ==
  Init => Store!StoreInit
  BY DEF Init, Store!StoreInit, StoredBytes, Cached, Held, Holders, Mutators

LEMMA RefinesStep ==
  ASSUME SafeEnvironment, DurableShutdown
  PROVE  IInv /\ [Next]_vars => [Store!StoreNext]_(<<StoredBytes, Held, Mutators>>)
<1> DEFINE Quiet == UNCHANGED <<StoredBytes, Held, Mutators>>
<1> SUFFICES ASSUME IInv, [Next]_vars
             PROVE  Store!StoreNext \/ Quiet
  OBVIOUS
<1>1. ASSUME NEW c \in Clients, ClientStep(c)
      PROVE  Store!StoreNext \/ Quiet
  <2>1. ASSUME NEW p \in Pages, GetPage(c, p) \/ GetPageIfFrameAvailable(c, p)
        PROVE  Store!Acquire(c, p) \/ Quiet
    <3>1. running /\ c \notin Holders /\ Requested(p)
      BY <2>1 DEF GetPage, GetPageIfFrameAvailable, Idle, Holders, MayUse, SafeEnvironment, Requested
    <3>2. CASE Waits(c, "get_wait", p)
      BY <3>1, <3>2, WaitRefines
    <3> QED BY <2>1, <3>1, <3>2, FinishGetRefines DEF GetPage, GetPageIfFrameAvailable
  <2>2. CASE ResumeGetPage(c)
    <3>1. arg[c] \in Pages /\ running /\ c \notin Holders /\ Requested(arg[c])
      BY <2>2 DEF ResumeGetPage, At, Holders, IInv, BaseInv, CallTypes, CallTyped, GettersSafe, Requested
    <3>2. CASE Waits(c, "get_wait", arg[c])
      BY <3>1, <3>2, WaitRefines
    <3>3. CASE FinishGet(c, arg[c])
      BY <3>1, <3>3, FinishGetRefines DEF Store!StoreNext
    <3> QED BY <2>2, <3>2, <3>3 DEF ResumeGetPage
  <2>3. CASE GetMutView(c)
    BY <2>3, MutViewIsOpen DEF Store!StoreNext
  <2>4. ASSUME NEW v \in Versions, StoreBytes(c, v) PROVE Store!StoreNext
    BY <2>4, StoreIsWrite DEF Store!StoreNext
  <2>5. CASE RemoveAccessor(c)
    BY <2>5, AccessorIsRelease DEF Store!StoreNext
  <2>6. CASE AbortInRemoveAccessor(c)
    <3>1. c \in Holders
      BY <2>6 DEF AbortInRemoveAccessor, At, Holders
    <3> QED BY <2>6, <3>1, AccessorFound DEF AbortInRemoveAccessor
  <2>7. ASSUME NEW fl \in Files, DeleteFile(c, fl) PROVE Store!StoreNext \/ Quiet
    <3>1. c \notin Holders
      BY <2>7 DEF DeleteFile, Idle, Holders
    <3>2. CASE FinishDelete(c, fl)
      BY <3>1, <3>2, DeleteIsDrop DEF Store!StoreNext
    <3> QED BY <2>7, <3>1, <3>2, WaitRefines DEF DeleteFile
  <2>8. CASE ResumeDeleteFile(c) \/ DeleteFileTimeout(c)
    <3>1. arg[c] \in Files /\ c \notin Holders
      BY <2>8 DEF ResumeDeleteFile, DeleteFileTimeout, At, Holders, IInv, BaseInv, CallTypes, CallTyped
    <3>2. CASE FinishDelete(c, arg[c])
      BY <3>1, <3>2, DeleteIsDrop DEF Store!StoreNext
    <3>3. CASE Waits(c, "delete_wait", arg[c])
      BY <3>1, <3>3, WaitRefines
    <3>4. CASE Returns(c, "idle") /\ UNCHANGED <<frameVars, replacerVars, disk, fileVars, running>>
      <4>1. StoredBytes' = StoredBytes
        BY <3>4, StoredQuiet DEF frameVars, fileVars
      <4> QED BY <3>1, <3>4, <4>1, GuardsAfterReturn
    <3> QED BY <2>8, <3>2, <3>3, <3>4 DEF ResumeDeleteFile, DeleteFileTimeout
  <2>9. CASE SpuriousWakeup(c)
    <3>1. pc[c] \in PC /\ WokenPC(pc[c]) \in {"get_woken", "delete_woken"} /\ c \notin Holders
      BY <2>9 DEF SpuriousWakeup, Waiters, Holders, WokenPC, PC
    <3>2. Moved(c, WokenPC(pc[c])) /\ arg' = arg
      BY <2>9, <3>1, MoveMoves DEF SpuriousWakeup, IInv, BaseInv, TypeOK, PC
    <3>3. Held' = Held /\ Mutators' = Mutators
      BY <3>1, <3>2, GuardsKept
    <3> QED BY <2>9, <3>3, StoredQuiet DEF SpuriousWakeup, frameVars, fileVars
  <2>10. ASSUME NEW p \in Pages, GetPage(c, p) \/ GetPageIfFrameAvailable(c, p)
         PROVE  Store!StoreNext \/ Quiet
    BY <2>1, <2>10 DEF Store!StoreNext
  <2> QED BY <1>1, <2>2, <2>3, <2>4, <2>5, <2>6, <2>7, <2>8, <2>9, <2>10 DEF ClientStep
<1>2. ASSUME NEW fl \in Files, CreateFile(fl) PROVE Quiet
  BY <1>2, StoredQuiet, GuardsQuiet DEF CreateFile, frameVars, clientVars
<1>3. ASSUME NEW p \in Pages, AllocatePage(p) PROVE Store!StoreNext
  BY <1>3, AllocateIsAllocate DEF Store!StoreNext
<1>4. CASE Shutdown \/ Construct
  BY <1>4, StoredRestart, GuardsQuiet DEF Shutdown, Construct, clientVars
<1>5. CASE UNCHANGED vars
  BY <1>5, StoredQuiet, GuardsQuiet DEF vars, frameVars, fileVars, clientVars
<1> QED BY <1>1, <1>2, <1>3, <1>4, <1>5 DEF Next

\* However frames are evicted, reloaded, pinned and dropped, by however many
\* clients, the pool is a plain map from pages to bytes with guards: only
\* AllocatePage, the one client with a mutable view of a page, and DeleteFile of
\* a file nobody uses change a page (page_buffer_manager.cpp:17-194,
\* page.cpp:6-78).
THEOREM PoolImplementsStore ==
  ASSUME SafeEnvironment, DurableShutdown PROVE Spec => ImplementsPageStore
<1>1. IInv /\ [Next]_vars => [Store!StoreNext]_(<<StoredBytes, Held, Mutators>>)
  BY RefinesStep
<1> QED BY <1>1, RefinesInit, SafeAlways, PTL
        DEF Spec, ImplementsPageStore, Store!StoreSpec, Store!storeVars
=============================================================================
