------------------------ MODULE DiskManagerProofs ------------------------
(***************************************************************************)
(* Page allocation gives no page to two owners, for any number of threads,  *)
(* files, handles and pages, and whichever removals fail, in every file that *)
(* no call can allocate in through a forgotten handle.                      *)
(***************************************************************************)
EXTENDS DiskManager, FiniteSetTheorems, TLAPS

\* A call past its lookup.
InCall(t) == pc[t] # "idle"

\* An idle thread refers to no handle, one in a call to the handle it looked up.
CallsHaveHandles == \A t \in Threads :
  /\ InCall(t) => op[t].handle \in Handles
  /\ ~InCall(t) => op[t].handle = NoHandle

\* Only existing files are in the map, each with a handle of its own.
MapExact ==
  /\ \A f \in Files : id_map_m[f] # NoHandle => f \in exists
  /\ \A f, g \in Files : id_map_m[f] = id_map_m[g] /\ id_map_m[f] # NoHandle => f = g

\* A handle belongs to one file, in the map and in the calls that looked it up.
HandlesOfOneFile == \A t \in Threads : InCall(t) =>
  /\ \A g \in Files : id_map_m[g] = op[t].handle => g = op[t].file
  /\ \A u \in Threads : InCall(u) /\ op[u].handle = op[t].handle => op[u].file = op[t].file

\* The files the properties speak of: there, and with no forgotten handle that a
\* call could still allocate through.
Sound == exists \ overtaken

\* Who allocates in a sound file does so through the handle in the map.
AllocatorsCurrent == \A t \in Threads :
  InCall(t) /\ op[t].call = "allocate" /\ op[t].file \in Sound =>
    id_map_m[op[t].file] = op[t].handle

\* A thread between reading the size and resizing has the handle's mutex, and the
\* size of a sound file is still the one it read.
GrowersExclude == \A t \in Threads : pc[t] = "growing" =>
  /\ mut[op[t].handle] = t
  /\ op[t].call = "allocate"
  /\ op[t].file \in Sound => op[t].page = capacity[op[t].file]

\* Who calls with a page of a sound file owns it until the call gets to it.
CallersOwn == \A t \in Threads :
  pc[t] = "looked" /\ op[t].call \in {"transfer", "delete"} /\ op[t].file \in Sound =>
    op[t].page \in PageIds /\ t \in owner[op[t].file][op[t].page]

\* Pages have owners only in files that exist, and one at most unless overtaken.
SingleOwner == \A f \in Files, p \in PageIds :
  /\ f \notin exists => owner[f][p] = {}
  /\ f \notin overtaken => \A t, u \in owner[f][p] : t = u

\* h is the handle of f, or the one a call on f has looked up, forgotten or not.
Refers(f, h) ==
  \/ id_map_m[f] = h
  \/ \E t \in Threads : InCall(t) /\ op[t].file = f /\ op[t].handle = h

\* The pages of a sound file are owned, free in one of its handles, or lost in a
\* restart or with a forgotten handle, but never two of it.
PagesPartitioned == \A f \in Sound, p \in PageIds :
  /\ owner[f][p] # {} => p < capacity[f]
  /\ \A h \in Handles : Refers(f, h) /\ p \in free_pages[h] =>
       /\ p < capacity[f] /\ owner[f][p] = {}
       /\ \A k \in Handles : Refers(f, k) /\ p \in free_pages[k] => k = h

\* The inductive invariant.
DInv ==
  /\ TypeOK /\ CallsHaveHandles /\ MapExact /\ HandlesOfOneFile /\ AllocatorsCurrent
  /\ GrowersExclude /\ CallersOwn /\ SingleOwner /\ PagesPartitioned

-----------------------------------------------------------------------------
(* Facts the steps share. *)

Ops == [call : Calls, file : Files, page : 0 .. MaxPages, handle : Handles \cup {NoHandle}]

LEMMA NoCallType == NoCall \in Ops /\ NoCall.handle = NoHandle
<1>1. (CHOOSE f \in Files : TRUE) \in Files
  BY DiskAssumption
<1> QED BY <1>1, DiskAssumption DEF NoCall, Ops, Calls

\* The fields of a call.
LEMMA OpFields ==
  ASSUME TypeOK, NEW t \in Threads
  PROVE  /\ op[t] \in Ops /\ op[t].call \in Calls /\ op[t].file \in Files
         /\ op[t].page \in 0 .. MaxPages /\ op[t].handle \in Handles \cup {NoHandle}
  BY DEF TypeOK, Ops

\* t moves to a phase with a call; the others stay where they are.
Moves(t, phase, o) ==
  /\ pc' = [pc EXCEPT ![t] = phase]
  /\ op' = [op EXCEPT ![t] = o]

LEMMA MovesOne ==
  ASSUME TypeOK, NEW t \in Threads, NEW phase \in {"idle", "looked", "growing"}, NEW o \in Ops,
         Moves(t, phase, o)
  PROVE  /\ pc' \in [Threads -> {"idle", "looked", "growing"}] /\ op' \in [Threads -> Ops]
         /\ pc'[t] = phase /\ op'[t] = o
         /\ \A u \in Threads \ {t} : pc'[u] = pc[u] /\ op'[u] = op[u]
  BY DEF TypeOK, Ops, Moves

LEMMA ReturnMoves ==
  ASSUME TypeOK, NEW t \in Threads, Return(t)
  PROVE  /\ pc' \in [Threads -> {"idle", "looked", "growing"}] /\ op' \in [Threads -> Ops]
         /\ pc'[t] = "idle" /\ op'[t].handle = NoHandle
         /\ \A u \in Threads \ {t} : pc'[u] = pc[u] /\ op'[u] = op[u]
<1>1. Moves(t, "idle", NoCall)
  BY DEF Return, Moves
<1> QED BY <1>1, MovesOne, NoCallType

\* What the return of t keeps whatever else happens to pages, and that it adds no
\* reference to a handle.
LEMMA ReturnKeeps ==
  ASSUME DInv, NEW t \in Threads, Return(t), UNCHANGED <<exists, id_map_m, overtaken>>
  PROVE  /\ CallsHaveHandles' /\ MapExact' /\ HandlesOfOneFile' /\ AllocatorsCurrent'
         /\ \A f \in Files, h \in Handles : Refers(f, h)' => Refers(f, h)
<1>1. /\ pc'[t] = "idle" /\ op'[t].handle = NoHandle
      /\ \A u \in Threads \ {t} : pc'[u] = pc[u] /\ op'[u] = op[u]
  BY ReturnMoves DEF DInv
<1>2. CallsHaveHandles'
  BY <1>1 DEF DInv, CallsHaveHandles, InCall
<1>3. MapExact'
  BY DEF DInv, MapExact
<1>4. HandlesOfOneFile'
  BY <1>1 DEF DInv, HandlesOfOneFile, InCall
<1>5. AllocatorsCurrent'
  BY <1>1 DEF DInv, AllocatorsCurrent, InCall, Sound
<1>6. \A f \in Files, h \in Handles : Refers(f, h)' => Refers(f, h)
  BY <1>1 DEF Refers, InCall
<1> QED BY <1>2, <1>3, <1>4, <1>5, <1>6

\* Nobody refers to the handle of a call for another file.
LEMMA RefersOne ==
  ASSUME DInv, NEW t \in Threads, InCall(t), NEW g \in Files, Refers(g, op[t].handle)
  PROVE  g = op[t].file
  BY DEF DInv, HandlesOfOneFile, Refers

-----------------------------------------------------------------------------
(* The invariant holds at first, and each action keeps it. *)

LEMMA DInit == Init => DInv
<1> SUFFICES ASSUME Init
             PROVE  DInv
  OBVIOUS
<1>1. NoCall \in Ops /\ NoCall.handle = NoHandle
  BY NoCallType
<1>2. TypeOK
  BY <1>1, DiskAssumption DEF Init, TypeOK, Ops
<1>3. CallsHaveHandles
  BY <1>1 DEF Init, CallsHaveHandles, InCall
<1> QED BY <1>2, <1>3 DEF Init, DInv, MapExact, HandlesOfOneFile, AllocatorsCurrent, GrowersExclude,
           CallersOwn, SingleOwner, PagesPartitioned, InCall, Sound

LEMMA CreateFileInv ==
  ASSUME DInv, NEW f \in Files, CreateFile(f)
  PROVE  DInv'
<1>1. /\ exists' = exists \cup {f} /\ capacity' = [capacity EXCEPT ![f] = 0]
      /\ pc' = pc /\ op' = op /\ owner' = owner /\ id_map_m' = id_map_m
      /\ free_pages' = free_pages /\ stream' = stream /\ mut' = mut
  BY DEF CreateFile, handleVars
<1>2. overtaken' \in SUBSET Files /\ \A g \in Files \ {f} : g \in overtaken' <=> g \in overtaken
  BY DEF CreateFile, DInv, TypeOK
<1>3. /\ \A g \in Sound' : g \in Files /\ (g # f => g \in Sound)
      /\ f \in Sound' => \A t \in Threads : InCall(t) => op[t].file # f
  BY <1>1, <1>2 DEF CreateFile, Busy, InCall, Sound, DInv, TypeOK
<1>4. TypeOK'
  BY <1>1, <1>2, DiskAssumption DEF DInv, TypeOK
<1>5. CallsHaveHandles' /\ MapExact' /\ HandlesOfOneFile'
  BY <1>1 DEF DInv, CallsHaveHandles, MapExact, HandlesOfOneFile, InCall
<1>6. AllocatorsCurrent'
  BY <1>1, <1>3 DEF DInv, AllocatorsCurrent, InCall
<1>7. GrowersExclude'
  <2>1. ASSUME NEW t \in Threads, pc[t] = "growing", op[t].file \in Sound'
        PROVE  op[t].page = capacity'[op[t].file]
    <3>1. op[t].file # f /\ op[t].file \in Files /\ op[t].file \in Sound
      BY <1>3, <2>1, OpFields DEF InCall, DInv
    <3> QED BY <1>1, <2>1, <3>1 DEF DInv, TypeOK, GrowersExclude
  <2> QED BY <1>1, <2>1 DEF DInv, GrowersExclude
<1>8. CallersOwn'
  BY <1>1, <1>3 DEF DInv, CallersOwn, InCall
<1>9. SingleOwner'
  <2> SUFFICES ASSUME NEW g \in Files, NEW p \in PageIds
               PROVE  /\ g \notin exists' => owner[g][p] = {}
                      /\ g \notin overtaken' => \A t, u \in owner[g][p] : t = u
    BY <1>1 DEF SingleOwner
  <2>1. CASE g = f
    BY <2>1 DEF DInv, SingleOwner, CreateFile
  <2>2. CASE g # f
    BY <1>1, <1>2, <2>2 DEF DInv, SingleOwner
  <2> QED BY <2>1, <2>2
<1>10. PagesPartitioned'
  <2> SUFFICES ASSUME NEW g \in Sound', NEW p \in PageIds
               PROVE  /\ owner[g][p] # {} => p < capacity'[g]
                      /\ \A h \in Handles : Refers(g, h) /\ p \in free_pages[h] =>
                           /\ p < capacity'[g] /\ owner[g][p] = {}
                           /\ \A k \in Handles : Refers(g, k) /\ p \in free_pages[k] => k = h
    BY <1>1 DEF PagesPartitioned, Refers, InCall
  <2>1. CASE g = f
    <3>1. id_map_m[f] = NoHandle /\ owner[f][p] = {}
      BY DEF DInv, MapExact, SingleOwner, CreateFile
    <3>2. \A h \in Handles : ~Refers(f, h)
      BY <1>3, <2>1, <3>1, DiskAssumption DEF Refers
    <3> QED BY <2>1, <3>1, <3>2
  <2>2. CASE g # f
    <3>1. g \in Sound /\ capacity'[g] = capacity[g]
      BY <1>1, <1>3, <2>2 DEF DInv, TypeOK
    <3> QED BY <3>1 DEF DInv, PagesPartitioned
  <2> QED BY <2>1, <2>2
<1> QED BY <1>4, <1>5, <1>6, <1>7, <1>8, <1>9, <1>10 DEF DInv

\* What DeleteFile leaves of the file: nothing, or everything when the removal fails.
LEMMA Removed ==
  ASSUME DInv, NEW f \in Files, DeleteFile(f)
  PROVE  /\ exists' \subseteq exists /\ overtaken' \in SUBSET Files /\ overtaken \subseteq overtaken'
         /\ \A g \in Files \ {f} : g \in exists' <=> g \in exists
         /\ capacity' \in [Files -> 0 .. MaxPages]
         /\ owner' \in [Files -> [PageIds -> SUBSET Threads]]
         /\ \A g \in Files : f # g \/ f \in exists' => capacity'[g] = capacity[g] /\ owner'[g] = owner[g]
         /\ f \notin exists' => \A p \in PageIds : owner'[f][p] = {}
         /\ f \in exists' /\ f \notin overtaken' =>
              \A t \in Threads : InCall(t) /\ op[t].file = f => op[t].call # "allocate"
<1>1. CASE RemoveFile(f)
  BY <1>1, DiskAssumption DEF RemoveFile, DInv, TypeOK
<1>2. CASE RemoveFails(f)
  <2>1. exists' = exists /\ capacity' = capacity /\ owner' = owner
    BY <1>2 DEF RemoveFails, diskVars
  <2>2. overtaken' = IF Allocating(f) THEN overtaken \cup {f} ELSE overtaken
    BY <1>2 DEF RemoveFails
  <2>3. f \in exists
    BY DEF DeleteFile
  <2>4. f \notin overtaken' => ~Allocating(f)
    BY <2>2
  <2>5. ~Allocating(f) => \A t \in Threads : InCall(t) /\ op[t].file = f => op[t].call # "allocate"
    BY DEF Allocating, InCall
  <2>6. overtaken' \in SUBSET Files /\ overtaken \subseteq overtaken'
    BY <2>2 DEF DInv, TypeOK
  <2> QED BY <2>1, <2>3, <2>4, <2>5, <2>6 DEF DInv, TypeOK
<1> QED BY <1>1, <1>2 DEF DeleteFile

LEMMA DeleteFileInv ==
  ASSUME DInv, NEW f \in Files, DeleteFile(f)
  PROVE  DInv'
<1>1. pc' = pc /\ op' = op /\ free_pages' = free_pages /\ mut' = mut
  BY DEF DeleteFile
<1>2. /\ id_map_m' \in [Files -> Handles \cup {NoHandle}]
      /\ id_map_m'[f] = NoHandle /\ \A g \in Files \ {f} : id_map_m'[g] = id_map_m[g]
  BY DEF DeleteFile, DInv, TypeOK
<1>3. /\ exists' \subseteq exists /\ overtaken' \in SUBSET Files /\ overtaken \subseteq overtaken'
      /\ \A g \in Files \ {f} : g \in exists' <=> g \in exists
      /\ capacity' \in [Files -> 0 .. MaxPages]
      /\ owner' \in [Files -> [PageIds -> SUBSET Threads]]
      /\ \A g \in Files : f # g \/ f \in exists' => capacity'[g] = capacity[g] /\ owner'[g] = owner[g]
      /\ f \notin exists' => \A p \in PageIds : owner'[f][p] = {}
      /\ f \in exists' /\ f \notin overtaken' =>
           \A t \in Threads : InCall(t) /\ op[t].file = f => op[t].call # "allocate"
  BY Removed
<1>4. stream' \in [Handles -> {"good", "failed", "closed"}]
  BY DEF DeleteFile, DInv, TypeOK
<1>5. TypeOK'
  BY <1>1, <1>2, <1>3, <1>4 DEF DInv, TypeOK
<1>6. CallsHaveHandles'
  BY <1>1 DEF DInv, CallsHaveHandles, InCall
<1>7. MapExact'
  BY <1>2, <1>3 DEF DInv, MapExact
<1>8. \A g \in Sound' : /\ g \in Sound /\ g \in Files /\ capacity'[g] = capacity[g] /\ owner'[g] = owner[g]
                        /\ g = f => \A t \in Threads : InCall(t) /\ op[t].file = f => op[t].call # "allocate"
  BY <1>3 DEF Sound, DInv, TypeOK
<1>9. \A g \in Files, h \in Handles : Refers(g, h)' => Refers(g, h)
  BY <1>1, <1>2, DiskAssumption DEF Refers, InCall
<1>10. HandlesOfOneFile'
  <2> SUFFICES ASSUME NEW t \in Threads, InCall(t)
               PROVE  /\ \A g \in Files : id_map_m'[g] = op[t].handle => g = op[t].file
                      /\ \A u \in Threads : InCall(u) /\ op[u].handle = op[t].handle => op[u].file = op[t].file
    BY <1>1 DEF HandlesOfOneFile, InCall
  <2>1. op[t].handle # NoHandle
    BY DiskAssumption DEF DInv, CallsHaveHandles
  <2> QED BY <1>2, <2>1 DEF DInv, HandlesOfOneFile
<1>11. AllocatorsCurrent'
  <2> SUFFICES ASSUME NEW t \in Threads, InCall(t), op[t].call = "allocate", op[t].file \in Sound'
               PROVE  id_map_m'[op[t].file] = op[t].handle
    BY <1>1 DEF AllocatorsCurrent, InCall
  <2>1. op[t].file \in Files \ {f} /\ op[t].file \in Sound
    BY <1>8
  <2> QED BY <1>2, <2>1 DEF DInv, AllocatorsCurrent
<1>12. GrowersExclude'
  BY <1>1, <1>8 DEF DInv, GrowersExclude
<1>13. CallersOwn'
  BY <1>1, <1>8 DEF DInv, CallersOwn
<1>14. SingleOwner'
  <2> SUFFICES ASSUME NEW g \in Files, NEW p \in PageIds
               PROVE  /\ g \notin exists' => owner'[g][p] = {}
                      /\ g \notin overtaken' => \A t, u \in owner'[g][p] : t = u
    BY DEF SingleOwner
  <2>1. CASE g = f /\ f \notin exists'
    BY <1>3, <2>1
  <2>2. CASE g # f \/ f \in exists'
    <3>1. owner'[g] = owner[g] /\ (g \notin exists' => g \notin exists) /\ (g \notin overtaken' => g \notin overtaken)
      BY <1>3, <2>2
    <3> QED BY <3>1 DEF DInv, SingleOwner
  <2> QED BY <2>1, <2>2
<1>15. PagesPartitioned'
  <2> SUFFICES ASSUME NEW g \in Sound', NEW p \in PageIds
               PROVE  /\ owner'[g][p] # {} => p < capacity'[g]
                      /\ \A h \in Handles : Refers(g, h)' /\ p \in free_pages[h] =>
                           /\ p < capacity'[g] /\ owner'[g][p] = {}
                           /\ \A k \in Handles : Refers(g, k)' /\ p \in free_pages[k] => k = h
    BY <1>1 DEF PagesPartitioned
  <2> QED BY <1>8, <1>9 DEF DInv, PagesPartitioned
<1> QED BY <1>5, <1>6, <1>7, <1>10, <1>11, <1>12, <1>13, <1>14, <1>15 DEF DInv

\* What GetFileHandle answers: the handle of f in the map, or one nobody refers to.
LEMMA HandleFound ==
  ASSUME DInv, NEW f \in Files, NEW h \in Handles, GetFileHandle(f, h)
  PROVE  /\ f \in exists
         /\ id_map_m' \in [Files -> Handles \cup {NoHandle}]
         /\ id_map_m'[f] = h
         /\ \A g \in Files \ {f} : id_map_m'[g] = id_map_m[g] /\ id_map_m[g] # h
         /\ id_map_m[f] = h \/ (id_map_m[f] = NoHandle /\ free_pages'[h] = {})
         /\ \A u \in Threads : InCall(u) /\ op[u].handle = h => op[u].file = f
<1>1. h # NoHandle
  BY DiskAssumption
<1>2. CASE id_map_m[f] = h /\ UNCHANGED handleVars
  <2>1. f \in exists
    BY <1>1, <1>2 DEF DInv, MapExact
  <2>2. \A g \in Files \ {f} : id_map_m[g] # h
    BY <1>1, <1>2 DEF DInv, MapExact
  <2>3. \A u \in Threads : InCall(u) /\ op[u].handle = h => op[u].file = f
    BY <1>2 DEF DInv, HandlesOfOneFile
  <2> QED BY <1>2, <2>1, <2>2, <2>3 DEF handleVars, DInv, TypeOK
<1>3. CASE /\ id_map_m[f] = NoHandle /\ f \in exists /\ Unreferenced(h)
           /\ id_map_m' = [id_map_m EXCEPT ![f] = h]
           /\ free_pages' = [free_pages EXCEPT ![h] = {}]
  BY <1>3 DEF DInv, TypeOK, Unreferenced
<1> QED BY <1>2, <1>3 DEF GetFileHandle

\* It does not disturb a growing thread's mutex or another handle's free pages.
LEMMA HandleKept ==
  ASSUME DInv, NEW f \in Files, NEW h \in Handles, GetFileHandle(f, h)
  PROVE  /\ free_pages' \in [Handles -> SUBSET PageIds]
         /\ stream' \in [Handles -> {"good", "failed", "closed"}]
         /\ mut' \in [Handles -> Threads \cup {NoThread}]
         /\ \A k \in Handles : free_pages'[k] = free_pages[k] \/ (k = h /\ free_pages'[k] = {})
         /\ free_pages'[h] # {} => id_map_m[f] = h
         /\ \A u \in Threads : InCall(u) => mut'[op[u].handle] = mut[op[u].handle]
<1>2. CASE id_map_m[f] = h /\ UNCHANGED handleVars
  BY <1>2 DEF handleVars, DInv, TypeOK
<1>3. CASE /\ Unreferenced(h)
           /\ free_pages' = [free_pages EXCEPT ![h] = {}]
           /\ stream' = [stream EXCEPT ![h] = "good"]
           /\ mut' = [mut EXCEPT ![h] = NoThread]
  <2>1. \A u \in Threads : InCall(u) => op[u].handle \in Handles \ {h}
    BY <1>3 DEF DInv, CallsHaveHandles, Unreferenced
  <2> QED BY <1>3, <2>1 DEF DInv, TypeOK
<1> QED BY <1>2, <1>3 DEF GetFileHandle

LEMMA LookUpInv ==
  ASSUME DInv, NEW t \in Threads, NEW call \in Calls, NEW f \in Files, NEW p \in 0 .. MaxPages,
         call \in {"transfer", "delete"} => p \in PageIds,
         call # "none", LookUp(t, call, f, p)
  PROVE  DInv'
<1>1. PICK h \in Handles :
        /\ GetFileHandle(f, h)
        /\ op' = [op EXCEPT ![t] = [call |-> call, file |-> f, page |-> p, handle |-> h]]
  BY DEF LookUp
<1> DEFINE o == [call |-> call, file |-> f, page |-> p, handle |-> h]
<1>2. o \in Ops /\ o.call = call /\ o.file = f /\ o.page = p /\ o.handle = h
  BY DEF Ops
<1>3. Moves(t, "looked", o)
  BY <1>1 DEF LookUp, Moves
<1> HIDE DEF o
<1>4. /\ pc' \in [Threads -> {"idle", "looked", "growing"}] /\ op' \in [Threads -> Ops]
      /\ pc'[t] = "looked" /\ op'[t] = o
      /\ \A u \in Threads \ {t} : pc'[u] = pc[u] /\ op'[u] = op[u]
  BY <1>2, <1>3, MovesOne DEF DInv
<1>5. /\ f \in exists
      /\ id_map_m' \in [Files -> Handles \cup {NoHandle}]
      /\ id_map_m'[f] = h
      /\ \A g \in Files \ {f} : id_map_m'[g] = id_map_m[g] /\ id_map_m[g] # h
      /\ id_map_m[f] = h \/ (id_map_m[f] = NoHandle /\ free_pages'[h] = {})
      /\ \A u \in Threads : InCall(u) /\ op[u].handle = h => op[u].file = f
  BY <1>1, HandleFound
<1>6. /\ free_pages' \in [Handles -> SUBSET PageIds]
      /\ stream' \in [Handles -> {"good", "failed", "closed"}]
      /\ mut' \in [Handles -> Threads \cup {NoThread}]
      /\ \A k \in Handles : free_pages'[k] = free_pages[k] \/ (k = h /\ free_pages'[k] = {})
      /\ free_pages'[h] # {} => id_map_m[f] = h
      /\ \A u \in Threads : InCall(u) => mut'[op[u].handle] = mut[op[u].handle]
  BY <1>1, HandleKept
<1>7. exists' = exists /\ capacity' = capacity /\ owner' = owner /\ overtaken' = overtaken
  BY DEF LookUp, diskVars, historyVars
<1>8. h # NoHandle /\ ~InCall(t)
  BY DiskAssumption DEF LookUp, InCall
<1>9. TypeOK'
  BY <1>4, <1>5, <1>6, <1>7 DEF DInv, TypeOK, Ops
<1>10. CallsHaveHandles'
  BY <1>2, <1>4 DEF DInv, CallsHaveHandles, InCall
<1>11. MapExact'
  BY <1>5, <1>7, <1>8 DEF DInv, MapExact
<1>12. \A u \in Threads : pc'[u] # "idle" /\ u # t =>
         /\ InCall(u) /\ op'[u] = op[u] /\ op[u].file \in Files
         /\ \A g \in Files : id_map_m[g] = op[u].handle => g = op[u].file
         /\ op[u].handle = h => op[u].file = f
  <2> SUFFICES ASSUME NEW u \in Threads, pc'[u] # "idle", u # t
               PROVE  /\ InCall(u) /\ op'[u] = op[u] /\ op[u].file \in Files
                      /\ \A g \in Files : id_map_m[g] = op[u].handle => g = op[u].file
                      /\ op[u].handle = h => op[u].file = f
    OBVIOUS
  <2>1. InCall(u) /\ op'[u] = op[u] /\ op[u].file \in Files
    BY <1>4, OpFields DEF InCall, DInv
  <2> QED BY <1>5, <2>1 DEF DInv, HandlesOfOneFile
<1>13. HandlesOfOneFile'
  <2> SUFFICES ASSUME NEW u \in Threads, pc'[u] # "idle"
               PROVE  /\ \A g \in Files : id_map_m'[g] = op'[u].handle => g = op'[u].file
                      /\ \A v \in Threads : pc'[v] # "idle" /\ op'[v].handle = op'[u].handle =>
                           op'[v].file = op'[u].file
    BY DEF HandlesOfOneFile, InCall
  <2>1. CASE u = t
    <3>1. op'[u].handle = h /\ op'[u].file = f
      BY <1>2, <1>4, <2>1
    <3> QED BY <1>5, <1>12, <2>1, <3>1
  <2>2. CASE u # t
    <3>1. ASSUME NEW g \in Files, id_map_m'[g] = op'[u].handle
          PROVE  g = op'[u].file
      BY <1>5, <1>12, <2>2, <3>1
    <3>2. ASSUME NEW v \in Threads, pc'[v] # "idle", op'[v].handle = op'[u].handle
          PROVE  op'[v].file = op'[u].file
      <4>1. CASE v = t
        BY <1>2, <1>4, <1>12, <2>2, <3>2, <4>1
      <4>2. CASE v # t
        BY <1>12, <2>2, <3>2, <4>2 DEF DInv, HandlesOfOneFile
      <4> QED BY <4>1, <4>2
    <3> QED BY <3>1, <3>2
  <2> QED BY <2>1, <2>2
<1>14. AllocatorsCurrent'
  <2> SUFFICES ASSUME NEW u \in Threads, pc'[u] # "idle", op'[u].call = "allocate", op'[u].file \in Sound
               PROVE  id_map_m'[op'[u].file] = op'[u].handle
    BY <1>7 DEF AllocatorsCurrent, InCall, Sound
  <2>1. CASE u = t
    BY <1>2, <1>4, <1>5, <2>1
  <2>2. CASE u # t
    <3>1. InCall(u) /\ op'[u] = op[u] /\ op[u].file \in Files /\ op[u].handle # NoHandle
      BY <1>12, <2>2, DiskAssumption DEF DInv, CallsHaveHandles
    <3>2. id_map_m[op[u].file] = op[u].handle
      BY <3>1 DEF DInv, AllocatorsCurrent
    <3> QED BY <1>5, <3>1, <3>2
  <2> QED BY <2>1, <2>2
<1>15. GrowersExclude'
  BY <1>4, <1>6, <1>7, <1>8 DEF DInv, GrowersExclude, InCall, Sound
<1>16. CallersOwn'
  <2> SUFFICES ASSUME NEW u \in Threads, pc'[u] = "looked", op'[u].call \in {"transfer", "delete"},
                      op'[u].file \in Sound
               PROVE  op'[u].page \in PageIds /\ u \in owner[op'[u].file][op'[u].page]
    BY <1>7 DEF CallersOwn, Sound
  <2>1. CASE u = t
    <3>1. op'[u].call = call /\ op'[u].file = f /\ op'[u].page = p
      BY <1>2, <1>4, <2>1
    <3> QED BY <2>1, <3>1 DEF LookUp, MayCall
  <2>2. CASE u # t
    BY <1>4, <2>2 DEF DInv, CallersOwn
  <2> QED BY <2>1, <2>2
<1>17. SingleOwner'
  BY <1>7 DEF DInv, SingleOwner
<1>18. PagesPartitioned'
  <2> SUFFICES ASSUME NEW g \in Sound, NEW q \in PageIds
               PROVE  /\ owner[g][q] # {} => q < capacity[g]
                      /\ \A k \in Handles : Refers(g, k)' /\ q \in free_pages'[k] =>
                           /\ q < capacity[g] /\ owner[g][q] = {}
                           /\ \A l \in Handles : Refers(g, l)' /\ q \in free_pages'[l] => l = k
    BY <1>7 DEF PagesPartitioned, Sound
  <2>1. g \in Files
    BY DEF DInv, TypeOK, Sound
  <2>2. ASSUME NEW k \in Handles, Refers(g, k)', q \in free_pages'[k]
        PROVE  Refers(g, k) /\ q \in free_pages[k]
    <3>1. q \in free_pages[k] /\ (k = h => id_map_m[f] = h)
      BY <1>6, <2>2
    <3>2. CASE id_map_m'[g] = k
      BY <1>5, <2>1, <3>1, <3>2 DEF Refers
    <3>3. CASE \E u \in Threads : pc'[u] # "idle" /\ op'[u].file = g /\ op'[u].handle = k
      <4>1. PICK u \in Threads : pc'[u] # "idle" /\ op'[u].file = g /\ op'[u].handle = k
        BY <3>3
      <4>2. CASE u = t
        BY <1>2, <1>4, <3>1, <4>1, <4>2 DEF Refers
      <4>3. CASE u # t
        BY <1>12, <3>1, <4>1, <4>3 DEF Refers
      <4> QED BY <4>2, <4>3
    <3> QED BY <2>2, <3>2, <3>3 DEF Refers, InCall
  <2> QED BY <2>2 DEF DInv, PagesPartitioned
<1> QED BY <1>9, <1>10, <1>11, <1>13, <1>14, <1>15, <1>16, <1>17, <1>18 DEF DInv

LEMMA AllocateFreeInv ==
  ASSUME DInv, NEW t \in Threads, AllocateFree(t)
  PROVE  DInv'
<1> DEFINE h == op[t].handle
           f == op[t].file
<1>1. InCall(t) /\ h \in Handles /\ f \in Files /\ pc[t] = "looked" /\ op[t].call = "allocate"
  BY OpFields DEF DInv, AllocateFree, Enters, InCall, CallsHaveHandles
<1>2. PICK p \in free_pages[h] :
        /\ free_pages' = [free_pages EXCEPT ![h] = @ \ {p}]
        /\ owner' = IF f \in exists THEN [owner EXCEPT ![f][p] = @ \cup {t}] ELSE owner
  BY DEF AllocateFree
<1>3. p \in PageIds
  BY <1>1 DEF DInv, TypeOK
<1>4. /\ pc' \in [Threads -> {"idle", "looked", "growing"}] /\ op' \in [Threads -> Ops]
      /\ pc'[t] = "idle" /\ op'[t].handle = NoHandle
      /\ \A u \in Threads \ {t} : pc'[u] = pc[u] /\ op'[u] = op[u]
  BY ReturnMoves DEF DInv, AllocateFree
<1>5. /\ exists' = exists /\ capacity' = capacity /\ id_map_m' = id_map_m /\ stream' = stream
      /\ mut' = mut /\ overtaken' = overtaken
  BY DEF AllocateFree, diskVars
<1>6. /\ CallsHaveHandles' /\ MapExact' /\ HandlesOfOneFile' /\ AllocatorsCurrent'
      /\ \A g \in Files, k \in Handles : Refers(g, k)' => Refers(g, k)
  BY <1>5, ReturnKeeps DEF AllocateFree
<1>7. Refers(f, h)
  BY <1>1 DEF Refers
<1>8. f \in Sound => /\ p < capacity[f] /\ owner[f][p] = {}
                     /\ \A k \in Handles : Refers(f, k) /\ p \in free_pages[k] => k = h
  BY <1>1, <1>3, <1>7 DEF DInv, PagesPartitioned
<1>9. /\ free_pages' \in [Handles -> SUBSET PageIds]
      /\ free_pages'[h] = free_pages[h] \ {p}
      /\ \A k \in Handles \ {h} : free_pages'[k] = free_pages[k]
  BY <1>1, <1>2 DEF DInv, TypeOK
<1>10. /\ owner' \in [Files -> [PageIds -> SUBSET Threads]]
       /\ \A g \in Files, q \in PageIds :
            owner'[g][q] = IF g = f /\ q = p /\ f \in exists THEN owner[f][p] \cup {t} ELSE owner[g][q]
  BY <1>1, <1>2, <1>3 DEF DInv, TypeOK
<1>11. TypeOK'
  BY <1>4, <1>5, <1>9, <1>10 DEF DInv, TypeOK, Ops
<1>12. GrowersExclude'
  BY <1>4, <1>5 DEF DInv, GrowersExclude, Sound
<1>13. CallersOwn'
  <2> SUFFICES ASSUME NEW u \in Threads, pc'[u] = "looked", op'[u].call \in {"transfer", "delete"},
                      op'[u].file \in Sound
               PROVE  op'[u].page \in PageIds /\ u \in owner'[op'[u].file][op'[u].page]
    BY <1>5 DEF CallersOwn, Sound
  <2>1. /\ pc[u] = "looked" /\ op'[u] = op[u] /\ op[u].file \in Files
        /\ op[u].page \in PageIds /\ u \in owner[op[u].file][op[u].page]
    BY <1>4, OpFields DEF DInv, CallersOwn
  <2> QED BY <1>10, <2>1
<1>14. SingleOwner'
  <2> SUFFICES ASSUME NEW g \in Files, NEW q \in PageIds
               PROVE  /\ g \notin exists => owner'[g][q] = {}
                      /\ g \notin overtaken => \A v, w \in owner'[g][q] : v = w
    BY <1>5 DEF SingleOwner
  <2>1. CASE g = f /\ q = p /\ f \in exists
    <3>1. g \notin overtaken => owner'[g][q] = {t}
      BY <1>3, <1>8, <1>10, <2>1 DEF Sound
    <3> QED BY <2>1, <3>1
  <2>2. CASE ~(g = f /\ q = p /\ f \in exists)
    <3>1. owner'[g][q] = owner[g][q]
      BY <1>10, <2>2
    <3> QED BY <3>1 DEF DInv, SingleOwner
  <2> QED BY <2>1, <2>2
<1>15. PagesPartitioned'
  <2> SUFFICES ASSUME NEW g \in Sound, NEW q \in PageIds
               PROVE  /\ owner'[g][q] # {} => q < capacity[g]
                      /\ \A k \in Handles : Refers(g, k)' /\ q \in free_pages'[k] =>
                           /\ q < capacity[g] /\ owner'[g][q] = {}
                           /\ \A l \in Handles : Refers(g, l)' /\ q \in free_pages'[l] => l = k
    BY <1>5 DEF PagesPartitioned, Sound
  <2>1. g \in Files /\ g \in exists
    BY DEF DInv, TypeOK, Sound
  <2>2. owner'[g][q] # {} => q < capacity[g]
    BY <1>8, <1>10, <2>1 DEF DInv, PagesPartitioned
  <2>3. \A k \in Handles : Refers(g, k)' /\ q \in free_pages'[k] => Refers(g, k) /\ q \in free_pages[k]
    BY <1>6, <1>9, <2>1
  <2>4. ASSUME NEW k \in Handles, Refers(g, k)', q \in free_pages'[k]
        PROVE  q < capacity[g] /\ owner'[g][q] = {}
    <3>1. q < capacity[g] /\ owner[g][q] = {}
      BY <2>3, <2>4 DEF DInv, PagesPartitioned
    <3>2. ~(g = f /\ q = p)
      BY <1>8, <1>9, <2>3, <2>4
    <3> QED BY <1>10, <2>1, <3>1, <3>2
  <2> QED BY <2>2, <2>3, <2>4 DEF DInv, PagesPartitioned
<1> QED BY <1>6, <1>11, <1>12, <1>13, <1>14, <1>15 DEF DInv

LEMMA ReadSizeInv ==
  ASSUME DInv, NEW t \in Threads, ReadSize(t)
  PROVE  DInv'
<1> DEFINE h == op[t].handle
           f == op[t].file
<1>1. /\ InCall(t) /\ h \in Handles /\ f \in Files /\ pc[t] = "looked" /\ mut[h] = NoThread
      /\ op[t].call = "allocate"
  BY OpFields DEF DInv, ReadSize, Enters, InCall, CallsHaveHandles
<1>2. /\ exists' = exists /\ capacity' = capacity /\ id_map_m' = id_map_m /\ stream' = stream
      /\ free_pages' = free_pages /\ owner' = owner /\ overtaken' = overtaken
  BY DEF ReadSize, diskVars, historyVars
<1>3. MapExact' /\ SingleOwner'
  BY <1>2 DEF DInv, MapExact, SingleOwner
<1>4. ASSUME \A g \in Files, k \in Handles : Refers(g, k)' => Refers(g, k)
      PROVE  PagesPartitioned'
  <2> SUFFICES ASSUME NEW g \in Sound, NEW q \in PageIds
               PROVE  /\ owner[g][q] # {} => q < capacity[g]
                      /\ \A k \in Handles : Refers(g, k)' /\ q \in free_pages[k] =>
                           /\ q < capacity[g] /\ owner[g][q] = {}
                           /\ \A l \in Handles : Refers(g, l)' /\ q \in free_pages[l] => l = k
    BY <1>2 DEF PagesPartitioned, Sound
  <2>1. g \in Files
    BY DEF DInv, TypeOK, Sound
  <2> QED BY <1>4, <2>1 DEF DInv, PagesPartitioned
<1>5. CASE f \in exists
  <2> DEFINE o == [op[t] EXCEPT !.page = capacity[f]]
  <2>1. capacity[f] \in 0 .. MaxPages
    BY <1>1 DEF DInv, TypeOK
  <2>2. o \in Ops /\ o.file = f /\ o.handle = h /\ o.page = capacity[f] /\ o.call = op[t].call
    BY <2>1, OpFields DEF DInv, Ops
  <2>3. Moves(t, "growing", o) /\ mut' = [mut EXCEPT ![h] = t]
    BY <1>5 DEF ReadSize, Moves
  <2> HIDE DEF o
  <2>4. /\ pc' \in [Threads -> {"idle", "looked", "growing"}] /\ op' \in [Threads -> Ops]
        /\ pc'[t] = "growing" /\ op'[t] = o
        /\ \A u \in Threads \ {t} : pc'[u] = pc[u] /\ op'[u] = op[u]
    BY <2>2, <2>3, MovesOne DEF DInv
  <2>5. TypeOK'
    BY <1>1, <1>2, <2>3, <2>4 DEF DInv, TypeOK, Ops
  <2>6. \A u \in Threads : /\ pc'[u] # "idle" <=> InCall(u)
                           /\ op'[u].handle = op[u].handle /\ op'[u].file = op[u].file
                           /\ op'[u].call = op[u].call
    BY <1>1, <2>2, <2>4 DEF InCall
  <2>7. CallsHaveHandles'
    BY <2>6 DEF DInv, CallsHaveHandles, InCall
  <2>8. HandlesOfOneFile'
    BY <1>2, <2>6 DEF DInv, HandlesOfOneFile, InCall
  <2>9. AllocatorsCurrent'
    BY <1>2, <2>6 DEF DInv, AllocatorsCurrent, InCall, Sound
  <2>10. GrowersExclude'
    <3> SUFFICES ASSUME NEW u \in Threads, pc'[u] = "growing"
                 PROVE  /\ mut'[op'[u].handle] = u /\ op'[u].call = "allocate"
                        /\ op'[u].file \in Sound => op'[u].page = capacity[op'[u].file]
      BY <1>2 DEF GrowersExclude, Sound
    <3>1. CASE u = t
      BY <1>1, <2>2, <2>3, <2>4, <3>1 DEF DInv, TypeOK
    <3>2. CASE u # t
      <4>1. pc[u] = "growing" /\ op'[u] = op[u] /\ op[u].handle \in Handles
        BY <2>4, <3>2 DEF DInv, CallsHaveHandles, InCall
      <4>2. op[u].handle # h
        BY <1>1, <4>1, DiskAssumption DEF DInv, GrowersExclude
      <4> QED BY <2>3, <4>1, <4>2 DEF DInv, TypeOK, GrowersExclude
    <3> QED BY <3>1, <3>2
  <2>11. CallersOwn'
    BY <1>2, <2>4 DEF DInv, CallersOwn, Sound
  <2>12. PagesPartitioned'
    <3>1. \A g \in Files, k \in Handles : Refers(g, k)' => Refers(g, k)
      BY <1>2, <2>6 DEF Refers, InCall
    <3> QED BY <1>4, <3>1
  <2> QED BY <1>3, <2>5, <2>7, <2>8, <2>9, <2>10, <2>11, <2>12 DEF DInv
<1>6. CASE f \notin exists
  <2>1. Return(t) /\ mut' = mut
    BY <1>6 DEF ReadSize
  <2>2. /\ pc' \in [Threads -> {"idle", "looked", "growing"}] /\ op' \in [Threads -> Ops]
        /\ pc'[t] = "idle"
        /\ \A u \in Threads \ {t} : pc'[u] = pc[u] /\ op'[u] = op[u]
    BY <2>1, ReturnMoves DEF DInv
  <2>3. /\ CallsHaveHandles' /\ HandlesOfOneFile' /\ AllocatorsCurrent'
        /\ \A g \in Files, k \in Handles : Refers(g, k)' => Refers(g, k)
    BY <1>2, <2>1, ReturnKeeps
  <2>4. TypeOK'
    BY <1>2, <2>1, <2>2 DEF DInv, TypeOK, Ops
  <2>5. GrowersExclude' /\ CallersOwn'
    BY <1>2, <2>1, <2>2 DEF DInv, GrowersExclude, CallersOwn, Sound
  <2> QED BY <1>3, <1>4, <2>3, <2>4, <2>5 DEF DInv
<1> QED BY <1>5, <1>6

\* Nobody else is growing the sound file of a growing thread.
LEMMA OneGrower ==
  ASSUME DInv, NEW t \in Threads, NEW u \in Threads, pc[t] = "growing", pc[u] = "growing",
         op[t].handle = op[u].handle \/ (op[t].file \in Sound /\ op[u].file = op[t].file)
  PROVE  u = t
<1>1. op[t].handle = op[u].handle
  BY DEF DInv, AllocatorsCurrent, GrowersExclude, InCall
<1> QED BY <1>1 DEF DInv, GrowersExclude

LEMMA GrowInv ==
  ASSUME DInv, NEW t \in Threads, Grow(t)
  PROVE  DInv'
<1> DEFINE h == op[t].handle
           f == op[t].file
           page == op[t].page
<1>1. InCall(t) /\ h \in Handles /\ f \in Files /\ pc[t] = "growing" /\ page \in Nat
  BY OpFields, DiskAssumption DEF DInv, Grow, InCall, CallsHaveHandles
<1>2. NewCapacity(page) \in Nat /\ page < NewCapacity(page) /\ NewCapacity(page) <= MaxPages
  BY <1>1 DEF Grow, NewCapacity
<1>3. page \in PageIds /\ SparePages(page) \subseteq PageIds /\ page \notin SparePages(page)
  BY <1>1, <1>2, DiskAssumption DEF PageIds, SparePages
<1>4. \A p \in SparePages(page) : p > page /\ p < NewCapacity(page)
  BY <1>1, <1>2 DEF SparePages
<1>5. /\ pc' \in [Threads -> {"idle", "looked", "growing"}] /\ op' \in [Threads -> Ops]
      /\ pc'[t] = "idle" /\ op'[t].handle = NoHandle
      /\ \A u \in Threads \ {t} : pc'[u] = pc[u] /\ op'[u] = op[u]
  BY ReturnMoves DEF DInv, Grow
<1>6. /\ exists' = exists /\ id_map_m' = id_map_m /\ stream' = stream /\ overtaken' = overtaken
      /\ mut' = [mut EXCEPT ![h] = NoThread]
  BY DEF Grow
<1>7. /\ CallsHaveHandles' /\ MapExact' /\ HandlesOfOneFile' /\ AllocatorsCurrent'
      /\ \A g \in Files, k \in Handles : Refers(g, k)' => Refers(g, k)
  BY ReturnKeeps, <1>6 DEF Grow
<1>8. mut' \in [Handles -> Threads \cup {NoThread}]
  BY <1>6 DEF DInv, TypeOK
<1>9. ASSUME NEW u \in Threads, pc'[u] = "growing"
      PROVE  /\ pc[u] = "growing" /\ op'[u] = op[u] /\ op[u].file \in Files
             /\ mut'[op'[u].handle] = u /\ (f \in Sound => op[u].file # f)
  <2>1. u # t /\ pc[u] = "growing" /\ op'[u] = op[u] /\ op[u].handle \in Handles /\ op[u].file \in Files
    BY <1>5, <1>9, OpFields DEF DInv, CallsHaveHandles, InCall
  <2>2. op[u].handle # h /\ (f \in Sound => op[u].file # f)
    BY <1>1, <2>1, OneGrower
  <2> QED BY <1>6, <2>1, <2>2 DEF DInv, TypeOK, GrowersExclude
<1>10. Sound' = Sound /\ Sound \subseteq Files /\ Sound \subseteq exists
  BY <1>6 DEF Sound, DInv, TypeOK
<1>11. CASE UNCHANGED <<capacity, free_pages, owner>>
  <2>1. TypeOK'
    BY <1>5, <1>6, <1>8, <1>11 DEF DInv, TypeOK, Ops
  <2>2. GrowersExclude'
    BY <1>9, <1>10, <1>11 DEF DInv, GrowersExclude
  <2>3. CallersOwn' /\ SingleOwner'
    BY <1>5, <1>6, <1>10, <1>11 DEF DInv, CallersOwn, SingleOwner
  <2>4. PagesPartitioned'
    <3> SUFFICES ASSUME NEW g \in Sound, NEW q \in PageIds
                 PROVE  /\ owner[g][q] # {} => q < capacity[g]
                        /\ \A k \in Handles : Refers(g, k)' /\ q \in free_pages[k] =>
                             /\ q < capacity[g] /\ owner[g][q] = {}
                             /\ \A l \in Handles : Refers(g, l)' /\ q \in free_pages[l] => l = k
      BY <1>10, <1>11 DEF PagesPartitioned
    <3>1. g \in Files
      BY <1>10
    <3> QED BY <1>7, <3>1 DEF DInv, PagesPartitioned
  <2> QED BY <1>7, <2>1, <2>2, <2>3, <2>4 DEF DInv
<1>12. CASE /\ f \in exists
            /\ capacity' = [capacity EXCEPT ![f] = NewCapacity(page)]
            /\ free_pages' = [free_pages EXCEPT ![h] = @ \cup SparePages(page)]
            /\ owner' = [owner EXCEPT ![f][page] = @ \cup {t}]
  <2>1. f \in Sound => page = capacity[f] /\ owner[f][page] = {}
    <3>1. f \in Sound => page = capacity[f]
      BY <1>1 DEF DInv, GrowersExclude
    <3> QED BY <1>1, <1>3, <3>1 DEF DInv, PagesPartitioned
  <2>2. \A g \in Files : Refers(g, h) => g = f
    BY <1>1, RefersOne
  <2>3. /\ capacity' \in [Files -> 0 .. MaxPages] /\ capacity'[f] = NewCapacity(page)
        /\ \A g \in Files \ {f} : capacity'[g] = capacity[g]
    BY <1>1, <1>2, <1>12 DEF DInv, TypeOK
  <2>4. /\ free_pages' \in [Handles -> SUBSET PageIds]
        /\ free_pages'[h] = free_pages[h] \cup SparePages(page)
        /\ \A k \in Handles \ {h} : free_pages'[k] = free_pages[k]
    BY <1>1, <1>3, <1>12 DEF DInv, TypeOK
  <2>5. /\ owner' \in [Files -> [PageIds -> SUBSET Threads]]
        /\ \A g \in Files, q \in PageIds :
             owner'[g][q] = IF g = f /\ q = page THEN owner[f][page] \cup {t} ELSE owner[g][q]
    BY <1>1, <1>3, <1>12 DEF DInv, TypeOK
  <2>6. TypeOK'
    BY <1>5, <1>6, <1>8, <2>3, <2>4, <2>5 DEF DInv, TypeOK, Ops
  <2>7. GrowersExclude'
    <3> SUFFICES ASSUME NEW u \in Threads, pc'[u] = "growing"
                 PROVE  /\ mut'[op'[u].handle] = u /\ op'[u].call = "allocate"
                        /\ op'[u].file \in Sound => op'[u].page = capacity'[op'[u].file]
      BY <1>10 DEF GrowersExclude
    <3>1. /\ pc[u] = "growing" /\ op'[u] = op[u] /\ op[u].file \in Files
          /\ mut'[op'[u].handle] = u /\ (f \in Sound => op[u].file # f)
      BY <1>9
    <3>2. op[u].file \in Sound => op[u].file # f
      BY <3>1
    <3> QED BY <2>3, <3>1, <3>2 DEF DInv, GrowersExclude
  <2>8. CallersOwn'
    <3> SUFFICES ASSUME NEW u \in Threads, pc'[u] = "looked", op'[u].call \in {"transfer", "delete"},
                        op'[u].file \in Sound
                 PROVE  op'[u].page \in PageIds /\ u \in owner'[op'[u].file][op'[u].page]
      BY <1>10 DEF CallersOwn
    <3>1. /\ pc[u] = "looked" /\ op'[u] = op[u] /\ op[u].file \in Files
          /\ op[u].page \in PageIds /\ u \in owner[op[u].file][op[u].page]
      BY <1>5, OpFields DEF DInv, CallersOwn
    <3>2. owner[op[u].file][op[u].page] \subseteq owner'[op[u].file][op[u].page]
      BY <2>5, <3>1
    <3> QED BY <3>1, <3>2
  <2>9. SingleOwner'
    <3> SUFFICES ASSUME NEW g \in Files, NEW q \in PageIds
                 PROVE  /\ g \notin exists => owner'[g][q] = {}
                        /\ g \notin overtaken => \A v, w \in owner'[g][q] : v = w
      BY <1>6 DEF SingleOwner
    <3>1. CASE g = f /\ q = page
      <4>1. g \notin overtaken => owner'[g][q] = {t}
        BY <1>3, <1>12, <2>1, <2>5, <3>1 DEF Sound
      <4> QED BY <1>12, <3>1, <4>1
    <3>2. CASE ~(g = f /\ q = page)
      <4>1. owner'[g][q] = owner[g][q]
        BY <2>5, <3>2
      <4> QED BY <4>1 DEF DInv, SingleOwner
    <3> QED BY <3>1, <3>2
  <2>10. PagesPartitioned'
    <3> SUFFICES ASSUME NEW g \in Sound, NEW q \in PageIds
                 PROVE  /\ owner'[g][q] # {} => q < capacity'[g]
                        /\ \A k \in Handles : Refers(g, k)' /\ q \in free_pages'[k] =>
                             /\ q < capacity'[g] /\ owner'[g][q] = {}
                             /\ \A l \in Handles : Refers(g, l)' /\ q \in free_pages'[l] => l = k
      BY <1>10 DEF PagesPartitioned
    <3>1. /\ g \in Files /\ q \in Int /\ capacity[g] \in Int
          /\ owner[g][q] # {} => q < capacity[g]
          /\ \A k \in Handles : Refers(g, k) /\ q \in free_pages[k] =>
               /\ q < capacity[g] /\ owner[g][q] = {}
               /\ \A l \in Handles : Refers(g, l) /\ q \in free_pages[l] => l = k
      BY <1>10 DEF DInv, TypeOK, PageIds, PagesPartitioned
    <3>2. \A k \in Handles : Refers(g, k)' => Refers(g, k)
      BY <1>7, <3>1
    <3>3. CASE g = f
      <4>1. page = capacity[f] /\ owner[f][page] = {} /\ capacity'[f] = NewCapacity(page)
        BY <2>1, <2>3, <3>3
      <4>2. owner'[g][q] # {} => q < capacity'[g]
        BY <1>1, <1>2, <2>5, <3>1, <3>3, <4>1
      <4>3. \A k \in Handles : Refers(g, k) /\ q \in free_pages[k] => q < page
        BY <3>1, <3>3, <4>1
      <4>4. ASSUME NEW k \in Handles, Refers(g, k)', q \in free_pages'[k]
            PROVE  /\ q < capacity'[g] /\ owner'[g][q] = {}
                   /\ \A l \in Handles : Refers(g, l)' /\ q \in free_pages'[l] => l = k
        <5>1. CASE q \in SparePages(page)
          <6>1. q > page /\ q < NewCapacity(page)
            BY <1>4, <5>1
          <6>2. owner[g][q] = {} /\ q # page
            BY <1>1, <3>1, <3>3, <4>1, <6>1
          <6>3. \A l \in Handles : Refers(g, l)' /\ q \in free_pages'[l] => l = h
            BY <1>1, <2>4, <3>1, <3>2, <4>3, <6>1
          <6> QED BY <2>5, <3>1, <3>3, <4>1, <4>4, <6>1, <6>2, <6>3
        <5>2. CASE q \notin SparePages(page)
          <6>1. \A l \in Handles : Refers(g, l)' /\ q \in free_pages'[l] => Refers(g, l) /\ q \in free_pages[l]
            BY <2>4, <3>2, <5>2
          <6>2. q < page
            BY <4>3, <4>4, <6>1
          <6> QED BY <1>1, <1>2, <2>5, <3>1, <3>3, <4>1, <4>4, <6>1, <6>2
        <5> QED BY <5>1, <5>2
      <4> QED BY <4>2, <4>4
    <3>4. CASE g # f
      <4>1. \A k \in Handles : Refers(g, k)' /\ q \in free_pages'[k] => Refers(g, k) /\ q \in free_pages[k]
        BY <2>2, <2>4, <3>1, <3>2, <3>4
      <4>2. capacity'[g] = capacity[g] /\ owner'[g][q] = owner[g][q]
        BY <2>3, <2>5, <3>1, <3>4
      <4> QED BY <3>1, <4>1, <4>2
    <3> QED BY <3>3, <3>4
  <2> QED BY <1>7, <2>6, <2>7, <2>8, <2>9, <2>10 DEF DInv
<1> QED BY <1>11, <1>12 DEF Grow

\* The assertion of the three calls on a page holds when they get to it, also through
\* a handle that was forgotten meanwhile.
LEMMA CallInRange ==
  ASSUME DInv, NEW t \in Threads, pc[t] = "looked", op[t].call \in {"transfer", "delete"},
         op[t].file \in Sound
  PROVE  /\ InRange(t) /\ op[t].page \in PageIds /\ owner[op[t].file][op[t].page] = {t}
         /\ \A k \in Handles : Refers(op[t].file, k) => op[t].page \notin free_pages[k]
<1>1. op[t].page \in PageIds /\ t \in owner[op[t].file][op[t].page]
  BY DEF DInv, CallersOwn
<1>2. /\ op[t].handle \in Handles /\ op[t].file \in Files /\ op[t].file \notin overtaken
      /\ Refers(op[t].file, op[t].handle)
  BY OpFields DEF DInv, CallsHaveHandles, InCall, Sound, Refers
<1>3. owner[op[t].file][op[t].page] = {t}
  BY <1>1, <1>2 DEF DInv, SingleOwner
<1>4. /\ op[t].page < capacity[op[t].file]
      /\ \A k \in Handles : Refers(op[t].file, k) => op[t].page \notin free_pages[k]
  BY <1>1, <1>3 DEF DInv, PagesPartitioned
<1> QED BY <1>1, <1>2, <1>3, <1>4 DEF InRange

LEMMA TransferPageInv ==
  ASSUME DInv, NEW t \in Threads, TransferPage(t)
  PROVE  DInv'
<1>1. /\ pc' \in [Threads -> {"idle", "looked", "growing"}] /\ op' \in [Threads -> Ops]
      /\ pc'[t] = "idle"
      /\ \A u \in Threads \ {t} : pc'[u] = pc[u] /\ op'[u] = op[u]
  BY ReturnMoves DEF DInv, TransferPage
<1>2. /\ exists' = exists /\ capacity' = capacity /\ id_map_m' = id_map_m /\ mut' = mut
      /\ free_pages' = free_pages /\ owner' = owner /\ overtaken' = overtaken
  BY DEF TransferPage, diskVars, historyVars
<1>3. stream' \in [Handles -> {"good", "failed", "closed"}]
  BY DEF TransferPage, DInv, TypeOK
<1>4. /\ CallsHaveHandles' /\ MapExact' /\ HandlesOfOneFile' /\ AllocatorsCurrent'
      /\ \A g \in Files, k \in Handles : Refers(g, k)' => Refers(g, k)
  BY <1>2, ReturnKeeps DEF TransferPage
<1>5. TypeOK'
  BY <1>1, <1>2, <1>3 DEF DInv, TypeOK, Ops
<1>6. GrowersExclude' /\ CallersOwn' /\ SingleOwner'
  BY <1>1, <1>2 DEF DInv, GrowersExclude, CallersOwn, SingleOwner, Sound
<1>7. PagesPartitioned'
  <2> SUFFICES ASSUME NEW g \in Sound, NEW q \in PageIds
               PROVE  /\ owner[g][q] # {} => q < capacity[g]
                      /\ \A k \in Handles : Refers(g, k)' /\ q \in free_pages[k] =>
                           /\ q < capacity[g] /\ owner[g][q] = {}
                           /\ \A l \in Handles : Refers(g, l)' /\ q \in free_pages[l] => l = k
    BY <1>2 DEF PagesPartitioned, Sound
  <2>1. g \in Files
    BY DEF DInv, TypeOK, Sound
  <2> QED BY <1>4, <2>1 DEF DInv, PagesPartitioned
<1> QED BY <1>4, <1>5, <1>6, <1>7 DEF DInv

LEMMA DeletePageInv ==
  ASSUME DInv, NEW t \in Threads, DeletePage(t)
  PROVE  DInv'
<1> DEFINE h == op[t].handle
           f == op[t].file
           page == op[t].page
<1>1. InCall(t) /\ h \in Handles /\ f \in Files /\ pc[t] = "looked" /\ op[t].call = "delete"
  BY OpFields DEF DInv, DeletePage, Enters, InCall, CallsHaveHandles
<1>2. /\ pc' \in [Threads -> {"idle", "looked", "growing"}] /\ op' \in [Threads -> Ops]
      /\ pc'[t] = "idle"
      /\ \A u \in Threads \ {t} : pc'[u] = pc[u] /\ op'[u] = op[u]
  BY ReturnMoves DEF DInv, DeletePage
<1>3. /\ exists' = exists /\ capacity' = capacity /\ id_map_m' = id_map_m /\ mut' = mut
      /\ stream' = stream /\ overtaken' = overtaken
  BY DEF DeletePage, diskVars
<1>4. /\ CallsHaveHandles' /\ MapExact' /\ HandlesOfOneFile' /\ AllocatorsCurrent'
      /\ \A g \in Files, k \in Handles : Refers(g, k)' => Refers(g, k)
  BY <1>3, ReturnKeeps DEF DeletePage
<1>5. GrowersExclude'
  BY <1>2, <1>3 DEF DInv, GrowersExclude, Sound
<1>6. Sound' = Sound /\ Sound \subseteq Files /\ Sound \subseteq exists
  BY <1>3 DEF Sound, DInv, TypeOK
<1>7. CASE f \notin exists
  <2>1. free_pages' = free_pages /\ owner' = owner
    BY <1>7 DEF DeletePage
  <2>2. TypeOK'
    BY <1>2, <1>3, <2>1 DEF DInv, TypeOK, Ops
  <2>3. CallersOwn' /\ SingleOwner'
    BY <1>2, <1>3, <1>6, <2>1 DEF DInv, CallersOwn, SingleOwner
  <2>4. PagesPartitioned'
    <3> SUFFICES ASSUME NEW g \in Sound, NEW q \in PageIds
                 PROVE  /\ owner[g][q] # {} => q < capacity[g]
                        /\ \A k \in Handles : Refers(g, k)' /\ q \in free_pages[k] =>
                             /\ q < capacity[g] /\ owner[g][q] = {}
                             /\ \A l \in Handles : Refers(g, l)' /\ q \in free_pages[l] => l = k
      BY <1>3, <1>6, <2>1 DEF PagesPartitioned
    <3>1. g \in Files
      BY <1>6
    <3> QED BY <1>4, <3>1 DEF DInv, PagesPartitioned
  <2> QED BY <1>4, <1>5, <2>2, <2>3, <2>4 DEF DInv
<1>8. CASE f \in exists
  <2>1. f \in Sound => /\ owner[f][page] = {t}
                       /\ \A k \in Handles : Refers(f, k) => page \notin free_pages[k]
    BY <1>1, CallInRange
  <2>2. page \in PageIds /\ page < capacity[f]
    <3>1. InRange(t) /\ page \in 0 .. MaxPages /\ capacity[f] \in 0 .. MaxPages
      BY <1>1, <1>8, OpFields DEF DeletePage, DInv, TypeOK
    <3> QED BY <3>1, DiskAssumption DEF InRange, PageIds
  <2>3. /\ free_pages' \in [Handles -> SUBSET PageIds]
        /\ free_pages'[h] = free_pages[h] \cup {page}
        /\ \A k \in Handles \ {h} : free_pages'[k] = free_pages[k]
    <3>1. free_pages' = [free_pages EXCEPT ![h] = @ \cup {page}]
      BY <1>8 DEF DeletePage
    <3>2. free_pages \in [Handles -> SUBSET PageIds]
      BY DEF DInv, TypeOK
    <3> HIDE DEF h, page
    <3> QED BY <1>1, <2>2, <3>1, <3>2
  <2>4. /\ owner' \in [Files -> [PageIds -> SUBSET Threads]]
        /\ \A g \in Files, q \in PageIds :
             owner'[g][q] = IF g = f /\ q = page THEN owner[f][page] \ {t} ELSE owner[g][q]
    <3>1. owner' = [owner EXCEPT ![f][page] = @ \ {t}]
      BY <1>8 DEF DeletePage
    <3>2. owner \in [Files -> [PageIds -> SUBSET Threads]]
      BY DEF DInv, TypeOK
    <3> HIDE DEF f, page
    <3> QED BY <1>1, <2>2, <3>1, <3>2
  <2>5. TypeOK'
    BY <1>2, <1>3, <2>3, <2>4 DEF DInv, TypeOK, Ops
  <2>6. CallersOwn'
    <3> SUFFICES ASSUME NEW u \in Threads, pc'[u] = "looked", op'[u].call \in {"transfer", "delete"},
                        op'[u].file \in Sound
                 PROVE  op'[u].page \in PageIds /\ u \in owner'[op'[u].file][op'[u].page]
      BY <1>6 DEF CallersOwn
    <3>1. /\ u # t /\ pc[u] = "looked" /\ op'[u] = op[u] /\ op[u].file \in Files
          /\ op[u].page \in PageIds /\ u \in owner[op[u].file][op[u].page]
      BY <1>2, OpFields DEF DInv, CallersOwn
    <3> QED BY <2>4, <3>1
  <2>7. SingleOwner'
    <3>1. \A g \in Files, q \in PageIds : owner'[g][q] \subseteq owner[g][q]
      BY <2>4
    <3> QED BY <1>3, <3>1 DEF DInv, SingleOwner
  <2>8. PagesPartitioned'
    <3> SUFFICES ASSUME NEW g \in Sound, NEW q \in PageIds
                 PROVE  /\ owner'[g][q] # {} => q < capacity[g]
                        /\ \A k \in Handles : Refers(g, k)' /\ q \in free_pages'[k] =>
                             /\ q < capacity[g] /\ owner'[g][q] = {}
                             /\ \A l \in Handles : Refers(g, l)' /\ q \in free_pages'[l] => l = k
      BY <1>3, <1>6 DEF PagesPartitioned
    <3>1. /\ g \in Files
          /\ owner[g][q] # {} => q < capacity[g]
          /\ \A k \in Handles : Refers(g, k) /\ q \in free_pages[k] =>
               /\ q < capacity[g] /\ owner[g][q] = {}
               /\ \A l \in Handles : Refers(g, l) /\ q \in free_pages[l] => l = k
      BY <1>6 DEF DInv, PagesPartitioned
    <3>2. \A k \in Handles : Refers(g, k)' => Refers(g, k)
      BY <1>4, <3>1
    <3>3. CASE g = f /\ q = page
      <4>1. q < capacity[g] /\ owner'[g][q] = {}
        <5>1. owner'[g][q] = {t} \ {t}
          BY <1>1, <2>1, <2>2, <2>4, <3>3
        <5> QED BY <2>2, <3>3, <5>1
      <4>2. \A k \in Handles : Refers(g, k)' /\ q \in free_pages'[k] => k = h
        BY <2>1, <2>3, <3>2, <3>3
      <4> QED BY <4>1, <4>2
    <3>4. CASE ~(g = f /\ q = page)
      <4>1. \A k \in Handles : Refers(g, k)' /\ q \in free_pages'[k] => Refers(g, k) /\ q \in free_pages[k]
        <5> SUFFICES ASSUME NEW k \in Handles, Refers(g, k), q \in free_pages'[k]
                     PROVE  q \in free_pages[k]
          BY <3>2
        <5>1. CASE k = h
          <6>1. g = f
            BY <1>1, <3>1, <5>1, RefersOne
          <6> QED BY <2>3, <3>4, <5>1, <6>1
        <5>2. CASE k # h
          BY <2>3, <5>2
        <5> QED BY <5>1, <5>2
      <4>2. owner'[g][q] = owner[g][q]
        BY <2>4, <3>1, <3>4
      <4> QED BY <3>1, <4>1, <4>2
    <3> QED BY <3>3, <3>4
  <2> QED BY <1>4, <1>5, <2>5, <2>6, <2>7, <2>8 DEF DInv
<1> QED BY <1>7, <1>8

LEMMA RestartInv ==
  ASSUME DInv, Restart
  PROVE  DInv'
<1>1. NoCall \in Ops /\ NoCall.handle = NoHandle
  BY NoCallType
<1>2. TypeOK'
  BY <1>1 DEF DInv, Restart, TypeOK, Ops, diskVars, historyVars
<1>3. CallsHaveHandles'
  BY <1>1 DEF Restart, CallsHaveHandles, InCall
<1>4. MapExact' /\ HandlesOfOneFile' /\ AllocatorsCurrent' /\ GrowersExclude' /\ CallersOwn'
  BY DEF Restart, MapExact, HandlesOfOneFile, AllocatorsCurrent, GrowersExclude, CallersOwn, InCall
<1>5. /\ exists' = exists /\ capacity' = capacity /\ owner' = owner /\ overtaken' = overtaken
      /\ \A h \in Handles : free_pages'[h] = {}
  BY DEF Restart, diskVars, historyVars
<1>6. SingleOwner'
  BY <1>5 DEF DInv, SingleOwner
<1>7. PagesPartitioned'
  BY <1>5 DEF DInv, PagesPartitioned, Sound
<1> QED BY <1>2, <1>3, <1>4, <1>6, <1>7 DEF DInv

-----------------------------------------------------------------------------
(* The theorems. *)

LEMMA DStep == DInv /\ [Next]_vars => DInv'
<1> SUFFICES ASSUME DInv, [Next]_vars
             PROVE  DInv'
  OBVIOUS
<1>1. CASE UNCHANGED vars
  BY <1>1 DEF DInv, TypeOK, CallsHaveHandles, MapExact, HandlesOfOneFile, AllocatorsCurrent,
              GrowersExclude, CallersOwn, SingleOwner, PagesPartitioned, InCall, Sound, Refers,
              vars, diskVars, handleVars, historyVars
<1>2. ASSUME NEW t \in Threads, NEW f \in Files, LookUp(t, "allocate", f, 0)
      PROVE  DInv'
  BY <1>2, LookUpInv, DiskAssumption DEF Calls
<1>3. ASSUME NEW t \in Threads, NEW f \in Files, NEW p \in PageIds, NEW call \in {"transfer", "delete"},
             LookUp(t, call, f, p)
      PROVE  DInv'
  <2>1. p \in 0 .. MaxPages /\ call \in Calls /\ call # "none"
    BY DiskAssumption DEF PageIds, Calls
  <2> QED BY <1>3, <2>1, LookUpInv
<1> QED BY <1>1, <1>2, <1>3, CreateFileInv, DeleteFileInv, AllocateFreeInv, ReadSizeInv, GrowInv,
           TransferPageInv, DeletePageInv, RestartInv DEF Next

LEMMA DInductive == Spec => []DInv
<1>1. Init => DInv
  BY DInit
<1>2. DInv /\ [Next]_vars => DInv'
  BY DStep
<1> QED BY <1>1, <1>2, PTL DEF Spec

\* The disk manager's variables keep their types; no page id leaves the file's bound.
THEOREM DiskTypes == Spec => []TypeOK
<1>1. DInv => TypeOK
  BY DEF DInv
<1> QED BY <1>1, DInductive, PTL

\* AllocatePage gives no page to two owners, whatever threads, restarts, deleted files
\* and failed removals come in between, unless a call allocates through a handle that
\* was forgotten while it was under way.
THEOREM PagesHaveOneOwner == Spec => []NoDoubleAllocation
<1>1. DInv => NoDoubleAllocation
  <2> SUFFICES ASSUME DInv, NEW f \in Files \ overtaken, NEW p \in PageIds
               PROVE  Cardinality(owner[f][p]) <= 1
    BY DEF NoDoubleAllocation
  <2>1. CASE owner[f][p] = {}
    BY <2>1, FS_EmptySet
  <2>2. CASE owner[f][p] # {}
    <3>1. PICK t : owner[f][p] = {t}
      BY <2>2 DEF DInv, SingleOwner
    <3>2. Cardinality({t}) = 1
      BY FS_Singleton
    <3> QED BY <3>1, <3>2
  <2> QED BY <2>1, <2>2
<1> QED BY <1>1, DInductive, PTL

\* The page of an owner is inside its file and not on the free list.
THEOREM OwnersInRange == Spec => []OwnedInRange
<1>1. DInv => OwnedInRange
  <2> SUFFICES ASSUME DInv, NEW f \in Sound, NEW p \in PageIds, owner[f][p] # {}
               PROVE  /\ p < capacity[f]
                      /\ id_map_m[f] # NoHandle => p \notin free_pages[id_map_m[f]]
    BY DEF OwnedInRange, Sound
  <2>1. id_map_m[f] # NoHandle => id_map_m[f] \in Handles /\ Refers(f, id_map_m[f])
    BY DEF DInv, TypeOK, Sound, Refers
  <2> QED BY <2>1 DEF DInv, PagesPartitioned
<1> QED BY <1>1, DInductive, PTL

\* What a handle offers as free is inside its file.
THEOREM FreePagesInFile == Spec => []FreeInFile
<1>1. DInv => FreeInFile
  <2> SUFFICES ASSUME DInv, NEW f \in Sound, id_map_m[f] # NoHandle, NEW p \in free_pages[id_map_m[f]]
               PROVE  p < capacity[f]
    BY DEF FreeInFile, Sound
  <2>1. p \in PageIds /\ id_map_m[f] \in Handles /\ Refers(f, id_map_m[f])
    BY DEF DInv, TypeOK, Sound, Refers
  <2> QED BY <2>1 DEF DInv, PagesPartitioned
<1> QED BY <1>1, DInductive, PTL

\* ReadPage, WritePage and DeletePage meet their assertion "Out of index page"
\* whenever they get to it on a file that still exists, also through a handle that a
\* failed DeleteFile has forgotten meanwhile.
AssertionsMet == \A t \in Threads :
  pc[t] = "looked" /\ op[t].call \in {"transfer", "delete"} /\ op[t].file \in exists \ overtaken =>
    InRange(t)

\* No call on a page fails the assertion, however long after its lookup it gets the
\* handle's mutex.
THEOREM PageAssertionsMet == Spec => []AssertionsMet
<1>1. DInv => AssertionsMet
  BY CallInRange DEF AssertionsMet, Sound
<1> QED BY <1>1, DInductive, PTL
=============================================================================
