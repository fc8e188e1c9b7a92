------------------------ MODULE PageBufferManager ------------------------
(***************************************************************************)
(* The buffer pool: PageBufferManager, its frames and the Page guards it    *)
(* hands out (src/storage/on_disk/buffer_manager/).                         *)
(*                                                                          *)
(* A client is one Page variable of some thread: it holds at most one page. *)
(* Every operation of the manager but CreateFile and AllocatePage runs      *)
(* under mut_m, so it is one step; a client blocked on available_frame_m is *)
(* "get_wait" or "delete_wait" until it is notified, and then "..._woken"   *)
(* until it has the mutex again.  GetMutView and the stores that follow it  *)
(* do not take mut_m and are steps of their own.                            *)
(*                                                                          *)
(* Bytes are <<page they were written for, version>>, or Garbage where the  *)
(* code leaves them undefined.  The disk manager is seen from here as a map *)
(* from pages to bytes with the failures its calls report.                  *)
(***************************************************************************)
EXTENDS Replacer

CONSTANTS
  Clients, Files, Pages, Versions,
  FileOf,        \* FileOf[p]: the file of page p
  InitFiles,     \* files an earlier process left behind, all pages allocated
  Zero,          \* the version a freshly allocated page reads as
  Garbage,       \* uninitialised memory, a torn write, a failed read
  NoPage, NoFrame, NoBytes,
  Uses,          \* Uses[c]: the pages client c asks for
  Deleters,      \* the clients that call DeleteFile
  MayShutdown,   \* the manager may be destroyed and constructed again
  (* what may go wrong around the manager *)
  ReadFaults,    \* pages whose ReadPage may report a stream failure
  WriteFaults,   \* pages whose WritePage may report a stream failure
  RemoveFaults,  \* files that std::filesystem::remove may fail to remove
  StaleUse,      \* a client may ask for pages of a file being or already deleted
  ReuseIds       \* a deleted file's id may be created again

Bytes == (Pages \X Versions) \cup {Garbage}

ASSUME PoolAssumption ==
  /\ IsFiniteSet(Clients)
  /\ FileOf \in [Pages -> Files]
  /\ Uses \in [Clients -> SUBSET Pages]
  /\ InitFiles \in SUBSET Files
  /\ Deleters \in SUBSET Clients
  /\ ReadFaults \in SUBSET Pages
  /\ WriteFaults \in SUBSET Pages
  /\ RemoveFaults \in SUBSET Files
  /\ StaleUse \in BOOLEAN /\ ReuseIds \in BOOLEAN /\ MayShutdown \in BOOLEAN
  /\ Zero \in Versions
  /\ NoPage \notin Pages \cup Files
  /\ NoFrame \notin Frames
  /\ NoBytes \notin Bytes
  /\ Pages \cap Files = {}

VARIABLES
  page_map_m,   \* page_map_m[p]: the frame caching p, or NoFrame
  fp_id,        \* fp_id[f]: the page frame f was last loaded with, or NoPage
  is_dirty,     \* is_dirty[f]: a mutable view was handed out since the load
  pin_count,    \* pin_count[f]
  data,         \* data[f]: the bytes in frame f
  disk,         \* disk[p]: the bytes of page p in its file
  files,        \* the files that exist
  allocated,    \* the pages AllocatePage has handed out
  retired,      \* files deleted so far
  running,      \* the manager exists (between constructor and destructor)
  pc, arg,      \* pc[c], and the page or file c's call is about
  frame_m       \* frame_m[c]: the frame c's Page points to, or NoFrame

frameVars == <<page_map_m, fp_id, is_dirty, pin_count, data>>
fileVars == <<files, allocated, retired>>
clientVars == <<pc, arg, frame_m>>
vars == <<frameVars, replacerVars, disk, fileVars, running, clientVars>>

PC == {"idle", "get_wait", "get_woken", "holding", "mutating",
       "delete_wait", "delete_woken", "no_frame", "aborted"}

TypeOK ==
  /\ page_map_m \in [Pages -> Frames \cup {NoFrame}]
  /\ fp_id \in [Frames -> Pages \cup {NoPage}]
  /\ is_dirty \in [Frames -> BOOLEAN]
  /\ pin_count \in [Frames -> Int]
  /\ data \in [Frames -> Bytes]
  /\ disk \in [Pages -> Bytes]
  /\ files \in SUBSET Files
  /\ allocated \in SUBSET Pages
  /\ retired \in SUBSET Files
  /\ running \in BOOLEAN
  /\ pc \in [Clients -> PC]
  /\ arg \in [Clients -> Pages \cup Files \cup {NoPage}]
  /\ frame_m \in [Clients -> Frames \cup {NoFrame}]
  /\ ReplacerTypeOK

Cached(p) == page_map_m[p] # NoFrame
PagesOf(f) == {p \in Pages : FileOf[p] = f}

\* The constructor has run: frames know no page, nothing is cached.
Init ==
  /\ page_map_m = [p \in Pages |-> NoFrame]
  /\ fp_id = [f \in Frames |-> NoPage]
  /\ is_dirty = [f \in Frames |-> FALSE]
  /\ pin_count = [f \in Frames |-> 0]
  /\ ReplacerInit
  /\ data = [f \in Frames |-> Garbage]
  /\ disk = [p \in Pages |-> <<p, Zero>>]
  /\ files = InitFiles
  /\ allocated = {p \in Pages : FileOf[p] \in InitFiles}
  /\ retired = {}
  /\ running = TRUE
  /\ pc = [c \in Clients |-> "idle"]
  /\ arg = [c \in Clients |-> NoPage]
  /\ frame_m = [c \in Clients |-> NoFrame]

-----------------------------------------------------------------------------
(* Calls, waits and returns. *)

At(c, s) == running /\ pc[c] = s
Idle(c) == running /\ pc[c] \in {"idle", "no_frame"}

\* The program has not died on a failed assertion.
Alive == \A c \in Clients : pc[c] # "aborted"

Waiters == {c \in Clients : pc[c] \in {"get_wait", "delete_wait"}}
Holders == {c \in Clients : pc[c] \in {"holding", "mutating"}}
HoldersOn(f) == {c \in Holders : frame_m[c] = f}

WokenPC(s) == IF s = "get_wait" THEN "get_woken"
              ELSE IF s = "delete_wait" THEN "delete_woken" ELSE s

\* The program counters after c moves to s and notify_all wakes the others.
MoveAndNotifyAll(c, s) ==
  pc' = [d \in Clients |-> IF d = c THEN s ELSE WokenPC(pc[d])]

\* Mutant: notify_one is forgotten.
MoveSilently(c, s) == pc' = [pc EXCEPT ![c] = s]

\* As above, but notify_one: any one waiter, and none if nobody waits.
MoveAndNotifyOne(c, s) ==
  IF Waiters = {}
  THEN pc' = [pc EXCEPT ![c] = s]
  ELSE \E w \in Waiters : pc' = [pc EXCEPT ![c] = s, ![w] = WokenPC(pc[w])]

Move(c, s) == pc' = [pc EXCEPT ![c] = s]

\* A failed assertion in c's call ends the process.
Aborts(c) ==
  /\ Move(c, "aborted")
  /\ running' = FALSE
  /\ UNCHANGED <<frameVars, replacerVars, disk, fileVars, arg, frame_m>>

\* c's call returns without a page.
Returns(c, s) ==
  /\ Move(c, s)
  /\ arg' = [arg EXCEPT ![c] = NoPage]
  /\ UNCHANGED frame_m

\* c's call returns a Page on frame f for page p.
ReturnsPage(c, p, f) ==
  /\ arg' = [arg EXCEPT ![c] = p]
  /\ frame_m' = [frame_m EXCEPT ![c] = f]

-----------------------------------------------------------------------------
(* GetPage, GetPageIfFrameAvailable and LoadPage. *)

\* The predicate of GetPage's wait.
FrameAvailable(p) == Cached(p) \/ evictable_count_m > 0

\* Mutant: a page that is already cached is returned without another pin.
HitUncounted(c, p) ==
  /\ Cached(p)
  /\ SetEvictable(page_map_m[p], FALSE)
  /\ ReturnsPage(c, p, page_map_m[p])
  /\ Move(c, "holding")
  /\ UNCHANGED <<frameVars, disk, fileVars, running>>

\* PinAndReturnPage on a page that is already cached.
Hit(c, p) ==
  /\ Cached(p)
  /\ LET f == page_map_m[p] IN
       /\ pin_count' = [pin_count EXCEPT ![f] = @ + 1]
       /\ SetEvictable(f, FALSE)
       /\ ReturnsPage(c, p, f)
  /\ Move(c, "holding")
  /\ UNCHANGED <<page_map_m, fp_id, is_dirty, data, disk, fileVars, running>>

\* FlushPage(fp_id[f]) can do its part: the page is in the map.
Flushable(f) == fp_id[f] # NoPage /\ Cached(fp_id[f])

\* Mutant: the dirty victim is dropped without being written back.
FlushedDiskForgotten(f) == disk

\* The disk after LoadPage has written the victim f back.  FlushPage writes the
\* bytes of the frame the map names for fp_id[f].
FlushedDisk(f) ==
  IF is_dirty[f]
  THEN [disk EXCEPT ![fp_id[f]] = data[page_map_m[fp_id[f]]]]
  ELSE disk

\* What a failed WritePage may leave on disk for a cached page p.
WriteOutcomes(p) == {disk[p], data[page_map_m[p]], Garbage}

\* Mutant: LoadPage forgets page_map_m.erase(frame->fp_id).
MapKeepingVictim(f) == page_map_m

\* page_map_m after page_map_m.erase(frame->fp_id).
MapWithout(f) == [q \in Pages |-> IF q = fp_id[f] THEN NoFrame ELSE page_map_m[q]]

\* LoadPage succeeds and the loaded page is pinned: the victim is written back
\* if dirty, forgotten, overwritten with p's bytes, and every waiter notified.
LoadAndPin(c, p, f) ==
  /\ ~Cached(p)
  /\ IsVictim(f)
  /\ is_dirty[f] => Flushable(f)
  /\ FileOf[p] \in files
  /\ p \in allocated
  /\ disk' = FlushedDisk(f)
  /\ page_map_m' = [MapWithout(f) EXCEPT ![p] = f]
  /\ fp_id' = [fp_id EXCEPT ![f] = p]
  /\ is_dirty' = [is_dirty EXCEPT ![f] = FALSE]
  /\ pin_count' = [pin_count EXCEPT ![f] = 1]
  /\ data' = [data EXCEPT ![f] = disk'[p]]
  /\ SetEvictable(f, FALSE)
  /\ ReturnsPage(c, p, f)
  /\ MoveAndNotifyAll(c, "holding")
  /\ UNCHANGED <<fileVars, running>>

\* LoadPage: the count promised a frame but no flag is set.
LoadFindsNoFrame(c, p) ==
  /\ ~Cached(p)
  /\ Evictable = {}
  /\ Returns(c, "no_frame")
  /\ UNCHANGED <<frameVars, replacerVars, disk, fileVars, running>>

\* LoadPage: writing the victim back fails, because the map does not know its
\* page or because the stream fails; the bytes on disk are then anything.
LoadFlushFails(c, p, f) ==
  /\ ~Cached(p)
  /\ IsVictim(f)
  /\ is_dirty[f]
  /\ \/ ~Flushable(f) /\ disk' = disk
     \/ /\ Flushable(f) /\ fp_id[f] \in WriteFaults
        /\ \E b \in WriteOutcomes(fp_id[f]) : disk' = [disk EXCEPT ![fp_id[f]] = b]
  /\ Returns(c, "idle")
  /\ UNCHANGED <<frameVars, replacerVars, fileVars, running>>

\* LoadPage: reading p fails after the victim was forgotten, because the file
\* cannot be opened, the stream fails, or (in a build without assertions) the
\* file has no such page.  The frame keeps the victim's page id and dirty flag,
\* and nobody is notified.
LoadReadFails(c, p, f) ==
  /\ ~Cached(p)
  /\ IsVictim(f)
  /\ is_dirty[f] => Flushable(f)
  /\ \/ FileOf[p] \notin files /\ data' = data
     \/ /\ FileOf[p] \in files /\ (p \in ReadFaults \/ p \notin allocated)
        /\ \E b \in {data[f], Garbage} : data' = [data EXCEPT ![f] = b]
  /\ disk' = FlushedDisk(f)
  /\ page_map_m' = MapWithout(f)
  /\ Returns(c, "idle")
  /\ UNCHANGED <<fp_id, is_dirty, pin_count, replacerVars, fileVars, running>>

\* LoadPage: the file exists again but without page p, and ReadPage's assertion
\* on the page index fails (in a build with assertions).
LoadAborts(c, p, f) ==
  /\ ~Cached(p)
  /\ IsVictim(f)
  /\ is_dirty[f] => Flushable(f)
  /\ FileOf[p] \in files
  /\ p \notin allocated
  /\ Aborts(c)

\* The rest of GetPage once the wait is over, and of GetPageIfFrameAvailable.
FinishGet(c, p) ==
  \/ Hit(c, p)
  \/ LoadFindsNoFrame(c, p)
  \/ \E f \in Frames : \/ LoadAndPin(c, p, f)
                       \/ LoadFlushFails(c, p, f)
                       \/ LoadReadFails(c, p, f)
                       \/ LoadAborts(c, p, f)

Waits(c, s, what) ==
  /\ Move(c, s)
  /\ arg' = [arg EXCEPT ![c] = what]
  /\ UNCHANGED <<frameVars, replacerVars, disk, fileVars, running, frame_m>>

\* Clients ask for allocated pages; without StaleUse they leave a file alone
\* once somebody deletes it.
MayUse(c, p) ==
  /\ p \in Uses[c]
  /\ \/ p \in allocated /\ \A d \in Clients : arg[d] # FileOf[p]
     \/ StaleUse /\ (p \in allocated \/ FileOf[p] \in retired)

GetPage(c, p) ==
  /\ Idle(c)
  /\ MayUse(c, p)
  /\ \/ FrameAvailable(p) /\ FinishGet(c, p)
     \/ ~FrameAvailable(p) /\ Waits(c, "get_wait", p)

\* A notified waiter has the mutex again and re-evaluates the predicate.
ResumeGetPage(c) ==
  /\ At(c, "get_woken")
  /\ \/ FrameAvailable(arg[c]) /\ FinishGet(c, arg[c])
     \/ ~FrameAvailable(arg[c]) /\ Waits(c, "get_wait", arg[c])

\* Does not wait: with no frame it returns nullopt, which changes nothing.
GetPageIfFrameAvailable(c, p) ==
  /\ Idle(c)
  /\ MayUse(c, p)
  /\ FrameAvailable(p)
  /\ FinishGet(c, p)

-----------------------------------------------------------------------------
(* The Page guard. *)

\* Mutant: a mutable view that does not mark the frame dirty.
GetMutViewClean(c) ==
  /\ At(c, "holding")
  /\ \A d \in Clients : ~(pc[d] = "mutating" /\ frame_m[d] = frame_m[c])
  /\ Move(c, "mutating")
  /\ UNCHANGED <<frameVars, replacerVars, disk, fileVars, running, arg, frame_m>>

\* Page::GetMutView, under the frame's exclusive lock: the frame is dirty
\* before the first byte is stored.
GetMutView(c) ==
  /\ At(c, "holding")
  /\ \A d \in Clients : ~(pc[d] = "mutating" /\ frame_m[d] = frame_m[c])
  /\ is_dirty' = [is_dirty EXCEPT ![frame_m[c]] = TRUE]
  /\ Move(c, "mutating")
  /\ UNCHANGED <<page_map_m, fp_id, pin_count, data, replacerVars, disk, fileVars,
                 running, arg, frame_m>>

\* The client stores through the view and unlocks.
StoreBytes(c, v) ==
  /\ At(c, "mutating")
  /\ data' = [data EXCEPT ![frame_m[c]] = <<arg[c], v>>]
  /\ Move(c, "holding")
  /\ UNCHANGED <<page_map_m, fp_id, is_dirty, pin_count, replacerVars, disk, fileVars,
                 running, arg, frame_m>>

\* The frame RemoveAccessor unpins: the one the map names for the page id of
\* the frame the Page points to.
AccessorFrame(c) ==
  IF fp_id[frame_m[c]] = NoPage THEN NoFrame ELSE page_map_m[fp_id[frame_m[c]]]

\* The two assertions of RemoveAccessor.
AccessorKnown(c) == AccessorFrame(c) # NoFrame /\ pin_count[AccessorFrame(c)] > 0

\* Mutant: every release makes the frame evictable, not only the last one.
RemoveAccessorAlwaysEvictable(c) ==
  /\ At(c, "holding")
  /\ AccessorKnown(c)
  /\ pin_count' = [pin_count EXCEPT ![AccessorFrame(c)] = @ - 1]
  /\ SetEvictable(AccessorFrame(c), TRUE)
  /\ MoveAndNotifyOne(c, "idle")
  /\ arg' = [arg EXCEPT ![c] = NoPage]
  /\ frame_m' = [frame_m EXCEPT ![c] = NoFrame]
  /\ UNCHANGED <<page_map_m, fp_id, is_dirty, data, disk, fileVars, running>>

\* ~Page: RemoveAccessor; the last pin makes the frame evictable and notifies.
RemoveAccessor(c) ==
  /\ At(c, "holding")
  /\ AccessorKnown(c)
  /\ LET f == AccessorFrame(c) IN
       /\ pin_count' = [pin_count EXCEPT ![f] = @ - 1]
       /\ \/ /\ pin_count[f] = 1
             /\ SetEvictable(f, TRUE)
             /\ MoveAndNotifyOne(c, "idle")
          \/ /\ pin_count[f] # 1
             /\ UNCHANGED replacerVars
             /\ Move(c, "idle")
  /\ arg' = [arg EXCEPT ![c] = NoPage]
  /\ frame_m' = [frame_m EXCEPT ![c] = NoFrame]
  /\ UNCHANGED <<page_map_m, fp_id, is_dirty, data, disk, fileVars, running>>

\* ~Page when an assertion of RemoveAccessor fails: the process aborts.
AbortInRemoveAccessor(c) ==
  /\ At(c, "holding")
  /\ ~AccessorKnown(c)
  /\ Aborts(c)

-----------------------------------------------------------------------------
(* Files. *)

\* CreateFile draws an id no file has; AllocatePage hands out a zeroed page.
CreateFile(f) ==
  /\ running
  /\ f \notin files
  /\ f \in retired => ReuseIds
  /\ files' = files \cup {f}
  /\ UNCHANGED <<frameVars, replacerVars, disk, allocated, retired, running, clientVars>>

AllocatePage(p) ==
  /\ running
  /\ FileOf[p] \in files
  /\ p \notin allocated
  /\ allocated' = allocated \cup {p}
  /\ disk' = [disk EXCEPT ![p] = <<p, Zero>>]
  /\ UNCHANGED <<frameVars, replacerVars, files, retired, running, clientVars>>

FileHasPinnedPages(f) == \E p \in PagesOf(f) : Cached(p) /\ pin_count[page_map_m[p]] > 0

FramesOf(f) == {page_map_m[p] : p \in {q \in PagesOf(f) : Cached(q)}}

\* DeleteFile once no page of f is pinned: its cached pages are dropped without
\* being written, every waiter is notified, and the file is removed unless the
\* file system refuses.
FinishDelete(c, f) ==
  /\ ~FileHasPinnedPages(f)
  /\ is_dirty' = [g \in Frames |-> g \notin FramesOf(f) /\ is_dirty[g]]
  /\ page_map_m' = [p \in Pages |-> IF FileOf[p] = f THEN NoFrame ELSE page_map_m[p]]
  /\ SetEvictableAll(FramesOf(f))
  /\ \/ /\ files' = files \ {f}
        /\ retired' = retired \cup {f}
        /\ allocated' = allocated \ PagesOf(f)
     \/ f \in RemoveFaults /\ UNCHANGED fileVars
  /\ MoveAndNotifyAll(c, "idle")
  /\ arg' = [arg EXCEPT ![c] = NoPage]
  /\ UNCHANGED <<fp_id, pin_count, data, disk, running, frame_m>>

\* Without StaleUse nobody is in the middle of GetPage on the file.
MayDelete(c, f) ==
  /\ c \in Deleters
  /\ f \in files
  /\ \/ StaleUse
     \/ \A d \in Clients : pc[d] \in {"get_wait", "get_woken"} => FileOf[arg[d]] # f

DeleteFile(c, f) ==
  /\ Idle(c)
  /\ MayDelete(c, f)
  /\ \/ FinishDelete(c, f)
     \/ FileHasPinnedPages(f) /\ Waits(c, "delete_wait", f)

ResumeDeleteFile(c) ==
  /\ At(c, "delete_woken")
  /\ \/ FinishDelete(c, arg[c])
     \/ FileHasPinnedPages(arg[c]) /\ Waits(c, "delete_wait", arg[c])

\* The five seconds are over: the predicate is evaluated once more.
DeleteFileTimeout(c) ==
  /\ running
  /\ pc[c] \in {"delete_wait", "delete_woken"}
  /\ \/ FinishDelete(c, arg[c])
     \/ /\ FileHasPinnedPages(arg[c])
        /\ Returns(c, "idle")
        /\ UNCHANGED <<frameVars, replacerVars, disk, fileVars, running>>

\* std::condition_variable may wake a waiter for no reason.
SpuriousWakeup(c) ==
  /\ running
  /\ c \in Waiters
  /\ Move(c, WokenPC(pc[c]))
  /\ UNCHANGED <<frameVars, replacerVars, disk, fileVars, running, arg, frame_m>>

-----------------------------------------------------------------------------
(* Destructor and constructor. *)

\* What a FlushPage whose result is ignored may leave on disk for page p.
FlushOutcomes(p) ==
  IF ~Cached(p) THEN {disk[p]}
  ELSE IF p \in WriteFaults THEN WriteOutcomes(p) ELSE {data[page_map_m[p]]}

\* ~PageBufferManager flushes every cached page, dirty or not, and ignores
\* failures.  No Page outlives the manager.
Shutdown ==
  /\ MayShutdown
  /\ \A c \in Clients : Idle(c)
  /\ \E left \in [Pages -> UNION {FlushOutcomes(p) : p \in Pages}] :
       /\ \A p \in Pages : left[p] \in FlushOutcomes(p)
       /\ disk' = left
  /\ page_map_m' = [p \in Pages |-> NoFrame]
  /\ running' = FALSE
  /\ UNCHANGED <<fp_id, is_dirty, pin_count, data, replacerVars, fileVars, clientVars>>

Construct ==
  /\ ~running /\ Alive
  /\ running' = TRUE
  /\ page_map_m' = [p \in Pages |-> NoFrame]
  /\ fp_id' = [f \in Frames |-> NoPage]
  /\ is_dirty' = [f \in Frames |-> FALSE]
  /\ pin_count' = [f \in Frames |-> 0]
  /\ is_evictable' = [f \in Frames |-> TRUE]
  /\ evictable_count_m' = Cardinality(Frames)
  /\ UNCHANGED <<data, disk, fileVars, clientVars>>

-----------------------------------------------------------------------------
ClientStep(c) ==
  \/ \E p \in Pages : GetPage(c, p) \/ GetPageIfFrameAvailable(c, p)
  \/ ResumeGetPage(c)
  \/ GetMutView(c)
  \/ \E v \in Versions : StoreBytes(c, v)
  \/ RemoveAccessor(c)
  \/ AbortInRemoveAccessor(c)
  \/ \E f \in Files : DeleteFile(c, f)
  \/ ResumeDeleteFile(c)
  \/ DeleteFileTimeout(c)
  \/ SpuriousWakeup(c)

Next ==
  \/ \E c \in Clients : ClientStep(c)
  \/ \E f \in Files : CreateFile(f)
  \/ \E p \in Pages : AllocatePage(p)
  \/ Shutdown
  \/ Construct

Spec == Init /\ [][Next]_vars

\* A thread that was notified gets the mutex, one that holds a page is done
\* with it at some point, and the five seconds of DeleteFile pass.
Fairness ==
  \A c \in Clients :
    /\ WF_vars(ResumeGetPage(c))
    /\ WF_vars(\E v \in Versions : StoreBytes(c, v))
    /\ SF_vars(RemoveAccessor(c))
    /\ WF_vars(DeleteFileTimeout(c))

FairSpec == Spec /\ Fairness

-----------------------------------------------------------------------------
(* Safety. *)

\* The map and the frames agree: a cached page is in the frame loaded with it,
\* so FlushPage never writes one page's bytes over another's.  Holds whatever
\* goes wrong around the manager.
MapConsistent == \A p \in Pages : Cached(p) => fp_id[page_map_m[p]] = p

\* Through a Page a client sees bytes of the page it asked for and nothing
\* else, however many frames were evicted, dropped or failed to load meanwhile.
OwnBytes ==
  \A c \in Holders :
    /\ fp_id[frame_m[c]] = arg[c]
    /\ data[frame_m[c]] # Garbage => data[frame_m[c]][1] = arg[c]

\* A page stays cached, in the same frame, as long as somebody holds it: the
\* first assertion of RemoveAccessor (page_buffer_manager.cpp:167).
HoldersResident == \A c \in Holders : page_map_m[arg[c]] = frame_m[c]

\* pin_count counts the Page objects on a frame: the second assertion of
\* RemoveAccessor, and what keeps a page in use from being evicted.
PinAccounting == \A f \in Frames : pin_count[f] = Cardinality(HoldersOn(f))

\* The replacer may take exactly the frames nobody has pinned.
EvictableIffUnpinned == \A f \in Frames : is_evictable[f] <=> pin_count[f] = 0

\* A cached page that is not dirty is the page on disk, so forgetting it loses
\* nothing.
CleanMatchesDisk ==
  \A p \in Pages : Cached(p) /\ ~is_dirty[page_map_m[p]] => data[page_map_m[p]] = disk[p]

\* No assertion of the buffer pool or the disk manager fails.
NoAbort == Alive

\* The bytes the pool answers for page p.
StoredBytes == [p \in Pages |->
  IF p \notin allocated THEN NoBytes
  ELSE IF Cached(p) THEN data[page_map_m[p]] ELSE disk[p]]

Held == [c \in Clients |-> IF c \in Holders THEN arg[c] ELSE NoPage]
Mutators == {c \in Clients : pc[c] = "mutating"}

Store == INSTANCE PageStore WITH
  store <- StoredBytes, held <- Held, writing <- Mutators,
  InitPages <- {p \in Pages : FileOf[p] \in InitFiles}

\* The pool implements the plain page store: no eviction, reload, deletion of
\* another file, shutdown or restart changes what a page contains, and a page
\* somebody holds is neither changed behind a writer's back nor deleted.
ImplementsPageStore == Store!StoreSpec

-----------------------------------------------------------------------------
(* Waiting for frames. *)

\* "the number of evictable frames" (lru_k_replacer.h:80).
CountAccurate == evictable_count_m = Cardinality(Evictable)

\* A frame that could be taken while a client waits in GetPage has been
\* announced: some waiter is on its way.
NoLostWakeup ==
  Evictable # {} /\ (\E c \in Clients : pc[c] = "get_wait")
    => \E c \in Clients : pc[c] = "get_woken"

\* LoadPage finds the frame the count promised.
NoPhantomFrame == \A c \in Clients : pc[c] # "no_frame"

\* GetPage waiters do not all sit on an unused pool.
PoolServes == (\E c \in Clients : pc[c] = "get_wait") ~> (Holders # {})

-----------------------------------------------------------------------------
(* Inductive invariants.  BaseInv holds in every environment.               *)

\* What a client's call is about, phase by phase.
CallTyped(c) ==
  /\ pc[c] \in {"get_wait", "get_woken"} => arg[c] \in Pages
  /\ pc[c] \in {"delete_wait", "delete_woken"} => arg[c] \in Files
  /\ pc[c] \in {"holding", "mutating"} => arg[c] \in Pages /\ frame_m[c] \in Frames

CallTypes == \A c \in Clients : CallTyped(c)

BaseInv == TypeOK /\ CallTypes /\ MapConsistent

\* The environment in which the other invariants hold: pages can be read,
\* removed files stay removed and clients leave deleted files alone.  Writes
\* may fail.
SafeEnvironment ==
  /\ ReadFaults = {}
  /\ RemoveFaults = {}
  /\ StaleUse = FALSE
  /\ ReuseIds = FALSE

\* A frame whose page the map no longer gives to it is clean, and its page
\* belongs to a deleted file: erasing that page id again does no harm.
StaleFramesHarmless ==
  running => \A f \in Frames :
    /\ fp_id[f] = NoPage => ~is_dirty[f]
    /\ fp_id[f] # NoPage /\ page_map_m[fp_id[f]] # f =>
         ~is_dirty[f] /\ FileOf[fp_id[f]] \in retired

MutatorsDirty == \A c \in Clients : pc[c] = "mutating" => is_dirty[frame_m[c]]

FilesAccounted ==
  /\ \A p \in Pages : Cached(p) => p \in allocated
  /\ \A p \in allocated : FileOf[p] \in files
  /\ files \cap retired = {}

\* Who waits for a page waits for one that exists and that nobody is deleting.
GettersSafe ==
  \A c \in Clients : pc[c] \in {"get_wait", "get_woken"} =>
    arg[c] \in allocated /\ \A d \in Clients : arg[d] # FileOf[arg[c]]

\* Between destructor and constructor nobody is in a call and nothing is cached.
StoppedIdle ==
  ~running => /\ \A c \in Clients : pc[c] \in {"idle", "no_frame"}
              /\ \A p \in Pages : ~Cached(p)

IInv ==
  /\ BaseInv
  /\ HoldersResident
  /\ PinAccounting
  /\ EvictableIffUnpinned
  /\ CleanMatchesDisk
  /\ StaleFramesHarmless
  /\ MutatorsDirty
  /\ FilesAccounted
  /\ GettersSafe
  /\ StoppedIdle
  /\ NoAbort
=============================================================================
