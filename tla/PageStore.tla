---------------------------- MODULE PageStore ----------------------------
(***************************************************************************)
(* What the buffer pool promises to the storage layer above it: a plain     *)
(* map from pages to bytes, and guards on its pages.  A page changes only   *)
(* when it is allocated, when a client stores into a page it holds and has  *)
(* opened for writing, alone, or when its file is deleted while nobody      *)
(* holds a page of it.  Loading, evicting, flushing, pinning, waiting,      *)
(* shutting down and restarting are invisible.                              *)
(***************************************************************************)
CONSTANTS Clients, Pages, Files, FileOf, Versions, NoBytes, NoPage, Zero, InitPages

VARIABLES
  store,    \* store[p]: the bytes of page p, or NoBytes
  held,     \* held[c]: the page client c has a guard on, or NoPage
  writing   \* the clients that have a mutable view

storeVars == <<store, held, writing>>

StoreInit ==
  /\ store = [p \in Pages |-> IF p \in InitPages THEN <<p, Zero>> ELSE NoBytes]
  /\ held = [c \in Clients |-> NoPage]
  /\ writing = {}

Allocate(p) ==
  /\ store[p] = NoBytes
  /\ store' = [store EXCEPT ![p] = <<p, Zero>>]
  /\ UNCHANGED <<held, writing>>

Acquire(c, p) ==
  /\ held[c] = NoPage
  /\ store[p] # NoBytes
  /\ held' = [held EXCEPT ![c] = p]
  /\ UNCHANGED <<store, writing>>

Open(c) ==
  /\ held[c] # NoPage
  /\ \A d \in writing : held[d] # held[c]
  /\ writing' = writing \cup {c}
  /\ UNCHANGED <<store, held>>

Write(c, v) ==
  /\ c \in writing
  /\ store' = [store EXCEPT ![held[c]] = <<held[c], v>>]
  /\ writing' = writing \ {c}
  /\ UNCHANGED held

Release(c) ==
  /\ held[c] # NoPage
  /\ c \notin writing
  /\ held' = [held EXCEPT ![c] = NoPage]
  /\ UNCHANGED <<store, writing>>

Drop(f) ==
  /\ \A c \in Clients : held[c] # NoPage => FileOf[held[c]] # f
  /\ store' = [p \in Pages |-> IF FileOf[p] = f THEN NoBytes ELSE store[p]]
  /\ UNCHANGED <<held, writing>>

StoreNext ==
  \/ \E p \in Pages : Allocate(p)
  \/ \E c \in Clients :
       \/ \E p \in Pages : Acquire(c, p)
       \/ Open(c)
       \/ \E v \in Versions : Write(c, v)
       \/ Release(c)
  \/ \E f \in Files : Drop(f)

StoreSpec == StoreInit /\ [][StoreNext]_storeVars
=============================================================================
