----------------------- MODULE MCPageBufferManager -----------------------
(***************************************************************************)
(* Instances of PageBufferManager for TLC.                                  *)
(***************************************************************************)
EXTENDS PageBufferManager, TLC

CONSTANTS c1, c2, c3, p1, p2, p3, A, B

\* Files A and B; A has two pages.
TwoFiles == (p1 :> A) @@ (p2 :> A) @@ (p3 :> B)
TwoFilesTwoPages == (p1 :> A) @@ (p3 :> B)
OneFile == (p1 :> A) @@ (p2 :> A) @@ (p3 :> A)

\* Everybody may ask for everything, so pages are shared.
AllPages == [c \in Clients |-> Pages]

\* Every client has a page of its own, so no frame is ever pinned twice.
OwnPages == (c1 :> {p1}) @@ (c2 :> {p2}) @@ (c3 :> {p3})
=============================================================================
