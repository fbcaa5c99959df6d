--------------------------- MODULE AtomicDocument ---------------------------
(***************************************************************************)
(* What the state file promises to the dashboards: it holds one complete   *)
(* document; a write replaces it in one step or leaves it alone; a reader  *)
(* gets the document that was stored when it opened the file; and a loss   *)
(* of power brings back one of the documents stored before, complete.      *)
(***************************************************************************)
CONSTANTS Doc,          \* the documents
          NoDoc,        \* there is no file, or a reader has not opened one
          Reader

VARIABLES
    stored,     \* the document in the file
    kept,       \* the documents a loss of power may leave in it
    view        \* what a reader that has opened the file is about to get

avars == <<stored, kept, view>>

AInit == /\ stored = NoDoc
         /\ kept = {NoDoc}
         /\ view = [r \in Reader |-> NoDoc]

AStore == /\ stored' \in Doc
          /\ kept' = kept \cup {stored'}
          /\ view' = view

ASettle == kept' = {stored} /\ UNCHANGED <<stored, view>>

AOpen(r) == /\ view' = [view EXCEPT ![r] = stored]
            /\ UNCHANGED <<stored, kept>>

ADone(r) == /\ view' = [view EXCEPT ![r] = NoDoc]
            /\ UNCHANGED <<stored, kept>>

APowerLoss == /\ stored' \in kept
              /\ kept' = {stored'}
              /\ view' = [r \in Reader |-> NoDoc]

ANext == AStore \/ ASettle \/ APowerLoss \/ \E r \in Reader : AOpen(r) \/ ADone(r)

ASpec == AInit /\ [][ANext]_avars
=============================================================================
