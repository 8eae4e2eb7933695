-------------------------- MODULE MCFirestoreListen --------------------------
(* A small instance: two documents, one of which may change and be deleted. *)
EXTENDS FirestoreListen

CONSTANTS d1, d2, hi, ho

MCDocs == {d1, d2}
MCContents == (d1 :> {hi, ho, Missing}) @@ (d2 :> {hi})
=============================================================================
