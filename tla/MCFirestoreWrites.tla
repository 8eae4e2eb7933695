-------------------------- MODULE MCFirestoreWrites --------------------------
(* A small instance: two users of one device and a pipeline of two batches. *)
EXTENDS FirestoreWrites, TLC

CONSTANTS ann, bob

MCUsers == {ann, bob}
=============================================================================
