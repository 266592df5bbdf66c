---------------------------- MODULE MCRegistration ----------------------------
(* Registration on small instances. *)
EXTENDS Registration

(* What a directory may hold: a file of each kind, hand-written ones       *)
(* without a run_id among them.                                            *)
AnyFound == {[kind |-> "valid", run |-> NoRunID],
             [kind |-> "invalid", run |-> Static],
             [kind |-> "garbage", run |-> NoRunID]}
=============================================================================
