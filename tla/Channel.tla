------------------------------ MODULE Channel ------------------------------
(***************************************************************************)
(* What a program may expect of layers around its contents, whichever they *)
(* are: if anything on the way says where the contents end, they are       *)
(* delivered as they were sent or the failure is reported; if nothing      *)
(* does, the receiver may get more or less of them.  One or the other      *)
(* happens.                                                                *)
(***************************************************************************)
CONSTANT Contents

VARIABLES
  sent,
  framed,      \* something says where the contents end
  outcome,     \* "idle", "pending", "delivered", "reported"
  received

channelVars == <<sent, framed, outcome, received>>

Init ==
  /\ sent \in Contents /\ received = sent
  /\ framed = FALSE
  /\ outcome = "idle"

Send ==
  /\ outcome = "idle"
  /\ sent' \in Contents /\ received' = sent'
  /\ framed' \in BOOLEAN
  /\ outcome' = "pending"

(* A layer or the contents themselves have a length.                       *)
Frame ==
  /\ outcome = "pending"
  /\ framed' = TRUE
  /\ UNCHANGED <<sent, outcome, received>>

Deliver ==
  /\ outcome = "pending"
  /\ received' \in Contents
  /\ framed => received' = sent
  /\ outcome' = "delivered"
  /\ UNCHANGED <<sent, framed>>

Report ==
  /\ outcome = "pending"
  /\ outcome' = "reported"
  /\ UNCHANGED <<sent, framed, received>>

Next == Send \/ Frame \/ Deliver \/ Report

(* Deliver or Report is always possible while the outcome is pending, so   *)
(* that an implementation need only be fair to its own steps.              *)
Answers == outcome = "pending" ~> outcome \in {"delivered", "reported"}

Safety == Init /\ [][Next]_channelVars

Spec == Safety /\ Answers
=============================================================================
