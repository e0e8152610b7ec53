------------------------------ MODULE MCBorewell ------------------------------
(***************************************************************************)
(* Instances of Borewell for TLC.  Two alarms repeat for ever, so three     *)
(* slots leave one for a pulse and make the pool full at the second.        *)
(***************************************************************************)
EXTENDS Borewell
=============================================================================
