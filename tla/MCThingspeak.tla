----------------------------- MODULE MCThingspeak -----------------------------
(***************************************************************************)
(* Instances of Thingspeak for TLC.  Two kinds of data that are queued, the *)
(* one that is not and the fetching make four kinds and four slots: as in   *)
(* the program one slot more than there are kinds in the queue.             *)
(***************************************************************************)
EXTENDS Thingspeak
=============================================================================
