------------------------- MODULE MCPhotonScheduler -------------------------
(* PhotonScheduler with a month of three units and a day of two: time for  *)
(* several attempts and for two updates that end well.                     *)
EXTENDS PhotonScheduler
=============================================================================
