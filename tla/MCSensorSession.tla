---------------------------- MODULE MCSensorSession ----------------------------
(* A small instance of SensorSession.  The server may change its channels  *)
(* between two sessions: the values of n1 and n2 then fill the receiver    *)
(* that n3 needs.                                                          *)
EXTENDS SensorSession, TLC

CONSTANTS s1, s2, n1, n2, n3

TwoSlots == {s1, s2}
ThreeNodes == {n1, n2, n3}
Spaces ==
    { (s1 :> {n1} @@ s2 :> {n2}),
      (s1 :> {n3} @@ s2 :> {}) }
================================================================================
