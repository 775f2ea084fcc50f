------------------------------ MODULE MCUploads ------------------------------
(* Two users, three devices; two devices chose the same id for messages that *)
(* agree in a part, a third one composed a longer message under that id.     *)
EXTENDS Uploads

CONSTANTS a, b, d1, d2, d3, t1, t2, t3

MCUsers == {a, b}
MCDevices == {d1, d2, d3}
MCTexts == {t1, t2, t3}
MCDrafts ==
  {[device |-> d1, id |-> 1, to |-> b, texts |-> <<t1, t2>>],
   [device |-> d2, id |-> 1, to |-> b, texts |-> <<t1, t3>>],
   [device |-> d3, id |-> 1, to |-> a, texts |-> <<t1, t2>>],
   [device |-> d1, id |-> 2, to |-> b, texts |-> <<t1, t1, t3>>]}
=============================================================================
