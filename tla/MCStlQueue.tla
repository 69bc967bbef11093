----------------------------- MODULE MCStlQueue -----------------------------
(* Instances of StlQueue for TLC: the .cfg files give the constants.       *)
EXTENDS StlQueue, TLC

CONSTANTS p1, p2, c1, c2, a, b

TwoProducers == {p1, p2}
TwoConsumers == {c1, c2}
OneConsumer == {c1}
OneProducer == {p1}
OneItem == {a}
TwoItems == {a, b}
=============================================================================
