---------------------------- MODULE MCLinuxQueue ----------------------------
(* Instances of LinuxQueue for TLC: the .cfg files give the constants.     *)
EXTENDS LinuxQueue, TLC

CONSTANTS p1, p2, c1, c2, a, b

OneProducer == {p1}
TwoProducers == {p1, p2}
OneConsumer == {c1}
TwoConsumers == {c1, c2}
OneItem == {a}
TwoItems == {a, b}
=============================================================================
