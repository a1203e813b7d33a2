----------------------------- MODULE MCRegistry -----------------------------
(* The publisher ports run the same program, and so do the C++ and the C   *)
(* subscriber, so one of each stands for all of them.                      *)
EXTENDS Registry

ASSUME SamePrograms ==
    /\ \A p, q \in Ports : PublisherProgram[p] = PublisherProgram[q]
    /\ CppSubscriber = CSubscriber

MCPublisherPorts  == {"cpp"}
MCSubscriberPorts == {"cpp", "zig", "java"}
=============================================================================
