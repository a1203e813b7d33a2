----------------------------- MODULE MCPresence -----------------------------
(* A tick is half a second: the beacon period, the lease and the silence   *)
(* are those of the source, with two beacons a phase instead of eight, and *)
(* anything may be half a second late.  The publisher ports run the same   *)
(* program, and so do the C++ and the C subscriber.                        *)
EXTENDS Presence

ASSUME SamePrograms ==
    /\ \A p, q \in Ports : PublisherProgram[p] = PublisherProgram[q]
    /\ CppSubscriber = CSubscriber

MCBeaconCount     == 2
MCBeaconPeriod    == 1
MCLease           == 4
MCOfflineDuration == 10
MCSlack           == 1
MCPublisherPorts  == {"cpp"}
MCSubscriberPorts == {"cpp", "zig", "java"}
=============================================================================
