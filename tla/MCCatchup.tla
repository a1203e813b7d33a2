----------------------------- MODULE MCCatchup ------------------------------
(* Two historical and two live samples instead of ten and five, and every  *)
(* environment.  The publisher ports run the same program, and so do the   *)
(* C++ and the C subscriber, so one of each stands for all of them.        *)
EXTENDS Catchup

ASSUME SamePrograms ==
    /\ \A p, q \in Ports : PublisherProgram[p] = PublisherProgram[q]
    /\ CppSubscriber = CSubscriber

MCHistoricalCount == 2
MCLiveCount       == 2
MCPublisherPorts  == {"cpp"}
MCSubscriberPorts == {"cpp", "zig", "java"}
=============================================================================
