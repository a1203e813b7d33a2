----------------------------- MODULE MCWaitSet ------------------------------
(* Three samples, one of them of high priority, instead of ten and five.   *)
(* C and Java run the same programs.                                       *)
EXTENDS WaitSet

ASSUME SamePrograms ==
    /\ CPublisher = JavaPublisher /\ CPublisher = ZigPublisher
    /\ CSubscriber = JavaSubscriber

MCSampleCount     == 3
MCThreshold       == 1
MCPublisherPorts  == {"cpp", "c"}
MCSubscriberPorts == {"cpp", "c", "zig"}
=============================================================================
