---------------------------- MODULE MCHelloWorld ----------------------------
(* hello_world with three samples instead of ten, all sixteen pairs of     *)
(* ports, both kinds of attachment, with and without deadlines.            *)
EXTENDS HelloWorld

MCSampleCount == 3
=============================================================================
