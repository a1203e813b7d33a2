------------------------------- MODULE MCShape -------------------------------
(* One publisher of two topics and two iterations, so that a coherent set    *)
(* spans readers and can overtake the look at another; and two publishers of *)
(* one color on one topic, so that one can be done with an instance the      *)
(* other still writes.                                                       *)
EXTENDS Shape

CONSTANTS p1, p2

MCPublishers == {p1, p2}

Two(ports) == [port : ports, coherent : {FALSE}, ordered : {FALSE},
               finale : {"dispose", "unregister"}, publishers : {MCPublishers},
               numTopics : {1}, numIterations : {1}, together : {FALSE}]
One == [port : {"c"}, coherent : BOOLEAN, ordered : {FALSE},
        finale : {"dispose", "unregister"}, publishers : {{p1}}, numTopics : {2},
        numIterations : {2}, together : BOOLEAN]

\* Ordered access without coherent access; with it, it changes nothing.
Ordered == [port : {"c"}, coherent : {FALSE}, ordered : {TRUE},
            finale : {"dispose"}, publishers : {{p1}}, numTopics : {2},
            numIterations : {1}, together : {FALSE}]

\* The ports do not differ in what the publishers do: one finale for C++ will do.
MCOptions  == {o \in One : o.together => o.coherent} \cup Ordered
                  \cup Two({"c"}) \cup {o \in Two({"cpp"}) : o.finale = "unregister"}
CppOptions == Two({"cpp"})
=============================================================================
