---------------------------- MODULE MCEventLoop ----------------------------
(* Loops in five surroundings.  Frames have a header of one byte; 1          *)
(* announces a payload of one byte and 0 is an error.                        *)
EXTENDS EventLoop

Reused ==
    [wire |-> <<1, 0>>, segment |-> 2, shut |-> FALSE, connections |-> 2, overload |-> FALSE,
     timeout |-> FALSE, reject |-> FALSE, fail |-> FALSE, reset |-> FALSE, halt |-> "idle"]
HalfClosed == [Reused EXCEPT !.connections = 1, !.shut = TRUE]
Pipelined == [Reused EXCEPT !.wire = <<1, 0, 1, 0>>, !.segment = 4, !.connections = 1, !.halt = "drain"]
Faulty ==
    [Reused EXCEPT !.connections = 1, !.fail = TRUE, !.reset = TRUE, !.halt = "stop"]
Overloaded ==
    [Reused EXCEPT !.connections = 1, !.segment = 1, !.shut = TRUE, !.overload = TRUE,
                   !.timeout = TRUE, !.reject = TRUE, !.halt = "stop"]
MCSettings == {Reused, HalfClosed, Pipelined, Faulty, Overloaded}
=============================================================================
