---------------------------- MODULE MCHeatBalance ----------------------------
(* HeatBalance on five minutes in hours of four, the buffer bridging three.     *)
EXTENDS HeatBalance

HeatRows0 ==
  {[content |-> {0}, pump |-> 1, level |-> 0,  valves |-> {}, windows |-> {}],
   [content |-> {2}, pump |-> 0, level |-> 3,  valves |-> {"a", "b"}, windows |-> {"a"}],
   [content |-> {2}, pump |-> 1, level |-> -1, valves |-> {"a", "b"}, windows |-> {"a", "b"}],
   [content |-> {},  pump |-> 1, level |-> 1,  valves |-> {"b"}, windows |-> {"b"}]}
HeatCircuits == [a |-> 2, b |-> 1]
==============================================================================
