--------------------------- MODULE MCScpiSocket ---------------------------
(***************************************************************************)
(* Two connections; the lists of samplinginterface.cpp, of which clients   *)
(* select one entry and one name that is not in the list.                  *)
(***************************************************************************)
EXTENDS ScpiSocket

MCPllChannels == <<"m0", "m1", "m2", "m6", "m3", "m4", "m5", "m7">>
MCSampleRanges == <<[name |-> "F50Hz", rate |-> "504", code |-> 0],
                    [name |-> "F20Hz", rate |-> "720", code |-> 1]>>
=============================================================================
