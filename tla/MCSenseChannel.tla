------------------------- MODULE MCSenseChannel -------------------------
(***************************************************************************)
(* A voltage and a current channel with the kinds of ranges the tables of  *)
(* senseinterface.cpp and clamp.cpp have: for AC and adjustment, for       *)
(* adjustment only, and lent by three clamp types with the codes they use. *)
(***************************************************************************)
EXTENDS SenseChannel

R(n, k, m, a) == [name |-> n, code |-> k, modes |-> m, avail |-> a]

MCChannels == {"m0", "m3"}
MCBelow == [m0 |-> "m0", m3 |-> "m0"]
MCNames == {"250V", "8V", "10A", "2V", "C100A", "C200A", "C1000V"}
MCModes == {"AC", "HF", "ADJ"}
MCTypes == {"CL120A", "CL1000A", "EMOB200DC"}
MCCodes == {0, 1, 10, 11, 15}

MCFixed ==
  [m0 |-> <<R("250V", 0, {"AC", "ADJ"}, TRUE), R("8V", 1, {"AC", "ADJ"}, TRUE)>>,
   m3 |-> <<R("10A", 0, {"AC", "ADJ"}, TRUE), R("2V", 11, {"ADJ"}, FALSE)>>]

MCLent ==
  [CL120A    |-> [own |-> <<R("C100A", 11, {"AC"}, TRUE)>>, below |-> << >>],
   CL1000A   |-> [own |-> <<R("C100A", 15, {"AC"}, TRUE)>>, below |-> << >>],
   EMOB200DC |-> [own |-> <<R("C200A", 10, {"AC"}, TRUE)>>,
                  below |-> <<R("C1000V", 1, {"AC"}, TRUE)>>]]
=============================================================================
