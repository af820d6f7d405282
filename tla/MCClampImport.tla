-------------------------- MODULE MCClampImport --------------------------
(***************************************************************************)
(* Two clamps of two types that share a range, and documents for either    *)
(* serial number, for either type, and a strange one, in lists of two, and *)
(* of three where the third may be reached or not.                         *)
(***************************************************************************)
EXTENDS ClampImport

MCRangesOf == [t \in Types |-> IF t = "CL120A" THEN {"C100A", "C50A"} ELSE {"C100A"}]

Doc(type, serial) == [type |-> type, serial |-> serial, data |-> [r \in RangesOf[type] |-> 1]]
First == Doc("CL120A", "s1")
Second == Doc("CL120A", "s2")
Other == Doc("CL1000A", "s1")
MCDocLists ==
  BoundedSeq({First, Second, Other, Strange}, 2)
    \cup {<<First, First, Second>>, <<Other, Second, First>>, <<First, Strange, Second>>}
=============================================================================
