----------------------------- MODULE MCBulkIngest -----------------------------
(***************************************************************************)
(* Two archives.  The first holds a return and its amendment (same key);    *)
(* the second holds the same key once more and another year of the same     *)
(* organization.                                                            *)
(***************************************************************************)
EXTENDS BulkIngest

CONSTANTS a1, a2, m1, m2, m3, m4, k1, k2, e1, f, s

MCArchiveOf == [m \in Member |-> IF m \in {m1, m2} THEN a1 ELSE a2]
MCKeyOf == [m \in Member |-> IF m = m4 THEN k2 ELSE k1]
MCEinOf == [k \in Key |-> e1]
MCCellsOf == [m \in Member |-> IF m = m1 THEN {f} ELSE IF m = m3 THEN {s} ELSE {f, s}]
===============================================================================
