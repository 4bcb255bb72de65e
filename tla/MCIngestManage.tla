---------------------------- MODULE MCIngestManage ----------------------------
(***************************************************************************)
(* Two archives that share a filing key; the second also holds another year *)
(* of the same organization.                                                *)
(***************************************************************************)
EXTENDS IngestManage

CONSTANTS a1, a2, m1, m3, m4, k1, k2, e1, s

MCArchiveOf == [m \in Member |-> IF m = m1 THEN a1 ELSE a2]
MCKeyOf == [m \in Member |-> IF m = m4 THEN k2 ELSE k1]
MCEinOf == [k \in Key |-> e1]
MCCellsOf == [m \in Member |-> {s}]

\* bound: no stop request and no dead worker (MCBulkIngest has both)
Undisturbed == ~stop /\ ~broken

\* no action's guard reads unscored, and no property of this run is about it
ExceptScores ==
  <<filing, zip, data, address, orgs, ledger, missing, pc, todo, cur, reading,
    stop, buffers, remap, purging, purged>>
===============================================================================
