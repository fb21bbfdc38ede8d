----------------------------- MODULE MCDeltaSweep -----------------------------
(* The purchase-order family of app/ingest/manifest.py for TLC: EKBE hands  *)
(* keys to EKPO and EKET, EKPO hands keys to EKET, EKET has no date.        *)
EXTENDS DeltaSweep

PoSets == {"POHistory", "POItem", "POScheduleLine"}
PoDirect == {"POHistory", "POItem"}
PoVia == [s \in PoSets |->
    CASE s = "POHistory" -> {}
      [] s = "POItem" -> {"POHistory"}
      [] s = "POScheduleLine" -> {"POHistory", "POItem"}]
PoName == [s \in PoSets |->
    CASE s = "POHistory" -> 1 [] s = "POItem" -> 3 [] s = "POScheduleLine" -> 2]

\* Two goods receipts and one item change.
PoEvents == {"gr1", "gr2", "item"}
PoCarrier == [e \in PoEvents |-> IF e = "item" THEN "POItem" ELSE "POHistory"]
\* Every set is verified, or the items are not: then neither they nor the
\* schedule lines, which are read through them, are swept.
Verified == {PoSets, {"POHistory"}}
\* The second day of the model, which is tomorrow on its first.
MistypedDays == {2}
=============================================================================
