---------------------------- MODULE MCWaferSort ----------------------------
(* Model-checking values for WaferSort and WaferOutcome. *)
EXTENDS WaferOutcome

\* One measurement that names no soft bin, one pattern group that names one.
MCTests == <<[number |-> 1, failSoftBin |-> 0]>>
MCGroups == <<[number |-> 7, failSoftBin |-> 20]>>

\* BinTaxonomy::defaults(), which does not define soft bin 20.
MCHardBinOf ==
  [soft \in {1, 10, 11, 12} |-> soft]
=============================================================================
