----------------------------- MODULE MCWaferRun -----------------------------
(* Model-checking values for WaferRun. *)
EXTENDS WaferRun

MCFullHandshake == <<1, 13>>
MCIdentifyOnly == <<1>>
MCEstablishOnly == <<13>>

MCTwoDies == <<0, 1>>
MCThreeDies == <<0, 1, 3>>
MCLeftOfOrigin == <<-1, 0>>

MCPayload ==
  {<<"DIE_TESTED", coord, passed>> : coord \in 0 .. CoordMod - 1, passed \in BOOLEAN}
    \cup {WaferDone}
=============================================================================
