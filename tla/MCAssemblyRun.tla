--------------------------- MODULE MCAssemblyRun ---------------------------
(* Model-checking values for AssemblyRun. *)
EXTENDS AssemblyRun

MCHandshake == <<1, 13>>

MCPlan == <<"core", "io", "core">>
MCPlans == {MCPlan, <<"core", "io", "hbm">>, <<"core", "io">>}

MCTwoSites == <<"core", "io">>
MCOtherOrder == {<<"io", "core">>}

MCPayload ==
  {<<kind, site>> : kind \in {"PLACE_WB", "PLACE_FC", "PLACEMENT_DONE"},
                    site \in {"core", "io", "hbm"}}
=============================================================================
