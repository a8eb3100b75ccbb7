----------------------------- MODULE Reference -----------------------------
(***************************************************************************)
(* The parts of the code without state, on inputs one by one: STDF records *)
(* and record bodies (records.rs), and the placement records of a finished *)
(* assembly run (verify.rs).  One step picks an input.                     *)
(*                                                                         *)
(* The codecs of the HSMS wire are picked from as well, but their module,  *)
(* SecsCodec, is recursive and only the model checker's module extends it. *)
(***************************************************************************)
EXTENDS StdfRecord, PlacementVerify

CONSTANTS
  RecordInputs,     \* types, each with a record of it
  BodyInputs,       \* types, each with a body
  PlacementInputs,  \* layouts, each with the records of a run and a tolerance
  WireInputs        \* what SecsCodec is checked on

ASSUME RecordAssumption ==
  \A picked \in RecordInputs : picked.typ \in Types /\ IsRecord(picked.typ, picked.value)

\* A reader takes as many bytes for a body as REC_LEN says.
ASSUME BodyAssumption ==
  \A picked \in BodyInputs :
    /\ picked.typ \in Types
    /\ picked.value \in Seq(Byte) /\ Len(picked.value) < LengthMod

ASSUME PlacementAssumption ==
  \A run \in PlacementInputs :
    /\ run.layout \in Layouts
    /\ run.records \in Seq(PlacementRecords)
    /\ run.tolerance \in Int

ASSUME WireAssumption ==
  \A picked \in WireInputs : picked.kind \in {"item", "item_bytes", "frames"}

VARIABLE input

NoInput == [kind |-> "none"]

----------------------------------------------------------------------------
(* The specification                                                       *)

Init == input = NoInput

PicksRecord ==
  \E picked \in RecordInputs :
    input' = [kind |-> "record", typ |-> picked.typ, value |-> picked.value]

PicksBody ==
  \E picked \in BodyInputs :
    input' = [kind |-> "body", typ |-> picked.typ, value |-> picked.value]

PicksPlacements ==
  \E run \in PlacementInputs :
    input' = [kind |-> "placements", layout |-> run.layout, records |-> run.records,
              tolerance |-> run.tolerance]

PicksWire == \E picked \in WireInputs : input' = picked

Picks == input = NoInput /\ (PicksRecord \/ PicksBody \/ PicksPlacements \/ PicksWire)

Drops == input # NoInput /\ input' = NoInput

Next == Picks \/ Drops

Spec == Init /\ [][Next]_input

----------------------------------------------------------------------------
(* Properties                                                              *)

\* A record read back from the file is the one that was written exactly if
\* its fields agree with its flags and its body is not too long for REC_LEN
\* (Record::encode and parse).
RecordsRoundTrip == input.kind = "record" => RoundTrips(input.typ, input.value)

\* Reading a file and writing it again keeps all but what lies behind the last
\* known field of a record, and changes nothing the second time; only a PTR
\* that ends before UNITS may change again (Record::parse, then encode).
RewritesOnlyTrim == input.kind = "body" => RewriteOnlyTrims(input.typ, input.value)

\* A report without violations and an assembled package are the same thing, of
\* records that follow the layout (verify_placements).
ReportMeansAssembled ==
  input.kind = "placements" => OkMeansAssembled(input.records, input.layout, input.tolerance)

\* The same for the placed positions alone, of any records, as the comment on
\* verify_placements has it.
ReportMeansOnSite ==
  input.kind = "placements" => OkMeansOnSite(input.records, input.layout, input.tolerance)
=============================================================================
