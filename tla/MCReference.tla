---------------------------- MODULE MCReference ----------------------------
(***************************************************************************)
(* Inputs for Reference, and what it checks of the codecs of the wire: of  *)
(* items, of bytes that may be one, and of streams of frames.              *)
(***************************************************************************)
EXTENDS Reference, SecsCodec

----------------------------------------------------------------------------
(* STDF records                                                            *)

Texts(typ) == IF typ \in {"Mir", "Ptr", "Ftr"} THEN {<<65>>} ELSE {<<>>, <<65, 66>>}

\* Numbers are distinguished by the place of their field.
Number(typ, name, kind) ==
  LET place == CHOOSE i \in DOMAIN Layout[typ] : Layout[typ][i].name = name
  IN [b \in 1 .. Width(kind) |-> 80 + place]

MCValues(typ, field) ==
  CASE field.name = "parm_flg" -> {<<0>>, <<16>>}
    [] typ = "Ptr" /\ field.name = "opt_flg" -> {None} \cup {<<f>> : f \in {0, 1, 2, 4, 8, 16, 31}}
    [] typ = "Ftr" /\ field.name = "opt_flg" -> {<<0>>, <<1>>}
    [] field.name = "opt_flg_2" -> {None} \cup {<<f>> : f \in {0, 2, 4, 6}}
    [] field.name = "units" -> {<<>>, <<86>>}
    [] field.name \in {"program", "test_label"} -> {None, <<76>>}
    [] field.when = "alarm" -> {None, <<>>, <<77>>}
    [] field.when \in {"unless", "pair"} -> {None, Number(typ, field.name, field.kind)}
    [] field.kind = "Sn" -> {<<>>, <<<<82>>, <<>>>>}
    [] field.kind = "Kn" -> {[b \in 1 .. n |-> 7] : n \in {0, 1, 256, LengthMod - 3, LengthMod - 2, LengthMod}}
    [] typ = "Dtr" -> {[b \in 1 .. n |-> 68] : n \in {0, 1, 255, 256}}
    [] field.kind = "Rest" -> {<<>>, <<0, 65>>}
    [] field.kind = "Cn" -> Texts(typ)
    [] OTHER -> {Number(typ, field.name, field.kind)}

Records(typ) ==
  LET Extend(rs, field) == {(field.name :> v) @@ r : r \in rs, v \in MCValues(typ, field)}
  IN FoldLeft(Extend, {[name \in {} |-> None]}, Layout[typ])

\* What a file may hold for a record: what the writer makes of any record, cut
\* anywhere or with something behind it, and texts in another encoding.
Tails == {<<0>>, <<1, 65>>}
Bodies(typ) ==
  LET Of(rs) == {Body(typ, r) : r \in {r \in rs : Encodes(typ, r)}}
      short == {b \in Of({r \in Records(typ) : Canonical(typ, r)}) : Len(b) < 100}
  IN {b \in Of(Records(typ)) : Len(b) < LengthMod}
     \cup UNION {{SubSeq(b, 1, n) : n \in 0 .. Len(b)} : b \in short}
     \cup {b \o tail : b \in short, tail \in Tails}

ForeignTexts == {<<n>> \o [i \in 1 .. n |-> NotUtf8] : n \in {1, 2, 85, 86}}

MCRecordInputs == UNION {{[typ |-> typ, value |-> r] : r \in Records(typ)} : typ \in Types}

\* A PTR that ends before the OPT_FLG its PARM_FLG announces.
ForeignPtr == <<81, 81, 81, 81, 82, 83, 84, 16, 86, 86, 86, 86, 1, NotUtf8, 0>>

\* An FTR whose PROGRAM is too long for REC_LEN when it is written back.
ForeignFtr ==
  <<81, 81, 81, 81, 82, 83, 84, 1>> \o [i \in 1 .. 30 |-> 85] \o <<0, 0, 0, 0, 0, 0, 200, 0>>
    \o [i \in 1 .. 200 |-> NotUtf8]

MCBodyInputs ==
  UNION {{[typ |-> typ, value |-> body] : body \in Bodies(typ)} : typ \in Types}
    \cup {[typ |-> "Dtr", value |-> body] : body \in ForeignTexts}
    \cup {[typ |-> "Ptr", value |-> ForeignPtr], [typ |-> "Ftr", value |-> ForeignFtr]}

----------------------------------------------------------------------------
(* Placements                                                              *)

Point(x, y) == [x |-> x, y |-> y]
MCLayout ==
  [extent |-> Point(4, 3),
   dies |-> <<[chiplet_id |-> "wide", width |-> 2, height |-> 1],
              [chiplet_id |-> "high", width |-> 1, height |-> 2]>>,
   sites |-> <<[site_id |-> "s1", chiplet_id |-> "wide", position |-> Point(0, 0), orientation |-> "R0"],
               [site_id |-> "s2", chiplet_id |-> "high", position |-> Point(3, 0), orientation |-> "MX"]>>]
ThreeSites ==
  [MCLayout EXCEPT !.sites =
     Append(@, [site_id |-> "s3", chiplet_id |-> "wide", position |-> Point(1, 1), orientation |-> "R0"])]

Placed(layout, k, point, orientation) ==
  [site_id |-> layout.sites[k].site_id, chiplet_id |-> layout.sites[k].chiplet_id,
   nominal |-> layout.sites[k].position, placed |-> point, orientation |-> orientation]

Anywhere == {Point(x, y) : x \in -1 .. 4, y \in -1 .. 2}
Placements ==
  {Placed(MCLayout, k, point, o) : k \in 1 .. 2, point \in Anywhere, o \in {"R0", "MX"}}
Strays ==
  {[Placed(MCLayout, k, point, "R0") EXCEPT !.site_id = "nowhere"] : k \in 1 .. 2, point \in {Point(2, 2)}}
    \cup {[Placed(MCLayout, 1, Point(1, 1), "R0") EXCEPT !.nominal = Point(1, 1)],
          [Placed(MCLayout, 2, Point(1, 1), "MX") EXCEPT !.chiplet_id = "unknown"]}

\* Nearly right placements of three dies.
NearSites ==
  [1 .. 3 -> {Point(0, 0), Point(3, 0), Point(1, 1), Point(2, 1), Point(3, 1), Point(1, 0)}]

Run(layout, records, tolerance) ==
  [layout |-> layout, records |-> records, tolerance |-> tolerance]

MCPlacementInputs ==
  {Run(MCLayout, records, tolerance) :
     records \in UNION {[1 .. n -> Placements \cup Strays] : n \in 0 .. 2}, tolerance \in {0, 1, 3}}
    \cup {Run(ThreeSites,
              [k \in 1 .. 3 |-> Placed(ThreeSites, k, points[k], ThreeSites.sites[k].orientation)],
              tolerance) :
            points \in NearSites, tolerance \in {0, 1, 3}}

----------------------------------------------------------------------------
(* SECS-II items and HSMS frames                                           *)

FlatOf(format, n) ==
  [format |-> format,
   values |-> [i \in 1 .. n |->
                 [b \in 1 .. ElementWidth(format) |-> IF format = "Boolean" THEN i % 2 ELSE i]]]
ListOf(items) == [format |-> "List", values |-> items]

FlatItems ==
  {FlatOf(format, n) : format \in DOMAIN FormatCode \ {"List"}, n \in 0 .. 2}
    \cup {FlatOf(format, n) : format \in {"Binary", "Ascii"}, n \in {3, 4, 15, 16, 63, 64}}

Leaves == {FlatOf("U1", 1), FlatOf("Ascii", 0), FlatOf("U2", 2), FlatOf("Binary", 4), ListOf(<<>>)}
Lists == {ListOf(items) : items \in UNION {[1 .. n -> Leaves] : n \in 0 .. 2}}
Items ==
  FlatItems \cup Lists
    \cup {ListOf(<<a, b>>) : a \in Lists, b \in Leaves}
    \cup {ListOf([i \in 1 .. n |-> FlatOf("U1", 1)]) : n \in {4, 16, 63, 64}}

\* List, Binary, Boolean, Ascii and U2 headers with one or two length bytes,
\* small numbers, a header without a length, and a byte of no format.
WireBytes == {0, 1, 2, 33, 37, 65, 66, 169, NotUtf8}
ItemBytes ==
  UNION {[1 .. n -> WireBytes] : n \in 0 .. 4}
    \cup {<<1, 2>> \o rest : rest \in UNION {[1 .. n -> WireBytes] : n \in 0 .. 3}}

System == <<200, 1, 2, 3>>
DataMessage(stream, function, w_bit, body) ==
  [stype |-> "Data", session_id |-> <<0, 5>>, stream |-> stream, function |-> function,
   w_bit |-> w_bit, system_bytes |-> System, body |-> body]

Messages ==
  {DataMessage(s, f, w, NoBody) : s \in {1, 134}, f \in {1, 127, 128}, w \in BOOLEAN}
    \cup {DataMessage(6, 11, TRUE, body) : body \in {ListOf(<<FlatOf("U4", 1)>>), FlatOf("Ascii", 0)}}
    \cup {[stype |-> t, system_bytes |-> System] :
            t \in {"SelectReq", "LinktestReq", "LinktestRsp", "Separate"}}
    \cup {[stype |-> "SelectRsp", system_bytes |-> System, status |-> s] : s \in 0 .. 2}
    \cup {[stype |-> "Reject", system_bytes |-> System, reason |-> 1, rejected_s |-> 6, rejected_f |-> 11]}

Sent == {[bytes |-> EncodeFrame(msg), arrives |-> Arrives(msg)] : msg \in Messages}

\* Frames this crate does not send: a Deselect.req, a Select.rsp of an unknown
\* status, a Linktest.req with a body; and frames it refuses: another PType,
\* two items in a body, a length below that of a header.
ControlHeader(ptype, stype, last) == <<0, 5, 129, 1, ptype, stype, 200, 1, 2, last>>
Foreign ==
  {[bytes |-> Framed(ControlHeader(0, 3, 3), <<>>),
    arrives |-> [stype |-> "Reject", system_bytes |-> System, reason |-> 3,
                 rejected_s |-> 1, rejected_f |-> 2]],
   [bytes |-> Framed(ControlHeader(0, 2, 7), <<>>),
    arrives |-> [stype |-> "SelectRsp", system_bytes |-> <<200, 1, 2, 7>>, status |-> 2]],
   [bytes |-> Framed(ControlHeader(1, 5, 3), <<33, 0>>),
    arrives |-> [stype |-> "LinktestReq", system_bytes |-> System]],
   [bytes |-> Framed(ControlHeader(1, 0, 3), <<>>), arrives |-> FrameError],
   [bytes |-> Framed(ControlHeader(0, 0, 3), <<33, 0, 33, 0>>), arrives |-> FrameError],
   [bytes |-> BigEndian(9, 4) \o SubSeq(ControlHeader(0, 0, 3), 1, 9), arrives |-> FrameError],
   [bytes |-> BigEndian(0, 4), arrives |-> FrameError]}

Frames == Sent \cup Foreign

Input(kind, values) == {[kind |-> kind, value |-> v] : v \in values}
MCWireInputs ==
  Input("item", Items) \cup Input("item_bytes", ItemBytes) \cup Input("frames", Frames \X Frames)

----------------------------------------------------------------------------
(* Properties                                                              *)

\* Items are decoded as they were encoded, whatever follows them, and from no
\* part of their bytes; whatever bytes are accepted settle after one pass
\* (SecsItem::encode and from_bytes).
ItemsDecodeExactly ==
  /\ input.kind = "item" => ItemRoundTrips(input.value)
  /\ input.kind = "item_bytes" => AcceptedItemSettles(input.value)

\* Frames on one stream do not run into one another, undecodable ones
\* included, and a cut one is never delivered (HsmsMessage, read_message).
FramesSurvive == input.kind = "frames" => FramesStaySeparate(input.value)
=============================================================================
