----------------------------- MODULE StdfRecord -----------------------------
(***************************************************************************)
(* The bytes of an STDF record: Record::encode and Record::parse           *)
(* (src/tpt-ate-test/src/stdf/records.rs) over the primitive field codec   *)
(* (codec.rs).                                                             *)
(*                                                                         *)
(* A record is its type and a value for each field of the type's layout.   *)
(* The code lists the fields twice, once in each direction; a layout lists *)
(* them once, and what differs between the two directions, when a field is *)
(* written and when it is looked for, is stated separately.  A numeric     *)
(* value is its little-endian bytes, a text its bytes, an Option that is   *)
(* None is None.                                                           *)
(***************************************************************************)
EXTENDS Integers, Sequences, SequencesExt, Utf8

CONSTANTS
  LengthMod,  \* number of values of a two-byte length (2^16)
  None        \* an Option that is None

ASSUME LengthAssumption == LengthMod \in 257 .. 65536

ByteMod == 256
Byte == 0 .. ByteMod - 1

ASSUME NoneAssumption == None \notin Seq(Byte)

----------------------------------------------------------------------------
(* Field codec                                                             *)

Width(kind) ==
  CASE kind \in {"U1", "I1"} -> 1
    [] kind \in {"U2", "I2"} -> 2
    [] kind \in {"U4", "R4"} -> 4
    [] OTHER -> 0

\* A number as u16, its low byte first.
Bytes2(n) == <<(n % LengthMod) % ByteMod, (n % LengthMod) \div ByteMod>>

\* Cn holds at most 255 bytes and a k-array at most 65535: write::cn and
\* write::k_bytes assert it.  An Nn length is cast.
Fits(kind, value) ==
  CASE kind = "Cn" -> Len(value) < ByteMod
    [] kind = "Kn" -> Len(value) < LengthMod
    [] kind = "Sn" -> Len(value) < LengthMod /\ \A i \in DOMAIN value : Len(value[i]) < ByteMod
    [] OTHER -> TRUE

\* write::sn: a count, then each string with its length.
WriteStrings(strings) ==
  LET bytes[i \in 0 .. Len(strings)] ==
        IF i = 0 THEN Bytes2(Len(strings))
        ELSE bytes[i - 1] \o (<<Len(strings[i])>> \o strings[i])
  IN bytes[Len(strings)]

Write(kind, value) ==
  CASE kind = "Cn" -> <<Len(value)>> \o value
    [] kind \in {"Nn", "Kn"} -> Bytes2(Len(value)) \o value
    [] kind = "Sn" -> WriteStrings(value)
    [] OTHER -> value

Eof == [ok |-> FALSE]

\* Reader::take: n bytes and the rest.
Take(bytes, n) ==
  IF Len(bytes) < n THEN Eof
  ELSE [ok |-> TRUE, value |-> SubSeq(bytes, 1, n), rest |-> SubSeq(bytes, n + 1, Len(bytes))]

\* Variant for a sensitivity check: a length behind the end is cut down.
TakeCountedSome(bytes, width) ==
  LET length == Take(bytes, width)
      n == IF width = 1 THEN length.value[1] ELSE length.value[1] + ByteMod * length.value[2]
  IN IF ~length.ok THEN Eof
     ELSE Take(length.rest, IF n > Len(length.rest) THEN Len(length.rest) ELSE n)

\* A length of so many bytes, and that many bytes.
TakeCounted(bytes, width) ==
  LET length == Take(bytes, width)
  IN IF ~length.ok THEN Eof
     ELSE Take(length.rest, IF width = 1 THEN length.value[1]
                            ELSE length.value[1] + ByteMod * length.value[2])

TakeText(bytes, width) ==
  LET text == TakeCounted(bytes, width)
  IN IF text.ok THEN [ok |-> TRUE, value |-> Lossy(text.value), rest |-> text.rest] ELSE Eof

\* Reader::sn: a count, then each string.
AfterString(got) ==
  LET text == TakeText(got.rest, 1)
  IN IF ~got.ok \/ ~text.ok THEN Eof
     ELSE [ok |-> TRUE, value |-> Append(got.value, text.value), rest |-> text.rest]

TakeStrings(bytes) ==
  LET count == Take(bytes, 2)
      got[i \in 0 .. count.value[1] + ByteMod * count.value[2]] ==
        IF i = 0 THEN [ok |-> TRUE, value |-> <<>>, rest |-> count.rest]
        ELSE AfterString(got[i - 1])
  IN IF ~count.ok THEN Eof ELSE got[count.value[1] + ByteMod * count.value[2]]

Read(kind, bytes) ==
  CASE kind = "Cn" -> TakeText(bytes, 1)
    [] kind = "Nn" -> TakeText(bytes, 2)
    [] kind = "Kn" -> TakeCounted(bytes, 2)
    [] kind = "Sn" -> TakeStrings(bytes)
    [] kind = "Rest" -> Take(bytes, Len(bytes))
    [] OTHER -> Take(bytes, Width(kind))

----------------------------------------------------------------------------
(* Layouts                                                                 *)

Field(name, kind, when, bit) == [name |-> name, kind |-> kind, when |-> when, bit |-> bit]
Fields(kind, names) == [i \in DOMAIN names |-> Field(names[i], kind, "always", 0)]

\* Fields a body may end before.
Trailing(kind, names) == [i \in DOMAIN names |-> Field(names[i], kind, "more", 0)]

CountFields == Fields("U4", <<"part_cnt", "rtst_cnt", "abrt_cnt", "good_cnt", "func_cnt">>)

BinFields == Fields("U1", <<"head_num", "site_num">>) \o Fields("U2", <<"bin_num">>)
               \o Fields("U4", <<"bin_cnt">>) \o Fields("U1", <<"bin_pf">>)
               \o Fields("Cn", <<"bin_nam">>)

MirTexts ==
  <<"lot_id", "part_typ", "node_nam", "tstr_typ", "job_nam", "job_rev", "sblot_id", "oper_nam",
    "exec_typ", "exec_ver", "test_cod", "tst_temp", "user_txt", "aux_file", "pkg_typ",
    "family_id", "date_cod", "facil_id", "floor_id", "proc_id", "oper_frq", "spec_nam",
    "spec_ver", "flow_id", "setup_id", "dsgn_rev", "eng_id", "rom_cod", "serl_num", "supr_nam">>

\* The optional fields of a PTR: present unless a bit of OPT_FLG says no.
PtrOptions ==
  <<Field("res_scal", "I1", "unless", 1), Field("llm_scal", "I1", "unless", 2),
    Field("hlm_scal", "I1", "unless", 4), Field("lo_limit", "R4", "unless", 8),
    Field("hi_limit", "R4", "unless", 16)>>

Layout ==
  [Far |-> Fields("U1", <<"cpu_type", "stdf_ver">>),
   Atr |-> Fields("U4", <<"mod_timn">>) \o Fields("Cn", <<"cmd_line">>),
   Mir |-> Fields("U4", <<"setup_t", "start_t">>)
             \o Fields("U1", <<"stat_bin", "mode_cod", "rtn_cod", "prot_cod">>)
             \o Fields("U2", <<"burn_day">>) \o Fields("U1", <<"cmt_cnt">>)
             \o Fields("Cn", MirTexts),
   Mrr |-> Fields("U4", <<"finish_t">>) \o Fields("U1", <<"disp_cod", "usr_cod", "exc_cod">>)
             \o Fields("Cn", <<"usr_desc", "exc_desc">>),
   Pcr |-> Fields("U1", <<"head_num", "site_num">>) \o CountFields,
   Hbr |-> BinFields,
   Sbr |-> BinFields,
   Pmr |-> Fields("U2", <<"pin_idx", "chan_typ">>)
             \o Fields("Cn", <<"chan_nam", "phy_nam", "log_nam">>)
             \o <<Field("head_num", "U1", "pair", 0), Field("site_num", "U1", "pair", 0)>>,
   Wir |-> Fields("U1", <<"head_num", "site_grp">>) \o Fields("U4", <<"start_t">>)
             \o Fields("Cn", <<"wafer_id">>),
   Wrr |-> Fields("U1", <<"head_num", "site_grp">>) \o Fields("U4", <<"finish_t">>)
             \o CountFields \o Fields("Cn", <<"wafer_id">>)
             \o Trailing("Cn", <<"fabwf_id", "frame_id", "mask_id", "usr_desc", "exc_desc">>),
   Wcr |-> Fields("R4", <<"wafr_siz", "die_ht", "die_wid">>)
             \o Fields("U1", <<"wf_units", "wf_flat">>) \o Fields("I2", <<"center_x", "center_y">>)
             \o Fields("U1", <<"pos_x", "pos_y">>),
   Ptr |-> Fields("U4", <<"test_num">>)
             \o Fields("U1", <<"head_num", "site_num", "test_flg", "parm_flg">>)
             \o Fields("R4", <<"result">>) \o Fields("Cn", <<"test_txt", "alarm_id">>)
             \o <<Field("opt_flg", "U1", "parm", 16)>> \o PtrOptions
             \o Trailing("Cn", <<"units">>),
   Ftr |-> Fields("U4", <<"test_num">>)
             \o Fields("U1", <<"head_num", "site_num", "test_flg", "opt_flg">>)
             \o Fields("U4", <<"cycl_cnt", "rel_vpos", "rept_cnt", "num_fail">>)
             \o Fields("I2", <<"x_fail_adj", "y_fail_adj", "vect_offset">>)
             \o Fields("U2", <<"rtn_icq", "rtn_ilim", "pgm_icq", "pgm_ilim">>)
             \o Fields("Sn", <<"rtn_nam", "pgm_nam">>)
             \o <<Field("alarm_id", "Cn", "alarm", 1), Field("opt_flg_2", "U1", "flg2", 0),
                  Field("program", "Nn", "ftr", 2), Field("test_label", "Nn", "ftr", 4)>>,
   Tsr |-> Fields("U1", <<"head_num", "site_num", "test_typ">>)
             \o Fields("U4", <<"test_num", "exec_cnt", "fail_cnt", "alarm_cnt">>)
             \o Trailing("Cn", <<"test_nam", "seq_name", "test_lbl">>),
   Gdr |-> Fields("Kn", <<"gen_data">>),
   Dtr |-> Fields("Cn", <<"text_dat">>),
   Bps |-> <<>>,
   Eps |-> <<>>,
   Unknown |-> Fields("Rest", <<"data">>)]

Types == DOMAIN Layout
NamesOf(typ) == {Layout[typ][i].name : i \in DOMAIN Layout[typ]}

Bit(flags, bit) == (flags[1] \div bit) % 2 = 1

----------------------------------------------------------------------------
(* Record::encode                                                          *)

\* Which optional fields are written.
OptionWritten(field, r) ==
  CASE field.when = "pair" -> r.head_num # None /\ r.site_num # None
    [] field.when = "parm" -> r.opt_flg # None
    [] field.when = "unless" ->
         r.opt_flg # None /\ ~Bit(r.opt_flg, field.bit) /\ r[field.name] # None
    [] field.when \in {"alarm", "flg2"} -> r.alarm_id # None
    [] field.when = "ftr" ->
         /\ r.alarm_id # None /\ r[field.name] # None
         /\ (r.opt_flg_2 = None \/ ~Bit(r.opt_flg_2, field.bit))
    [] OTHER -> FALSE

\* Variant for a sensitivity check: an empty text at the end is left out.
WrittenUnlessEmpty(field, r) ==
  \/ field.when = "always"
  \/ field.when = "more" /\ r[field.name] # <<>>
  \/ OptionWritten(field, r)

Written(field, r) == field.when \in {"always", "more"} \/ OptionWritten(field, r)

\* opt_flg_2.unwrap_or(0)
ValueWritten(field, r) ==
  IF field.when = "flg2" /\ r.opt_flg_2 = None THEN <<0>> ELSE r[field.name]

\* Encoding panics on a field that is too long.
Encodes(typ, r) ==
  \A i \in DOMAIN Layout[typ] :
    LET field == Layout[typ][i]
    IN Written(field, r) => Fits(field.kind, ValueWritten(field, r))

FieldBytes(field, r) ==
  IF Written(field, r) THEN Write(field.kind, ValueWritten(field, r)) ELSE <<>>

Body(typ, r) ==
  LET bytes[i \in 0 .. Len(Layout[typ])] ==
        IF i = 0 THEN <<>> ELSE bytes[i - 1] \o FieldBytes(Layout[typ][i], r)
  IN bytes[Len(Layout[typ])]

\* body.len() as u16
RecLen(typ, r) == Len(Body(typ, r)) % LengthMod

\* The body a reader takes from a file for the record: REC_LEN bytes.
BodyInFile(typ, r) == SubSeq(Body(typ, r), 1, RecLen(typ, r))

----------------------------------------------------------------------------
(* Record::parse                                                           *)

\* Which fields are looked for, given those before and the bytes left.
Sought(field, r, rest) ==
  CASE field.when = "always" -> TRUE
    [] field.when = "pair" ->
         IF field.name = "site_num" THEN r.head_num # None ELSE rest # <<>>
    [] field.when = "more" -> rest # <<>>
    [] field.when = "parm" -> rest # <<>> /\ Bit(r.parm_flg, field.bit)
    [] field.when = "unless" ->
         rest # <<>> /\ r.opt_flg # None /\ ~Bit(r.opt_flg, field.bit)
    [] field.when = "alarm" -> rest # <<>> /\ Bit(r.opt_flg, field.bit)
    [] field.when = "flg2" -> rest # <<>> /\ r.alarm_id # None
    [] field.when = "ftr" ->
         rest # <<>> /\ r.alarm_id # None /\ ~Bit(r.opt_flg_2, field.bit)

\* What a field that is not looked for holds.
Missing(field, r) ==
  CASE field.when = "more" -> <<>>
    [] field.when = "flg2" /\ r.alarm_id # None -> <<0>>
    [] OTHER -> None

AfterField(got, field) ==
  LET r == got.value
      taken == IF Sought(field, r, got.rest) THEN Read(field.kind, got.rest)
               ELSE [ok |-> TRUE, value |-> Missing(field, r), rest |-> got.rest]
  IN IF ~got.ok \/ ~taken.ok THEN Eof
     ELSE [ok |-> TRUE, rest |-> taken.rest,
           value |-> [name \in DOMAIN r \cup {field.name} |->
                        IF name = field.name THEN taken.value ELSE r[name]]]

Parse(typ, body) ==
  LET got[i \in 0 .. Len(Layout[typ])] ==
        IF i = 0 THEN [ok |-> TRUE, rest |-> body, value |-> [name \in {} |-> None]]
        ELSE AfterField(got[i - 1], Layout[typ][i])
  IN got[Len(Layout[typ])]

----------------------------------------------------------------------------
(* What the codec guarantees                                               *)

\* The records whose fields agree with their flags, and with each other: what
\* is missing is what the flags say is missing, or what a body ends before.
Canonical(typ, r) ==
  CASE typ = "Pmr" -> (r.head_num = None) <=> (r.site_num = None)
    [] typ = "Ptr" ->
         /\ (r.opt_flg # None) <=> Bit(r.parm_flg, 16)
         /\ \A i \in DOMAIN PtrOptions :
              (r[PtrOptions[i].name] # None) <=>
                (r.opt_flg # None /\ ~Bit(r.opt_flg, PtrOptions[i].bit))
    [] typ = "Ftr" ->
         IF r.alarm_id = None
         THEN r.opt_flg_2 = None /\ r.program = None /\ r.test_label = None
         ELSE /\ Bit(r.opt_flg, 1)
              /\ r.opt_flg_2 # None
              /\ r.program # None => ~Bit(r.opt_flg_2, 2)
              /\ r.test_label # None =>
                   ~Bit(r.opt_flg_2, 4) /\ (r.program # None \/ Bit(r.opt_flg_2, 2))
    [] OTHER -> TRUE

\* What a field of each kind can hold.  A text is UTF-8.
Values(kind) ==
  CASE kind \in {"Cn", "Nn"} -> Seq(Byte \ {NotUtf8})
    [] kind \in {"Kn", "Rest"} -> Seq(Byte)
    [] kind = "Sn" -> Seq(Seq(Byte \ {NotUtf8}))
    [] OTHER -> [1 .. Width(kind) -> Byte]

IsOption(field) == field.when \notin {"always", "more"}

\* The records a program can make.
IsRecord(typ, r) ==
  /\ r = [name \in NamesOf(typ) |-> r[name]]
  /\ \A i \in DOMAIN Layout[typ] :
       LET field == Layout[typ][i]
       IN r[field.name] \in Values(field.kind) \/ (IsOption(field) /\ r[field.name] = None)

\* A record that is written and read back is the same record exactly if its
\* fields agree with its flags and its length is one that REC_LEN can hold.
\* The code accepts any record, and says nothing when it comes back another.
RoundTrips(typ, r) ==
  LET read == Parse(typ, BodyInFile(typ, r))
  IN Encodes(typ, r) =>
       ((read.ok /\ read.value = r) <=> (Canonical(typ, r) /\ Len(Body(typ, r)) < LengthMod))

\* Reading and writing back only trims or completes a body without foreign
\* bytes: what comes after the last known field is lost, a body that ends early
\* is filled up with empty fields, and every byte in between stays.  What is
\* written, if REC_LEN can hold it, is read as the same record from then on, but
\* for a PTR that ends before fields which its flags announce: the empty UNITS
\* that is added may be read as the first of them.
RewriteOnlyTrims(typ, body) ==
  LET r == Parse(typ, body).value
      again == Body(typ, r)
  IN Parse(typ, body).ok =>
       /\ IsUtf8(body) =>
            /\ Encodes(typ, r)
            /\ \/ IsPrefix(again, body)
               \/ /\ IsPrefix(body, again)
                  /\ \A i \in Len(body) + 1 .. Len(again) : again[i] = 0
       /\ Encodes(typ, r) /\ Len(again) < LengthMod =>
            \/ Parse(typ, again).ok /\ Parse(typ, again).value = r
            \/ /\ typ = "Ptr" /\ ~Canonical(typ, r) /\ r.units = <<>>
               /\ IsUtf8(body) => again = Append(body, 0)
=============================================================================
