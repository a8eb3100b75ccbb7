----------------------------- MODULE StdfStream -----------------------------
(***************************************************************************)
(* An STDF file between its writer and its reader: StdfWriter::write and   *)
(* StdfReader::read_all (src/tpt-ate-test/src/stdf/writer.rs, reader.rs)   *)
(* over byte streams that fail as std::io::Write and Read allow.           *)
(*                                                                         *)
(* A byte is the record it was encoded from and its place in it.  What the *)
(* code makes of bytes that do not stand where they were put is left open: *)
(* such a header has any type and length, such a body parses as some other *)
(* record or fails.  What it makes of a record's own body is a constant:   *)
(* a PTR or FTR whose flags and optional fields disagree is read as        *)
(* another record, or is not read at all.                                  *)
(***************************************************************************)
EXTENDS Integers, Sequences, SequencesExt

CONSTANTS
  Names,         \* records other than FAR
  BodyLengthOf,  \* the length of each one's encoded body
  ReadsAs,       \* what each one's own body is read as
  LenMod,        \* number of values of a header's REC_LEN (2^16)
  MaxWrites,     \* bound: calls of write
  MaxFaults      \* bound: reads that end in an error

ASSUME LengthAssumption == BodyLengthOf \in [Names -> Nat]
ASSUME ReadsAssumption == ReadsAs \in [Names -> {"itself", "another", "nothing"}]
ASSUME ModulusAssumption == LenMod \in Nat /\ LenMod > 2
ASSUME BoundAssumption == MaxWrites \in Nat /\ MaxFaults \in Nat

VARIABLES
  phase,     \* "writing", "header", "body", or how read_all ended
  file,      \* the bytes on disk
  wroteFar,  \* StdfWriter::wrote_far
  calls,     \* history: the record of each call of write, and its result
  pos,       \* bytes the reader has consumed
  sawFar,    \* StdfReader::saw_far
  endian,    \* StdfReader::endian
  header,    \* the header of the record being read
  body,      \* the bytes of its body read so far
  readBack,  \* the records read_all has collected
  faults     \* reads that have ended in an error

writerVars == <<file, wroteFar, calls>>
readerVars == <<pos, sawFar, endian, header, body, readBack, faults>>
vars == <<phase, writerVars, readerVars>>

----------------------------------------------------------------------------
(* Records and their bytes                                                 *)

Far(cpu) == [typ |-> "Far", of |-> cpu]
Data(name) == [typ |-> "Data", of |-> name]

Record == {Far(cpu) : cpu \in {"X86", "M68000"}} \cup {Data(name) : name \in Names}

\* What bytes of other records parse as, if they parse.
Garbled == [typ |-> "Garbled"]

IsFar(r) == r.typ = "Far"
BodyLength(r) == IF IsFar(r) THEN 2 ELSE BodyLengthOf[r.of]

HeaderLength == 4

\* Record::encode: REC_LEN, REC_TYP, REC_SUB, then the body.
Encode(r) == [at \in 1 .. HeaderLength + BodyLength(r) |-> [rec |-> r, at |-> at]]

\* Variant for a sensitivity check: the length is wider than REC_LEN.
WideLength(r) == BodyLength(r)

\* The bytes of some records, one after the other.
EncodeAll(records) == FlattenSeq([i \in DOMAIN records |-> Encode(records[i])])

\* What Record::parse makes of the record's own body, and the record that
\* read_all then returns.
ParsesAs(r) == IF IsFar(r) THEN "itself" ELSE ReadsAs[r.of]
Reread(r) == IF ParsesAs(r) = "another" THEN Garbled ELSE r

\* body.len() as u16
RecLen(r) == BodyLength(r) % LenMod

HeaderBytes(r) == SubSeq(Encode(r), 1, HeaderLength)
BodyBytes(r) == SubSeq(Encode(r), HeaderLength + 1, HeaderLength + BodyLength(r))

NoHeader == [rec |-> Garbled, far |-> FALSE, len |-> 0]

\* What four bytes say as a header.
Headers(bytes) ==
  IF \E r \in Record : bytes = HeaderBytes(r)
  THEN LET r == bytes[1].rec
       IN {[rec |-> r, far |-> IsFar(r), len |-> RecLen(r)]}
  ELSE [rec : {Garbled}, far : BOOLEAN, len : 0 .. LenMod - 1]

Init ==
  /\ phase = "writing"
  /\ file = <<>>
  /\ wroteFar = FALSE
  /\ calls = <<>>
  /\ pos = 0
  /\ sawFar = FALSE
  /\ endian = "X86"
  /\ header = NoHeader
  /\ body = <<>>
  /\ readBack = <<>>
  /\ faults = 0

----------------------------------------------------------------------------
(* The writer                                                              *)

\* Variant for a sensitivity check: wrote_far is never looked at.
FarAlways(r) == IF IsFar(r) THEN Encode(r) ELSE Encode(Far("X86")) \o Encode(r)

\* What one call of write writes: the first call puts a FAR in front unless
\* the record is one.
ToWrite(r) == IF wroteFar \/ IsFar(r) THEN Encode(r) ELSE Encode(Far("X86")) \o Encode(r)

Calls(r, ok) ==
  /\ phase = "writing"
  /\ Len(calls) < MaxWrites
  /\ wroteFar' = TRUE
  /\ calls' = Append(calls, [rec |-> r, ok |-> ok])

WriteOk(r) ==
  /\ Calls(r, TRUE)
  /\ file' = file \o ToWrite(r)
  /\ UNCHANGED <<phase, readerVars>>

\* A failed write has written any part of the bytes, and all of them when it
\* is the flush that fails; wrote_far is set before the first byte.
WriteFails(r) ==
  /\ Calls(r, FALSE)
  /\ \E n \in 0 .. Len(ToWrite(r)) : file' = file \o SubSeq(ToWrite(r), 1, n)
  /\ UNCHANGED <<phase, readerVars>>

\* The writer is dropped; a crash during a write is a failed write before.
Closes ==
  /\ phase = "writing"
  /\ phase' = "header"
  /\ UNCHANGED <<writerVars, readerVars>>

----------------------------------------------------------------------------
(* The reader                                                              *)

Available == Len(file) - pos

\* read fills any part of the buffer, but some of it.
ReadSizes(wanted) == 1 .. (IF wanted < Available THEN wanted ELSE Available)

EndsWith(result) ==
  /\ phase' = result
  /\ UNCHANGED <<writerVars, sawFar, endian, header, body, readBack>>

\* Ok(0) on the header: next_record returns None and read_all returns.
ReadsEnd ==
  /\ phase = "header"
  /\ Available = 0
  /\ EndsWith("end")
  /\ UNCHANGED <<pos, faults>>

\* Variant for a sensitivity check: a short header is taken for the end.
ShortHeaderEnds ==
  /\ phase = "header"
  /\ \E n \in ReadSizes(HeaderLength) : n < HeaderLength /\ pos' = pos + n
  /\ EndsWith("end")
  /\ UNCHANGED faults

\* The header is read with one call of read.
ShortHeader ==
  /\ phase = "header"
  /\ \E n \in ReadSizes(HeaderLength) : n < HeaderLength /\ pos' = pos + n
  /\ EndsWith("error")
  /\ UNCHANGED faults

\* The whole header; the first one must be a FAR's.
ReadsHeader ==
  /\ phase = "header"
  /\ Available >= HeaderLength
  /\ pos' = pos + HeaderLength
  /\ header' \in Headers(SubSeq(file, pos + 1, pos + HeaderLength))
  /\ phase' = IF sawFar \/ header'.far THEN "body" ELSE "error"
  /\ body' = <<>>
  /\ UNCHANGED <<writerVars, sawFar, endian, readBack, faults>>

\* An interrupted read of the header is taken for the end of the file.
Interrupted ==
  /\ phase = "header"
  /\ faults < MaxFaults
  /\ faults' = faults + 1
  /\ EndsWith("end")
  /\ UNCHANGED pos

\* Any other failing read is passed on, and so is an interrupted one inside
\* a body.
ReadFails ==
  /\ phase \in {"header", "body"}
  /\ phase = "body" => Len(body) < header.len
  /\ faults < MaxFaults
  /\ faults' = faults + 1
  /\ EndsWith("error")
  /\ UNCHANGED pos

\* Variant for a sensitivity check: the body is read with one call of read.
BodyReadOnce ==
  /\ phase = "body"
  /\ \E n \in ReadSizes(header.len - Len(body)) :
       /\ pos' = pos + n
       /\ body' = body \o SubSeq(file, pos + 1, pos + n)
  /\ phase' = IF Len(body') < header.len THEN "error" ELSE "body"
  /\ UNCHANGED <<writerVars, sawFar, endian, header, readBack, faults>>

ReadsBody ==
  /\ phase = "body"
  /\ \E n \in ReadSizes(header.len - Len(body)) :
       /\ pos' = pos + n
       /\ body' = body \o SubSeq(file, pos + 1, pos + n)
  /\ UNCHANGED <<phase, writerVars, sawFar, endian, header, readBack, faults>>

\* The file ends inside the body: StdfError::UnexpectedEof.
BodyCut ==
  /\ phase = "body"
  /\ Len(body) < header.len
  /\ Available = 0
  /\ EndsWith("error")
  /\ UNCHANGED <<pos, faults>>

\* The CPU_TYPE a FAR's first byte gives; no body leaves it as it is.
CpuTypes ==
  IF header.len = 0 THEN {endian}
  ELSE IF header.rec # Garbled /\ body = BodyBytes(header.rec) THEN {header.rec.of}
  ELSE {"X86", "M68000"}

BodyRead == Len(body) = header.len

\* The bytes are those of the record the header is of, in its byte order: the
\* writer always encodes little-endian, whatever the FAR says.
Intact(order) ==
  /\ header.rec # Garbled
  /\ body = BodyBytes(header.rec)
  /\ header.far \/ order = "X86"

\* Record::parse: an intact body is read as what it is always read as; any
\* other as another record, or it ends too early.
Outcomes(order) ==
  IF Intact(order) THEN {ParsesAs(header.rec)} ELSE {"another", "nothing"}

Parses ==
  /\ phase = "body"
  /\ BodyRead
  /\ sawFar' = (sawFar \/ header.far)
  /\ IF header.far THEN endian' \in CpuTypes ELSE UNCHANGED endian
  /\ \E outcome \in Outcomes(endian') :
       IF outcome = "nothing"
       THEN phase' = "error" /\ UNCHANGED readBack
       ELSE /\ phase' = "header"
            /\ readBack' = Append(readBack, IF outcome = "itself" THEN header.rec ELSE Garbled)
  /\ UNCHANGED <<writerVars, pos, header, body, faults>>

Next ==
  \/ \E r \in Record : WriteOk(r) \/ WriteFails(r)
  \/ Closes
  \/ ReadsEnd \/ ShortHeader \/ ReadsHeader \/ Interrupted \/ ReadFails
  \/ ReadsBody \/ BodyCut \/ Parses

Spec == Init /\ [][Next]_vars

----------------------------------------------------------------------------
(* What a file guarantees                                                  *)

\* Every variable keeps its type; a header's length fits REC_LEN.
TypeOK ==
  /\ phase \in {"writing", "header", "body", "end", "error"}
  /\ wroteFar \in BOOLEAN
  /\ calls \in Seq([rec : Record, ok : BOOLEAN])
  /\ pos \in 0 .. Len(file)
  /\ sawFar \in BOOLEAN
  /\ endian \in {"X86", "M68000"}
  /\ header \in [rec : Record \cup {Garbled}, far : BOOLEAN, len : 0 .. LenMod - 1]
  /\ Len(body) <= header.len
  /\ readBack \in Seq(Record \cup {Garbled})
  /\ faults \in 0 .. MaxFaults

\* The records the caller asked for, with the FAR the writer adds.
Asked ==
  LET records == [i \in DOMAIN calls |-> calls[i].rec]
  IN IF records = <<>> \/ IsFar(Head(records)) THEN records ELSE <<Far("X86")>> \o records

\* A caller that stops at the first failed write.
StopsAtFailure == \A i \in DOMAIN calls : ~calls[i].ok => i = Len(calls)

\* No FAR declares an order the writer does not write, and no body is longer
\* than REC_LEN can say.  The writer checks neither.
Representable ==
  \A i \in DOMAIN calls : calls[i].rec # Far("M68000") /\ BodyLength(calls[i].rec) < LenMod

\* However a write failed and however the bytes come in, what is read are the
\* first records that were written, each in its place and as what its own
\* body is read as: no body costs a later record its bytes.
ReadIsPrefix ==
  (StopsAtFailure /\ Representable) =>
    IsPrefix(readBack, [i \in DOMAIN Asked |-> Reread(Asked[i])])

\* A cut file is never taken for a whole one: if read_all succeeds without an
\* interrupted read, every byte of the file is a byte of a record it has read,
\* so nothing whose write succeeded is missing.
CutIsNoticed ==
  (StopsAtFailure /\ Representable /\ phase = "end" /\ faults = 0) =>
    /\ file = EncodeAll(SubSeq(Asked, 1, Len(readBack)))
    /\ \A i \in DOMAIN calls : calls[i].ok => i <= Len(readBack)

\* A file written and read without a failure is refused for two reasons only.
\* Either next_record has been given a part of a header by its one call of
\* read (a BufReader does so at the end of its buffer); or the reader is
\* behind a record that was written with success and that Record::parse takes
\* for one that ends too early, and no record after it can be read.
RefusalsHaveReasons ==
  (/\ Representable /\ \A i \in DOMAIN calls : calls[i].ok
   /\ phase = "error" /\ faults = 0) =>
    LET done == Len(readBack)
        ahead == pos - Len(EncodeAll(SubSeq(Asked, 1, done)))
    IN \/ ahead \in 1 .. HeaderLength - 1
       \/ /\ done < Len(Asked) /\ ParsesAs(Asked[done + 1]) = "nothing"
          /\ ahead = Len(Encode(Asked[done + 1]))
=============================================================================
