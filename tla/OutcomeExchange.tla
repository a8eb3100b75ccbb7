--------------------------- MODULE OutcomeExchange ---------------------------
(***************************************************************************)
(* Outcome reports exchanged as files: JsonOutcomeFile                     *)
(* (src/tpt-ate-aggregate/src/file.rs) on both sides, the schema's version *)
(* rule (schema.rs) and the RecordingIngestor (ingest.rs).                 *)
(*                                                                         *)
(* A report is written in place, under its final name and piece by piece,  *)
(* and read piece by piece; nothing keeps a reader or a second writer out. *)
(* A file is a sequence of pieces of reports' texts, and may also have     *)
(* come to its path without the writer, which alone looks at the consent.  *)
(* The ingestor is a list behind a mutex, which whoever inspects the list  *)
(* holds too.                                                              *)
(***************************************************************************)
EXTENDS Integers, Sequences

CONSTANTS
  Reports,      \* OutcomeReports that anyone may try to exchange
  Consent,      \* consent of each report
  Version,      \* schema_version of each report, as [major, minor]
  Supported,    \* supported_schema of the reading side
  Finite,       \* reports all of whose numbers JSON can represent
  Paths, Writers, Readers,
  Pieces,       \* pieces a text is written in
  MaxWrites,    \* bound: files written, cut or carried in by hand
  MaxReads,     \* bound: calls of read_outcome_file
  MaxInspections  \* bound: calls of RecordingIngestor::received

ASSUME ReportAssumption ==
  /\ {"none", "error"} \cap Reports = {}
  /\ Consent \in [Reports -> {"PrivateBilateral", "AggregatedContribution", "NoSharing"}]
  /\ Version \in [Reports -> [major : Nat, minor : Nat]]
  /\ Supported \in [major : Nat, minor : Nat]
  /\ Finite \subseteq Reports
ASSUME BoundAssumption ==
  Pieces \in Nat \ {0} /\ {MaxWrites, MaxReads, MaxInspections} \subseteq Nat

VARIABLES
  disk,       \* the files there are, by path
  write,      \* the write each writer is inside of
  read,       \* the last read of each reader and what became of it
  guard,      \* whether an inspector holds the ingestor's mutex
  poisoned,   \* whether one has panicked with it
  received,   \* RecordingIngestor::received
  published,  \* history: reports of which a file has been begun
  carried,    \* history: reports of which a file came without the writer
  overlapped, \* history: paths two have been writing to since they were last truncated
  writes, reads, inspections

files == <<disk, published, carried, overlapped>>
ingestor == <<guard, poisoned, received, inspections>>
vars == <<files, write, read, ingestor, writes, reads>>

----------------------------------------------------------------------------
(* Texts                                                                   *)

Text(report) == [i \in 1 .. Pieces |-> <<report, i>>]

\* What a file holds where nothing was written, behind its old end.
Hole == <<"hole", 0>>

Piece == (Reports \X (1 .. Pieces)) \cup {Hole}

\* A report that was never written: pieces of several texts that happen to
\* make one.
Mixed == "mixed"

MayParseAsMixed(text) ==
  /\ text # <<>>
  /\ Hole \notin {text[i] : i \in DOMAIN text}
  /\ text[1][2] = 1 /\ text[Len(text)][2] = Pieces

\* Variant for a sensitivity check: the majors are not compared.
MinorOnly(version) == version.minor <= Supported.minor

\* SchemaVersion::is_readable_by
IsReadable(version) ==
  version.major = Supported.major /\ version.minor <= Supported.minor

Readable == {report \in Finite : IsReadable(Version[report])}

\* serde_json::from_str and the version check.  A cut text is not JSON; a
\* number that is not finite was written as null, which is not a number.
Results(text) ==
  LET whole == {report \in Reports : text = Text(report)}
  IN IF whole # {} THEN IF whole \subseteq Readable THEN whole ELSE {"error"}
     ELSE IF MayParseAsMixed(text) THEN {Mixed, "error"}
     ELSE {"error"}

----------------------------------------------------------------------------
(* Files                                                                   *)

NoWrite == [report |-> "none", path |-> "none", next |-> 1]
NoRead == [phase |-> "idle", path |-> "none", from |-> <<>>, text |-> <<>>,
           disturbed |-> FALSE, result |-> "none"]

WritersOf(path) == {w \in Writers : write[w].path = path}

\* The file at path now holds text: readers inside it have read an older one.
Holds(path, text) ==
  /\ disk' = [p \in DOMAIN disk \cup {path} |-> IF p = path THEN text ELSE disk[p]]
  /\ read' = [k \in Readers |->
                IF read[k].phase = "reading" /\ read[k].path = path
                THEN [read[k] EXCEPT !.disturbed = TRUE, !.from = <<>>] ELSE read[k]]

\* A piece written at its offset, which may lie behind the end of a file that
\* was truncated since.
Put(text, i, piece) ==
  [j \in 1 .. (IF i > Len(text) THEN i ELSE Len(text)) |->
     IF j = i THEN piece ELSE IF j <= Len(text) THEN text[j] ELSE Hole]

Init ==
  /\ disk = [p \in {} |-> <<>>]
  /\ write = [w \in Writers |-> NoWrite]
  /\ read = [k \in Readers |-> NoRead]
  /\ guard = "free" /\ poisoned = FALSE
  /\ received = <<>>
  /\ published = {} /\ carried = {} /\ overlapped = {}
  /\ writes = 0 /\ reads = 0 /\ inspections = 0

----------------------------------------------------------------------------
(* write_outcome_file                                                      *)

\* Only the consent is looked at; nobody but this check does so.
MayLeave(report) == Consent[report] # "NoSharing"

\* Err(ConsentForbidsSharing), before anything is serialized.
RefusesToShare(report) ==
  /\ writes < MaxWrites
  /\ ~MayLeave(report)
  /\ writes' = writes + 1
  /\ UNCHANGED <<files, write, read, ingestor, reads>>

\* A file is begun at path: nobody else writes to it, or two do now.
Begins(path) ==
  overlapped' = IF WritersOf(path) # {} THEN overlapped \cup {path} ELSE overlapped \ {path}

\* Variant for a sensitivity check: an older file is not truncated.
OverwritesFile(w, report, path) ==
  /\ writes < MaxWrites /\ writes' = writes + 1
  /\ write[w] = NoWrite
  /\ MayLeave(report)
  /\ write' = [write EXCEPT ![w] = [report |-> report, path |-> path, next |-> 1]]
  /\ Holds(path, IF path \in DOMAIN disk THEN disk[path] ELSE <<>>)
  /\ Begins(path)
  /\ published' = published \cup {report}
  /\ UNCHANGED <<carried, ingestor, reads>>

\* std::fs::write creates the file or truncates it.
CreatesFile(w, report, path) ==
  /\ writes < MaxWrites /\ writes' = writes + 1
  /\ write[w] = NoWrite
  /\ MayLeave(report)
  /\ write' = [write EXCEPT ![w] = [report |-> report, path |-> path, next |-> 1]]
  /\ Holds(path, <<>>)
  /\ Begins(path)
  /\ published' = published \cup {report}
  /\ UNCHANGED <<carried, ingestor, reads>>

\* Variant for a sensitivity check: a piece too many.
OnePieceMore(w) == write[w] # NoWrite /\ write[w].next <= Pieces + 1

MoreToWrite(w) == write[w] # NoWrite /\ write[w].next <= Pieces

WritesPiece(w) ==
  LET path == write[w].path
      i == write[w].next
  IN /\ MoreToWrite(w)
     /\ Holds(path, Put(disk[path], i, <<write[w].report, i>>))
     /\ write' = [write EXCEPT ![w].next = i + 1]
     /\ UNCHANGED <<published, carried, overlapped, ingestor, writes, reads>>

\* write_outcome_file returns: Ok, or in the midst of it an I/O error or the
\* end of the process, which leaves a part of the text under the final name.
WriteEnds(w) ==
  /\ write[w] # NoWrite
  /\ write' = [write EXCEPT ![w] = NoWrite]
  /\ UNCHANGED <<files, read, ingestor, writes, reads>>

----------------------------------------------------------------------------
(* read_outcome_file and ingest                                            *)

\* std::fs::read_to_string opens the file; the reader is between two reads.
OpensFile(k, path) ==
  /\ reads < MaxReads /\ reads' = reads + 1
  /\ read[k].phase \in {"idle", "failed"}
  /\ read' = [read EXCEPT ![k] =
       IF path \in DOMAIN disk
       THEN [NoRead EXCEPT !.phase = "reading", !.path = path, !.from = disk[path],
                           !.disturbed = path \in overlapped]
       ELSE [NoRead EXCEPT !.phase = "failed"]]
  /\ UNCHANGED <<files, write, ingestor, writes>>

Reading(k) == read[k].phase = "reading"
Rest(k) == Len(disk[read[k].path]) - Len(read[k].text)

ReadsPiece(k) ==
  /\ Reading(k)
  /\ Rest(k) > 0
  /\ LET at == Len(read[k].text)
     IN \E n \in 1 .. Rest(k) :
          read' = [read EXCEPT ![k].text = @ \o SubSeq(disk[read[k].path], at + 1, at + n)]
  /\ UNCHANGED <<files, write, ingestor, writes, reads>>

\* The end of the file, or what has become of it: parse, check the version.
ReadsEnd(k) ==
  /\ Reading(k)
  /\ Rest(k) <= 0
  /\ \E result \in Results(read[k].text) :
       read' = [read EXCEPT ![k] =
                  [NoRead EXCEPT !.result = result,
                                 !.phase = IF result = "error" THEN "failed" ELSE "parsed"]]
  /\ UNCHANGED <<files, write, ingestor, writes, reads>>

\* An I/O error; the text read so far is dropped.
ReadFails(k) ==
  /\ Reading(k)
  /\ read' = [read EXCEPT ![k] = [NoRead EXCEPT !.phase = "failed"]]
  /\ UNCHANGED <<files, write, ingestor, writes, reads>>

\* RecordingIngestor::ingest pushes the report; the lock is held no longer.
Pushes(k) ==
  /\ read[k].phase = "parsed"
  /\ guard = "free" /\ ~poisoned
  /\ received' = Append(received, read[k].result)
  /\ read' = [read EXCEPT ![k] = [NoRead EXCEPT !.phase = "pushed"]]
  /\ UNCHANGED <<files, write, guard, poisoned, inspections, writes, reads>>

\* It returns Ok, maybe after reports that were pushed later.
IngestReturns(k) ==
  /\ read[k].phase = "pushed"
  /\ read' = [read EXCEPT ![k] = NoRead]
  /\ UNCHANGED <<files, write, ingestor, writes, reads>>

\* expect("ingestor mutex")
IngestPanics(k) ==
  /\ read[k].phase = "parsed"
  /\ guard = "free" /\ poisoned
  /\ read' = [read EXCEPT ![k] = [NoRead EXCEPT !.phase = "panicked"]]
  /\ UNCHANGED <<files, write, ingestor, writes, reads>>

----------------------------------------------------------------------------
(* RecordingIngestor::received                                             *)

\* The caller holds the guard; on a poisoned mutex it panics instead.
Inspects ==
  /\ inspections < MaxInspections /\ inspections' = inspections + 1
  /\ guard = "free" /\ ~poisoned
  /\ guard' = "held"
  /\ UNCHANGED <<files, write, read, poisoned, received, writes, reads>>

\* Variant for a sensitivity check: the guard is forgotten, not dropped.
ForgetsGuard ==
  /\ guard = "held"
  /\ poisoned' = TRUE
  /\ UNCHANGED <<files, write, read, guard, received, inspections,
                 writes, reads>>

\* The guard is dropped, by a panic of its holder (a failed assertion) or not.
ReleasesGuard ==
  /\ guard = "held"
  /\ guard' = "free"
  /\ poisoned' \in BOOLEAN
  /\ UNCHANGED <<files, write, read, received, inspections,
                 writes, reads>>

----------------------------------------------------------------------------
(* What happens to files on their way                                      *)

\* Power fails: no write was synced, so any part of a file may be left.
CutsFile(path) ==
  /\ writes < MaxWrites /\ writes' = writes + 1
  /\ path \in DOMAIN disk
  /\ \E n \in 0 .. Len(disk[path]) - 1 : Holds(path, SubSeq(disk[path], 1, n))
  /\ write' = [w \in Writers |-> IF w \in WritersOf(path) THEN NoWrite ELSE write[w]]
  /\ UNCHANGED <<published, carried, overlapped, ingestor, reads>>

\* A report's text, all of it or the first part, comes to the path without
\* write_outcome_file: by hand, or by another program.
CarriesIn(report, path) ==
  /\ writes < MaxWrites /\ writes' = writes + 1
  /\ \E n \in 0 .. Pieces : Holds(path, SubSeq(Text(report), 1, n))
  /\ Begins(path)
  /\ carried' = carried \cup {report}
  /\ UNCHANGED <<published, write, ingestor, reads>>

----------------------------------------------------------------------------
(* The specification                                                       *)

WriterStep(w) == WritesPiece(w) \/ WriteEnds(w)

ReaderStep(k) ==
  \/ ReadsPiece(k) \/ ReadsEnd(k) \/ ReadFails(k)
  \/ Pushes(k) \/ IngestReturns(k) \/ IngestPanics(k)

Next ==
  \/ \E report \in Reports : RefusesToShare(report)
  \/ \E w \in Writers, report \in Reports, path \in Paths : CreatesFile(w, report, path)
  \/ \E w \in Writers : WriterStep(w)
  \/ \E k \in Readers, path \in Paths : OpensFile(k, path)
  \/ \E k \in Readers : ReaderStep(k)
  \/ Inspects
  \/ ReleasesGuard
  \/ \E path \in Paths : CutsFile(path)
  \/ \E report \in Reports, path \in Paths : CarriesIn(report, path)

\* Readers are scheduled, and who inspects the list does not keep it.
Fairness == (\A k \in Readers : WF_vars(ReaderStep(k))) /\ WF_vars(ReleasesGuard)

Spec == Init /\ [][Next]_vars /\ Fairness

----------------------------------------------------------------------------
(* What the exchange guarantees                                            *)

\* Every variable keeps its type; what a file holds are pieces of reports.
TypeOK ==
  /\ DOMAIN disk \subseteq Paths
  /\ \A path \in DOMAIN disk : disk[path] \in Seq(Piece)
  /\ \A w \in Writers : write[w] = NoWrite \/ MayLeave(write[w].report)
  /\ \A k \in Readers :
       /\ read[k].phase \in {"idle", "reading", "parsed", "pushed", "failed", "panicked"}
       /\ read[k].text \in Seq(Piece) /\ read[k].from \in Seq(Piece)
       /\ read[k].phase = "parsed" <=> read[k].result \in Readable \cup {Mixed}
  /\ guard \in {"free", "held"}
  /\ poisoned \in BOOLEAN
  /\ received \in Seq(Readable \cup {Mixed})
  /\ published \subseteq Reports /\ carried \subseteq Reports

\* A reader that nobody disturbs gets what was in the file when it opened it,
\* and nothing else: the report if the file holds the whole text of a readable
\* one, and an error for a cut text or an unreadable version, never another
\* report.
UndisturbedReadIsFaithful ==
  [][\A k \in Readers :
       (Reading(k) /\ ~read[k].disturbed /\ read'[k].result # "none") =>
         LET whole == {report \in Readable : read[k].from = Text(report)}
         IN IF whole = {} THEN read'[k].result = "error" ELSE read'[k].result \in whole]_vars

\* Every read that has begun ends, also one whose ingest must wait for the
\* list: with an error, a panic, or the ingest's Ok.
ReadsFinish ==
  \A k \in Readers :
    (read[k].phase \in {"reading", "parsed", "pushed"})
      ~> (read[k].phase \in {"idle", "failed", "panicked"})

\* Apart from reports mixed from several texts, what the writer publishes may
\* be shared, and what is received was published or carried in and can be
\* read; an owner's refusal is kept by the writer's check alone, so that a
\* report that may not be shared is received only if it was carried in.
KnownVersions == [major : {Supported.major}, minor : 0 .. Supported.minor]

Ledger == INSTANCE OutcomeLedger WITH
            Shareable <- {report \in Reports : Consent[report] \in {"PrivateBilateral", "AggregatedContribution"}},
            Readable <- {report \in Reports : Version[report] \in KnownVersions},
            Garbled <- Mixed

ImplementsLedger == Ledger!Spec

\* The schema's promise for a NoSharing report, that it is never transmitted
\* and that the ingestion pipeline enforces this automatically: no such report
\* is ever ingested, wherever its file came from.
NothingUnsharedReceived ==
  \A i \in DOMAIN received : received[i] # Mixed => MayLeave(received[i])
=============================================================================
