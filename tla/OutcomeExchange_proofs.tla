------------------------ MODULE OutcomeExchange_proofs ------------------------
(***************************************************************************)
(* That the exchange of files implements OutcomeLedger and that a reader   *)
(* nobody disturbs is given what is in the file, for any reports, files,   *)
(* writers and readers, and any number of writes and reads.                *)
(***************************************************************************)
EXTENDS OutcomeExchange, SequenceTheorems, TLAPS

\* The reports of which there are files: the writer's, and those carried in.
Public == published \cup carried

\* What a file may hold once these reports have become public.
PublicPieces(reports) == (reports \X (1 .. Pieces)) \cup {Hole}
PublicText == Seq(PublicPieces(Public))

\* The writer hands over only what may leave; who carries files in asks nobody.
PublishedMayLeave ==
  published \subseteq {report \in Reports : MayLeave(report)} /\ carried \subseteq Reports

FilesPublic ==
  /\ DOMAIN disk \subseteq Paths
  /\ \A path \in DOMAIN disk : disk[path] \in PublicText

\* Who is inside of a write has created the file, and its report is public.
WriteRecord == [report : Reports \cup {"none"}, path : Paths \cup {"none"}, next : Nat]

WritesPublic ==
  /\ write \in [Writers -> WriteRecord]
  /\ \A w \in Writers : write[w] # NoWrite =>
       /\ write[w].report \in published
       /\ write[w].path \in DOMAIN disk
       /\ write[w].next # 0

\* A reader has read what a file may hold, and what it parsed is a public
\* report of a known version, or a mixture where there was something to mix.
ReadRecord ==
  [phase : {"idle", "reading", "parsed", "pushed", "failed", "panicked"},
   path : Paths \cup {"none"}, from : PublicText, text : PublicText,
   disturbed : BOOLEAN, result : Readable \cup {Mixed, "error", "none"}]

\* What may be received in this state.
Receivable == (Public \cap Readable) \cup (IF Public = {} THEN {} ELSE {Mixed})

ReadPublic(entry, files_) ==
  /\ entry \in ReadRecord
  /\ entry.phase = "reading" => entry.path \in files_
  /\ IF entry.phase = "parsed" THEN entry.result \in Receivable
     ELSE entry.result \in {"error", "none"}

ReadsPublic ==
  /\ read = [k \in Readers |-> read[k]]
  /\ \A k \in Readers : ReadPublic(read[k], DOMAIN disk)

IngestorType ==
  /\ guard \in {"free", "held"}
  /\ poisoned \in BOOLEAN
  /\ received \in Seq(Readable \cup {Mixed})

\* The inductive invariant behind ImplementsLedger.
PublicInv ==
  /\ PublishedMayLeave /\ FilesPublic /\ WritesPublic /\ ReadsPublic
  /\ IngestorType

----------------------------------------------------------------------------
(* Texts                                                                   *)

\* More reports, more texts.
LEMMA MoreTexts ==
  ASSUME NEW S, NEW T, S \subseteq T
  PROVE  Seq(S) \subseteq Seq(T)
OBVIOUS

\* What is public stays public.
LEMMA StaysPublic ==
  ASSUME Public \subseteq Public'
  PROVE  /\ PublicText \subseteq PublicText'
         /\ Receivable \subseteq Receivable'
         /\ ReadRecord \subseteq ReadRecord'
<1>1. PublicPieces(Public) \subseteq PublicPieces(Public')
  BY DEF PublicPieces
<1>2. PublicText \subseteq PublicText'
  BY <1>1, MoreTexts DEF PublicText
<1>3. Receivable \subseteq Receivable'
  BY DEF Receivable
<1>4. QED BY <1>2, <1>3 DEF ReadRecord

\* The text of a public report is a public text, also the first part of it.
LEMMA TextIsPublic ==
  ASSUME NEW report \in Public, NEW n \in 0 .. Pieces
  PROVE  SubSeq(Text(report), 1, n) \in PublicText
<1>1. \A i \in 1 .. n : Text(report)[i] \in PublicPieces(Public)
  BY BoundAssumption DEF Text, PublicPieces
<1>2. QED BY <1>1, SubSeqProperties, BoundAssumption DEF PublicText

\* A public piece put into a public text leaves one, holes included.
LEMMA PutIsPublic ==
  ASSUME NEW text \in PublicText, NEW i \in Nat \ {0},
         NEW piece \in PublicPieces(Public)
  PROVE  Put(text, i, piece) \in PublicText
<1>1. Hole \in PublicPieces(Public)
  BY DEF PublicPieces
<1>2. QED BY <1>1 DEF Put, PublicText

\* What is parsed from a public text may be received.
LEMMA ParsesReceivable ==
  ASSUME NEW text \in PublicText, NEW result \in Results(text), result # "error"
  PROVE  result \in Receivable
<1>1. CASE result \in Readable /\ text = Text(result)
  <2>1. 1 \in 1 .. Pieces /\ text[1] = <<result, 1>> /\ 1 \in DOMAIN text
    BY <1>1, BoundAssumption DEF Text
  <2>2. text[1] \in PublicPieces(Public)
    BY <2>1 DEF PublicText
  <2>3. text[1] # Hole
    BY <2>1 DEF Hole
  <2>4. result \in Public
    BY <2>1, <2>2, <2>3 DEF PublicPieces
  <2>5. QED BY <1>1, <2>4 DEF Receivable
<1>2. CASE result = Mixed /\ MayParseAsMixed(text)
  <2>1. 1 \in DOMAIN text /\ text[1] # Hole
    BY <1>2 DEF MayParseAsMixed, PublicText
  <2>2. text[1] \in PublicPieces(Public)
    BY <2>1 DEF PublicText
  <2>3. Public # {}
    BY <2>1, <2>2 DEF PublicPieces
  <2>4. QED BY <1>2, <2>3 DEF Receivable
<1>3. QED BY <1>1, <1>2 DEF Results

----------------------------------------------------------------------------
(* The steps                                                               *)

\* A file that now holds a public text leaves files and readers public.
LEMMA HoldsPublic ==
  ASSUME FilesPublic, ReadsPublic, Public \subseteq Public',
         NEW path \in Paths, NEW text \in PublicText', Holds(path, text)
  PROVE  FilesPublic' /\ ReadsPublic' /\ DOMAIN disk' = DOMAIN disk \cup {path}
<1>1. DOMAIN disk' = DOMAIN disk \cup {path}
  BY DEF Holds
<1>2. FilesPublic'
  BY <1>1, StaysPublic DEF Holds, FilesPublic
<1>3. read' = [k \in Readers |-> read'[k]]
  BY DEF Holds
<1>4. ASSUME NEW k \in Readers
      PROVE  ReadPublic(read[k], DOMAIN disk)' 
  <2>1. ReadPublic(read[k], DOMAIN disk)
    BY DEF ReadsPublic
  <2>2. CASE read'[k] = read[k]
    BY <1>1, <2>1, <2>2, StaysPublic DEF ReadPublic
  <2>3. CASE read'[k] = [read[k] EXCEPT !.disturbed = TRUE, !.from = <<>>]
    <3>1. read[k] \in ReadRecord' /\ <<>> \in PublicText'
      BY <2>1, StaysPublic DEF ReadPublic, PublicText
    <3>2. /\ read'[k] \in ReadRecord'
          /\ read'[k].phase = read[k].phase /\ read'[k].path = read[k].path
          /\ read'[k].result = read[k].result
      BY <2>3, <3>1 DEF ReadRecord
    <3>3. QED BY <1>1, <2>1, <3>2, StaysPublic DEF ReadPublic
  <2>4. QED BY <2>2, <2>3 DEF Holds
<1>5. QED BY <1>1, <1>2, <1>3, <1>4 DEF ReadsPublic

\* A file that is created hands its report over, one that is carried in only
\* makes it public.
LEMMA BeginsPublic ==
  ASSUME PublishedMayLeave, NEW report \in Reports, NEW path,
         (\E w \in Writers : CreatesFile(w, report, path)) \/ CarriesIn(report, path)
  PROVE  /\ PublishedMayLeave' /\ report \in Public'
         /\ published \subseteq published' /\ Public \subseteq Public'
         /\ (\E w \in Writers : CreatesFile(w, report, path)) => report \in published'
<1>1. CASE \E w \in Writers : CreatesFile(w, report, path)
  <2>1. /\ MayLeave(report) /\ published' = published \cup {report} /\ carried' = carried
    BY <1>1 DEF CreatesFile
  <2>2. QED BY <2>1 DEF PublishedMayLeave, Public, MayLeave
<1>2. CASE CarriesIn(report, path) /\ ~\E w \in Writers : CreatesFile(w, report, path)
  <2>1. published' = published /\ carried' = carried \cup {report}
    BY <1>2 DEF CarriesIn
  <2>2. QED BY <1>2, <2>1 DEF PublishedMayLeave, Public, MayLeave
<1>3. QED BY <1>1, <1>2

\* An idle or failed read, and one of a result, are well-formed.
LEMMA FreshReads ==
  /\ <<>> \in PublicText
  /\ NoRead \in ReadRecord
  /\ \A files_ : ReadPublic(NoRead, files_)
  /\ \A files_ : \A phase \in {"pushed", "failed", "panicked"} :
       ReadPublic([NoRead EXCEPT !.phase = phase], files_)
<1>1. <<>> \in PublicText
  BY DEF PublicText
<1>2. QED BY <1>1 DEF NoRead, ReadRecord, ReadPublic

\* A step of one reader that leaves files and publications alone.
LEMMA OneReaderMoves ==
  ASSUME ReadsPublic, UNCHANGED files, NEW k \in Readers, NEW entry,
         read' = [read EXCEPT ![k] = entry], ReadPublic(entry, DOMAIN disk)
  PROVE  ReadsPublic'
<1>1. /\ Public' = Public /\ disk' = disk
      /\ \A j \in Readers : read'[j] = IF j = k THEN entry ELSE read[j]
      /\ read' = [j \in Readers |-> read'[j]]
  BY DEF files, ReadsPublic, Public
<1>2. /\ PublicText' = PublicText /\ Receivable' = Receivable
      /\ ReadRecord' = ReadRecord
  BY <1>1 DEF PublicText, Receivable, ReadRecord
<1>3. ASSUME NEW j \in Readers PROVE ReadPublic(read[j], DOMAIN disk)'
  BY <1>1, <1>2 DEF ReadsPublic, ReadPublic
<1>4. QED BY <1>1, <1>3 DEF ReadsPublic

\* The ingestor keeps its type unless it is used.
LEMMA IngestorKept == ASSUME IngestorType, UNCHANGED ingestor PROVE IngestorType'
BY DEF IngestorType, ingestor

\* Files, writes and publications as they were are public as they were.
LEMMA FilesKept ==
  ASSUME PublicInv, UNCHANGED files
  PROVE  /\ PublishedMayLeave' /\ FilesPublic'
         /\ UNCHANGED write => WritesPublic'
         /\ UNCHANGED read => ReadsPublic'
<1>1. PublicText' = PublicText /\ ReadRecord' = ReadRecord /\ Receivable' = Receivable
  BY DEF files, Public, PublicText, ReadRecord, Receivable
<1>2. UNCHANGED read => ReadsPublic'
  BY <1>1 DEF files, PublicInv, ReadsPublic, ReadPublic
<1>3. PublishedMayLeave' /\ FilesPublic' /\ (UNCHANGED write => WritesPublic')
  BY <1>1 DEF files, PublicInv, PublishedMayLeave, FilesPublic, WritesPublic
<1>4. QED BY <1>2, <1>3

\* A writer that begins, goes on or ends leaves everything public.
LEMMA WriterKeeps ==
  ASSUME PublicInv, NEW w \in Writers,
         \/ WriterStep(w)
         \/ \E report \in Reports, path \in Paths : CreatesFile(w, report, path)
  PROVE  PublicInv'
<1>1. CASE \E report \in Reports, path \in Paths : CreatesFile(w, report, path)
  <2>1. PICK report \in Reports, path \in Paths : CreatesFile(w, report, path)
    BY <1>1
  <2>2. /\ PublishedMayLeave' /\ report \in published'
        /\ published \subseteq published' /\ Public \subseteq Public'
    BY <2>1, BeginsPublic DEF PublicInv
  <2>3. FilesPublic' /\ ReadsPublic' /\ DOMAIN disk' = DOMAIN disk \cup {path}
    <3>1. <<>> \in PublicText'
      BY DEF PublicText
    <3>2. QED BY <2>1, <2>2, <3>1, HoldsPublic DEF CreatesFile, PublicInv
  <2>4. WritesPublic'
    <3>1. [report |-> report, path |-> path, next |-> 1] \in WriteRecord
      BY DEF WriteRecord
    <3>2. QED BY <2>1, <2>2, <2>3, <3>1 DEF CreatesFile, PublicInv, WritesPublic
  <2>5. IngestorType'
    BY <2>1, IngestorKept DEF CreatesFile, PublicInv
  <2>6. QED BY <2>2, <2>3, <2>4, <2>5 DEF PublicInv
<1>2. CASE WritesPiece(w)
  <2> DEFINE path == write[w].path
             i == write[w].next
  <2>1. /\ write[w] \in WriteRecord
        /\ write[w].report \in published /\ write[w].report \in Public
        /\ path \in DOMAIN disk /\ path \in Paths /\ i \in 1 .. Pieces
    BY <1>2, BoundAssumption
       DEF WritesPiece, MoreToWrite, PublicInv, WritesPublic, WriteRecord, FilesPublic, Public
  <2>2. UNCHANGED <<published, carried, Public>>
    BY <1>2 DEF WritesPiece, Public
  <2>3. Put(disk[path], i, <<write[w].report, i>>) \in PublicText'
    <3>1. <<write[w].report, i>> \in PublicPieces(Public)
      BY <2>1 DEF PublicPieces
    <3>2. disk[path] \in PublicText /\ i \in Nat \ {0}
      BY <2>1, BoundAssumption DEF PublicInv, FilesPublic
    <3>3. QED BY <2>2, <3>1, <3>2, PutIsPublic DEF PublicText
  <2>4. FilesPublic' /\ ReadsPublic' /\ DOMAIN disk' = DOMAIN disk \cup {path}
    BY <1>2, <2>1, <2>2, <2>3, HoldsPublic DEF WritesPiece, PublicInv
  <2>5. WritesPublic'
    <3>1. [write[w] EXCEPT !.next = i + 1] \in WriteRecord
      BY <2>1, BoundAssumption DEF WriteRecord
    <3>2. QED BY <1>2, <2>1, <2>2, <2>4, <3>1, BoundAssumption
          DEF WritesPiece, PublicInv, WritesPublic, WriteRecord
  <2>6. PublishedMayLeave' /\ IngestorType'
    BY <1>2, <2>2, IngestorKept DEF WritesPiece, PublicInv, PublishedMayLeave
  <2>7. QED BY <2>4, <2>5, <2>6 DEF PublicInv
<1>3. CASE WriteEnds(w)
  <2>1. NoWrite \in WriteRecord
    BY DEF NoWrite, WriteRecord
  <2>2. WritesPublic'
    BY <1>3, <2>1 DEF WriteEnds, files, PublicInv, WritesPublic
  <2>3. QED BY <1>3, <2>2, FilesKept, IngestorKept DEF WriteEnds, PublicInv
<1>4. QED BY <1>1, <1>2, <1>3 DEF WriterStep

\* A cut leaves a part of what was there, and a file carried in is a part of
\* a text that has become public with it.
LEMMA HandsKeep ==
  ASSUME PublicInv, NEW path \in Paths,
         CutsFile(path) \/ \E report \in Reports : CarriesIn(report, path)
  PROVE  PublicInv'
<1>1. CASE CutsFile(path)
  <2>1. PICK n \in 0 .. Len(disk[path]) - 1 : Holds(path, SubSeq(disk[path], 1, n))
    BY <1>1 DEF CutsFile
  <2>2. /\ path \in DOMAIN disk /\ disk[path] \in PublicText
        /\ UNCHANGED <<published, carried, Public>>
    BY <1>1 DEF CutsFile, PublicInv, FilesPublic, Public
  <2>3. SubSeq(disk[path], 1, n) \in PublicText'
    <3>1. Len(disk[path]) \in Nat
          /\ \A i \in 1 .. n : disk[path][i] \in PublicPieces(Public)
      BY <2>2 DEF PublicText
    <3>2. QED BY <2>2, <3>1, SubSeqProperties DEF PublicText
  <2>4. FilesPublic' /\ ReadsPublic' /\ DOMAIN disk' = DOMAIN disk \cup {path}
    BY <2>1, <2>2, <2>3, HoldsPublic DEF PublicInv
  <2>5. WritesPublic'
    <3>1. NoWrite \in WriteRecord
      BY DEF NoWrite, WriteRecord
    <3>2. QED BY <1>1, <2>2, <2>4, <3>1 DEF CutsFile, PublicInv, WritesPublic
  <2>6. PublishedMayLeave' /\ IngestorType'
    BY <1>1, <2>2, IngestorKept DEF CutsFile, PublicInv, PublishedMayLeave
  <2>7. QED BY <2>4, <2>5, <2>6 DEF PublicInv
<1>2. ASSUME NEW report \in Reports, CarriesIn(report, path) PROVE PublicInv'
  <2>1. PICK n \in 0 .. Pieces : Holds(path, SubSeq(Text(report), 1, n))
    BY <1>2 DEF CarriesIn
  <2>2. /\ PublishedMayLeave' /\ report \in Public'
        /\ published \subseteq published' /\ Public \subseteq Public'
    BY <1>2, BeginsPublic DEF PublicInv
  <2>3. SubSeq(Text(report), 1, n) \in PublicText'
    <3>1. \A i \in 1 .. n : Text(report)[i] \in PublicPieces(Public')
      BY <2>2, BoundAssumption DEF Text, PublicPieces
    <3>2. QED BY <3>1, SubSeqProperties, BoundAssumption DEF PublicText
  <2>4. FilesPublic' /\ ReadsPublic' /\ DOMAIN disk' = DOMAIN disk \cup {path}
    BY <2>1, <2>2, <2>3, HoldsPublic DEF PublicInv
  <2>5. WritesPublic'
    BY <1>2, <2>2, <2>4 DEF CarriesIn, PublicInv, WritesPublic
  <2>6. IngestorType'
    BY <1>2, IngestorKept DEF CarriesIn, PublicInv
  <2>7. QED BY <2>2, <2>4, <2>5, <2>6 DEF PublicInv
<1>3. QED BY <1>1, <1>2

\* A reader opens, reads on, parses, fails and pushes what is public.
LEMMA ReaderKeeps ==
  ASSUME PublicInv, NEW k \in Readers,
         ReaderStep(k) \/ \E path \in Paths : OpensFile(k, path)
  PROVE  PublicInv'
<1>1. /\ ReadPublic(read[k], DOMAIN disk)
      /\ read[k] \in ReadRecord
  BY DEF PublicInv, ReadsPublic, ReadPublic
<1>2. ASSUME UNCHANGED <<files, write>>, IngestorType', NEW entry,
             read' = [read EXCEPT ![k] = entry], ReadPublic(entry, DOMAIN disk)
      PROVE  PublicInv'
  BY <1>2, FilesKept, OneReaderMoves DEF PublicInv
<1>3. ASSUME NEW path \in Paths, OpensFile(k, path) PROVE PublicInv'
  <2>1. IngestorType'
    BY <1>3, IngestorKept DEF OpensFile, PublicInv
  <2>2. CASE path \in DOMAIN disk
    <3> DEFINE disturbed == path \in overlapped
               entry == [NoRead EXCEPT !.phase = "reading", !.path = path,
                                       !.from = disk[path],
                                       !.disturbed = disturbed]
    <3>0. disk[path] \in PublicText /\ disturbed \in BOOLEAN
      BY <2>2 DEF PublicInv, FilesPublic
    <3> HIDE DEF disturbed
    <3>1. entry \in ReadRecord
      BY <3>0, FreshReads DEF NoRead, ReadRecord
    <3>2. entry.phase = "reading" /\ entry.path = path /\ entry.result = "none"
      BY DEF NoRead
    <3> USE DEF disturbed
    <3>3. ReadPublic(entry, DOMAIN disk)
      BY <2>2, <3>1, <3>2 DEF ReadPublic
    <3>4. read' = [read EXCEPT ![k] = entry]
      BY <1>3, <2>2 DEF OpensFile
    <3> HIDE DEF entry
    <3>5. QED BY <1>2, <1>3, <2>1, <3>3, <3>4 DEF OpensFile
  <2>3. CASE path \notin DOMAIN disk
    BY <1>2, <1>3, <2>1, <2>3, FreshReads DEF OpensFile
  <2>4. QED BY <2>2, <2>3
<1>4. CASE ReadsPiece(k)
  <2>1. IngestorType' /\ read[k].path \in DOMAIN disk
    BY <1>1, <1>4, IngestorKept DEF ReadsPiece, PublicInv, Reading, ReadPublic
  <2> DEFINE file == disk[read[k].path]
             at == Len(read[k].text)
  <2>2. PICK n \in 1 .. Rest(k) :
          read' = [read EXCEPT ![k].text = @ \o SubSeq(file, at + 1, at + n)]
    BY <1>4 DEF ReadsPiece
  <2>3. file \in PublicText /\ read[k].text \in PublicText
    BY <1>1, <2>1 DEF PublicInv, FilesPublic, ReadRecord
  <2>4. SubSeq(file, at + 1, at + n) \in PublicText
    <3>0. at \in Nat /\ Len(file) \in Nat
      BY <2>3 DEF PublicText
    <3>1. n \in Nat /\ at + n <= Len(file)
      <4>1. Rest(k) = Len(file) - at
        BY DEF Rest
      <4> HIDE DEF at, file
      <4>2. QED BY <3>0, <4>1
    <3>2. \A i \in at + 1 .. at + n : file[i] \in PublicPieces(Public)
      BY <2>3, <3>0, <3>1 DEF PublicText
    <3>3. QED BY <3>0, <3>1, <3>2, SubSeqProperties DEF PublicText
  <2> DEFINE longer == read[k].text \o SubSeq(file, at + 1, at + n)
             entry == [read[k] EXCEPT !.text = longer]
  <2>5. longer \in PublicText
    BY <2>3, <2>4, ConcatProperties DEF PublicText
  <2>6. read' = [read EXCEPT ![k] = entry]
    BY <2>2
  <2> HIDE DEF longer
  <2>7. /\ entry \in ReadRecord /\ entry.phase = read[k].phase
        /\ entry.path = read[k].path /\ entry.result = read[k].result
    BY <1>1, <2>5 DEF ReadRecord
  <2>8. ReadPublic(entry, DOMAIN disk)
    BY <1>1, <2>7 DEF ReadPublic
  <2> HIDE DEF entry
  <2>9. QED BY <1>2, <1>4, <2>1, <2>6, <2>8 DEF ReadsPiece
<1>5. CASE ReadsEnd(k)
  <2>1. IngestorType' /\ read[k].text \in PublicText
    BY <1>1, <1>5, IngestorKept DEF ReadsEnd, PublicInv, ReadRecord
  <2>2. PICK result \in Results(read[k].text) :
          read' = [read EXCEPT ![k] =
                     [NoRead EXCEPT !.result = result,
                                    !.phase = IF result = "error" THEN "failed" ELSE "parsed"]]
    BY <1>5 DEF ReadsEnd
  <2> DEFINE phase == IF result = "error" THEN "failed" ELSE "parsed"
             entry == [NoRead EXCEPT !.result = result, !.phase = phase]
  <2>3. result # "error" => result \in Receivable
    BY <2>1, ParsesReceivable
  <2>4. result \in Readable \cup {Mixed, "error", "none"}
    BY <2>3 DEF Receivable
  <2>5. entry \in ReadRecord /\ entry.phase = phase /\ entry.result = result
    BY <2>4, FreshReads DEF NoRead, ReadRecord
  <2>6. ReadPublic(entry, DOMAIN disk)
    BY <2>3, <2>5 DEF ReadPublic
  <2>7. read' = [read EXCEPT ![k] = entry]
    BY <2>2
  <2> HIDE DEF entry
  <2>8. QED BY <1>2, <1>5, <2>1, <2>6, <2>7 DEF ReadsEnd
<1>6. CASE ReadFails(k)
  <2>1. IngestorType'
    BY <1>6, IngestorKept DEF ReadFails, PublicInv
  <2>2. QED BY <1>2, <1>6, <2>1, FreshReads DEF ReadFails
<1>7. CASE Pushes(k)
  <2>1. read[k].result \in Readable \cup {Mixed}
    BY <1>1, <1>7 DEF Pushes, ReadPublic, Receivable
  <2>2. IngestorType'
    BY <1>7, <2>1 DEF Pushes, PublicInv, IngestorType
  <2>3. QED BY <1>2, <1>7, <2>2, FreshReads DEF Pushes
<1>8. CASE IngestReturns(k)
  <2>1. IngestorType'
    BY <1>8, IngestorKept DEF IngestReturns, PublicInv
  <2>2. QED BY <1>2, <1>8, <2>1, FreshReads DEF IngestReturns
<1>9. CASE IngestPanics(k)
  <2>1. IngestorType'
    BY <1>9, IngestorKept DEF IngestPanics, PublicInv
  <2>2. QED BY <1>2, <1>9, <2>1, FreshReads DEF IngestPanics
<1>10. QED BY <1>3, <1>4, <1>5, <1>6, <1>7, <1>8, <1>9 DEF ReaderStep

\* The invariant holds initially.
LEMMA InitPublic == Init => PublicInv
<1> SUFFICES ASSUME Init PROVE PublicInv
  OBVIOUS
<1>1. PublishedMayLeave /\ FilesPublic
  BY DEF Init, PublishedMayLeave, FilesPublic
<1>2. WritesPublic
  BY DEF Init, WritesPublic, NoWrite, WriteRecord
<1>3. ReadsPublic
  BY FreshReads DEF Init, ReadsPublic
<1>4. IngestorType
  <2>1. poisoned \in BOOLEAN
    BY ZenonT(20) DEF Init
  <2>2. guard \in {"free", "held"} /\ received \in Seq(Readable \cup {Mixed})
    BY DEF Init
  <2>3. QED BY <2>1, <2>2 DEF IngestorType
<1>5. QED BY <1>1, <1>2, <1>3, <1>4 DEF PublicInv

\* Every step preserves it.
LEMMA NextPublic == PublicInv /\ [Next]_vars => PublicInv'
<1> SUFFICES ASSUME PublicInv, [Next]_vars PROVE PublicInv'
  OBVIOUS
<1>1. ASSUME UNCHANGED <<files, write, read>>, IngestorType' PROVE PublicInv'
  BY <1>1, FilesKept DEF PublicInv
<1>2. CASE UNCHANGED vars
  BY <1>1, <1>2, IngestorKept DEF vars, PublicInv
<1>3. CASE \E report \in Reports : RefusesToShare(report)
  BY <1>1, <1>3, IngestorKept DEF RefusesToShare, PublicInv
<1>4. CASE \/ \E w \in Writers : WriterStep(w)
           \/ \E w \in Writers, report \in Reports, path \in Paths :
                CreatesFile(w, report, path)
  BY <1>4, WriterKeeps
<1>5. CASE \/ \E k \in Readers : ReaderStep(k)
           \/ \E k \in Readers, path \in Paths : OpensFile(k, path)
  BY <1>5, ReaderKeeps
<1>6. CASE Inspects \/ ReleasesGuard
  <2>1. UNCHANGED <<files, write, read>> /\ IngestorType'
    BY <1>6 DEF Inspects, ReleasesGuard, PublicInv, IngestorType
  <2>2. QED BY <1>1, <2>1
<1>7. CASE \/ \E path \in Paths : CutsFile(path)
           \/ \E report \in Reports, path \in Paths : CarriesIn(report, path)
  BY <1>7, HandsKeep
<1>8. QED BY <1>2, <1>3, <1>4, <1>5, <1>6, <1>7 DEF Next

\* The invariant holds in every reachable state.
LEMMA PublicInvariant == Spec => []PublicInv
BY InitPublic, NextPublic, PTL DEF Spec

----------------------------------------------------------------------------
(* What is proved of the exchange                                          *)

\* Files hold pieces of reports and nothing else, whoever writes, cuts or
\* carries them, and a reader is given a report exactly when it has parsed one
\* it can read.
THEOREM ExchangeTypes == Spec => []TypeOK
<1>1. PublicInv => TypeOK
  <2> SUFFICES ASSUME PublicInv PROVE TypeOK
    OBVIOUS
  <2>1. published \subseteq Reports /\ carried \subseteq Reports
    BY DEF PublicInv, PublishedMayLeave
  <2>2. PublicText \subseteq Seq(Piece)
    <3>1. PublicPieces(Public) \subseteq Piece
      BY <2>1 DEF Public, PublicPieces, Piece
    <3>2. QED BY <3>1, MoreTexts DEF PublicText
  <2>3. DOMAIN disk \subseteq Paths /\ \A path \in DOMAIN disk : disk[path] \in Seq(Piece)
    BY <2>2 DEF PublicInv, FilesPublic
  <2>4. \A w \in Writers : write[w] = NoWrite \/ MayLeave(write[w].report)
    BY DEF PublicInv, WritesPublic, PublishedMayLeave
  <2>5. ASSUME NEW k \in Readers
        PROVE  /\ read[k].phase \in {"idle", "reading", "parsed", "pushed", "failed", "panicked"}
               /\ read[k].text \in Seq(Piece) /\ read[k].from \in Seq(Piece)
               /\ read[k].phase = "parsed" <=> read[k].result \in Readable \cup {Mixed}
    <3>1. ReadPublic(read[k], DOMAIN disk)
      BY DEF PublicInv, ReadsPublic
    <3>2. /\ read[k].phase \in {"idle", "reading", "parsed", "pushed", "failed", "panicked"}
          /\ read[k].text \in PublicText /\ read[k].from \in PublicText
      BY <3>1 DEF ReadPublic, ReadRecord
    <3>3. {"error", "none"} \cap (Readable \cup {Mixed}) = {}
      BY ReportAssumption DEF Readable, Mixed
    <3>4. Receivable \subseteq Readable \cup {Mixed}
      BY DEF Receivable
    <3>5. read[k].phase = "parsed" <=> read[k].result \in Readable \cup {Mixed}
      BY <3>1, <3>3, <3>4 DEF ReadPublic
    <3>6. QED BY <2>2, <3>2, <3>5
  <2>6. QED BY <2>1, <2>3, <2>4, <2>5 DEF TypeOK, PublicInv, IngestorType
<1>2. QED BY <1>1, PublicInvariant, PTL

\* The version rule of the code is the one of the ledger.
LEMMA SameVersions ==
  Readable \subseteq {report \in Reports : Version[report] \in KnownVersions}
BY ReportAssumption DEF Readable, IsReadable, KnownVersions

\* A file that is created publishes a report that may be shared, one that is
\* carried in is one carried in to the ledger; any other step that pushes no
\* report leaves the ledger alone.
LEMMA StepsPublish ==
  ASSUME [Next]_vars, ~\E k \in Readers : Pushes(k)
  PROVE  \/ UNCHANGED <<published, carried, received>>
         \/ \E report \in Reports : MayLeave(report) /\ Ledger!Publish(report)
         \/ \E report \in Reports : Ledger!Carry(report)
<1>1. ASSUME NEW report \in Reports, NEW path \in Paths, NEW w \in Writers,
             CreatesFile(w, report, path)
      PROVE  MayLeave(report) /\ Ledger!Publish(report)
  BY <1>1, ReportAssumption DEF CreatesFile, MayLeave, ingestor, Ledger!Publish
<1>2. ASSUME NEW report \in Reports, NEW path \in Paths, CarriesIn(report, path)
      PROVE  Ledger!Carry(report)
  BY <1>2 DEF CarriesIn, ingestor, Ledger!Carry
<1>3. CASE \/ UNCHANGED vars
           \/ \E report \in Reports : RefusesToShare(report)
           \/ \E w \in Writers : WriterStep(w)
           \/ \E k \in Readers, path \in Paths : OpensFile(k, path)
           \/ Inspects \/ ReleasesGuard
           \/ \E path \in Paths : CutsFile(path)
  BY <1>3 DEF vars, files, ingestor, RefusesToShare, WriterStep, WritesPiece,
     WriteEnds, OpensFile, Inspects, ReleasesGuard, CutsFile
<1>4. CASE \E k \in Readers : ReaderStep(k)
  BY <1>4 DEF files, ingestor, ReaderStep, ReadsPiece, ReadsEnd, ReadFails,
     IngestReturns, IngestPanics
<1>5. QED BY <1>1, <1>2, <1>3, <1>4 DEF Next

\* The writer publishes only what its owner lets be shared, and only what has
\* been published or carried in and can be read is received, whatever happens
\* to the files and to the ingestor's lock on the way: the exchange implements
\* the ledger.  What is carried in is received whether it may be shared or not.
THEOREM ExchangeImplementsLedger == Spec => ImplementsLedger
<1>1. Init => Ledger!Init
  BY DEF Init, Ledger!Init
<1>2. PublicInv /\ [Next]_vars => [Ledger!Next]_(Ledger!vars)
  <2> SUFFICES ASSUME PublicInv, [Next]_vars PROVE Ledger!Next \/ UNCHANGED Ledger!vars
    OBVIOUS
  <2>1. ASSUME NEW k \in Readers, Pushes(k) PROVE Ledger!Next
    <3>1. /\ received' = Append(received, read[k].result)
          /\ UNCHANGED <<published, carried>>
      BY <2>1 DEF Pushes, files
    <3>2. read[k].result \in Receivable
      BY <2>1 DEF Pushes, PublicInv, ReadsPublic, ReadPublic
    <3>3. CASE read[k].result \in Public \cap Readable
      <4>1. Ledger!Receive(read[k].result)
        BY <3>1, <3>3, SameVersions DEF Ledger!Receive, Public
      <4>2. QED BY <3>3, <4>1, SameVersions DEF Ledger!Next
    <3>4. CASE read[k].result = Mixed /\ Public # {}
      BY <3>1, <3>4 DEF Ledger!ReceiveGarbled, Ledger!Next, Public
    <3>5. QED BY <3>2, <3>3, <3>4 DEF Receivable
  <2>2. CASE ~\E k \in Readers : Pushes(k)
    BY <2>2, StepsPublish, ReportAssumption DEF MayLeave, Ledger!Next, Ledger!vars
  <2>3. QED BY <2>1, <2>2
<1>3. QED BY <1>1, <1>2, PublicInvariant, PTL DEF Spec, ImplementsLedger, Ledger!Spec

----------------------------------------------------------------------------
(* What a reader that nobody disturbs is given                             *)

\* The first part of report's text, all of it included.
IsPartOf(text, report) ==
  /\ text \in Seq(Piece) /\ Len(text) <= Pieces
  /\ \A j \in 1 .. Len(text) : text[j] = <<report, j>>

Writing(w) == write[w] # NoWrite

\* A file that two have not been writing to holds a part of one text.
OrderlyFiles ==
  \A path \in DOMAIN disk :
    path \notin overlapped => \E report \in Reports : IsPartOf(disk[path], report)

\* Its writer is alone, and the part is what it has written.
OrderlyWriters ==
  \A w \in Writers : Writing(w) /\ write[w].path \notin overlapped =>
    /\ IsPartOf(disk[write[w].path], write[w].report)
    /\ write[w].next = Len(disk[write[w].path]) + 1
    /\ \A v \in Writers : Writing(v) /\ write[v].path = write[w].path => v = w

\* Whoever reads a file that has not changed since has read the first part of
\* what is still there.
OrderlyRead(entry, disk_) ==
  entry.phase = "reading" =>
    /\ entry.result = "none"
    /\ ~entry.disturbed =>
         /\ entry.from = disk_[entry.path]
         /\ \E report \in Reports : IsPartOf(entry.from, report)
         /\ Len(entry.text) <= Len(entry.from)
         /\ \A j \in 1 .. Len(entry.text) : entry.text[j] = entry.from[j]

OrderlyReads == \A k \in Readers : OrderlyRead(read[k], disk)

\* The inductive invariant behind UndisturbedReadIsFaithful.
OrderlyInv == PublicInv /\ OrderlyFiles /\ OrderlyWriters /\ OrderlyReads

----------------------------------------------------------------------------
(* Parts of a text                                                         *)

\* The text of a report, and each first part of it.
LEMMA PartFacts ==
  ASSUME NEW report \in Reports
  PROVE  /\ IsPartOf(<<>>, report)
         /\ \A n \in 0 .. Pieces : IsPartOf(SubSeq(Text(report), 1, n), report)
<1>1. IsPartOf(<<>>, report)
  BY BoundAssumption DEF IsPartOf
<1>2. ASSUME NEW n \in 0 .. Pieces
      PROVE  IsPartOf(SubSeq(Text(report), 1, n), report)
  <2>1. \A i \in 1 .. n : Text(report)[i] = <<report, i>> /\ Text(report)[i] \in Piece
    BY BoundAssumption DEF Text, Piece
  <2>2. /\ SubSeq(Text(report), 1, n) \in Seq(Piece)
        /\ Len(SubSeq(Text(report), 1, n)) = n
        /\ \A i \in 1 .. n : SubSeq(Text(report), 1, n)[i] = Text(report)[i]
    BY <2>1, SubSeqProperties, BoundAssumption
  <2>3. QED BY <2>1, <2>2, BoundAssumption DEF IsPartOf
<1>3. QED BY <1>1, <1>2

\* The piece after a part makes it a longer part.
LEMMA NextPart ==
  ASSUME NEW report \in Reports, NEW text, IsPartOf(text, report),
         Len(text) + 1 <= Pieces
  PROVE  /\ IsPartOf(Put(text, Len(text) + 1, <<report, Len(text) + 1>>), report)
         /\ Len(Put(text, Len(text) + 1, <<report, Len(text) + 1>>)) = Len(text) + 1
<1> DEFINE i == Len(text) + 1
           longer == Put(text, i, <<report, i>>)
<1>1. text \in Seq(Piece) /\ Len(text) \in Nat /\ i \in 1 .. Pieces
  BY BoundAssumption DEF IsPartOf
<1>2. longer = [j \in 1 .. i |-> IF j = i THEN <<report, i>> ELSE
                                 IF j <= Len(text) THEN text[j] ELSE Hole]
  BY <1>1 DEF Put
<1>3. \A j \in 1 .. i : longer[j] = <<report, j>> /\ longer[j] \in Piece
  <2>1. \A j \in 1 .. i : j \in 1 .. Pieces /\ <<report, j>> \in Piece
    BY <1>1, BoundAssumption DEF Piece
  <2>2. \A j \in 1 .. Len(text) : text[j] = <<report, j>>
    BY DEF IsPartOf
  <2>3. \A j \in 1 .. i : longer[j] = <<report, j>>
    BY <1>1, <1>2, <2>2
  <2>4. QED BY <2>1, <2>3
<1>4. longer \in Seq(Piece) /\ Len(longer) = i
  BY <1>1, <1>2, <1>3
<1>5. QED BY <1>1, <1>3, <1>4 DEF IsPartOf

\* A part of a text is parsed as its report, if it is all of it and of a known
\* version, and as nothing else.
LEMMA PartParses ==
  ASSUME NEW report \in Reports, NEW text, IsPartOf(text, report),
         NEW result \in Results(text)
  PROVE  LET whole == {r \in Readable : text = Text(r)}
         IN IF whole = {} THEN result = "error" ELSE result \in whole
<1>1. text \in Seq(Piece) /\ Len(text) \in 0 .. Pieces /\ Pieces \in Nat \ {0}
  BY BoundAssumption DEF IsPartOf
<1>2. Readable \subseteq Reports
  BY ReportAssumption DEF Readable
<1>3. ASSUME NEW r \in Reports, text = Text(r) PROVE r = report
  <2>1. 1 \in 1 .. Len(text) /\ text[1] = <<r, 1>>
    BY <1>1, <1>3 DEF Text
  <2>2. text[1] = <<report, 1>>
    BY <2>1 DEF IsPartOf
  <2>3. QED BY <2>1, <2>2
<1>4. CASE text = Text(report)
  <2>1. {r \in Reports : text = Text(r)} = {report}
    BY <1>3, <1>4
  <2>2. CASE report \in Readable
    BY <1>2, <2>1, <2>2 DEF Results
  <2>3. CASE report \notin Readable
    <3>1. result = "error"
      BY <2>1, <2>3 DEF Results
    <3>2. {r \in Readable : text = Text(r)} = {}
      BY <1>2, <2>1, <2>3
    <3>3. QED BY <3>1, <3>2
  <2>4. QED BY <2>2, <2>3
<1>5. CASE text # Text(report)
  <2>1. {r \in Reports : text = Text(r)} = {} /\ {r \in Readable : text = Text(r)} = {}
    BY <1>2, <1>3, <1>5
  <2>2. ~MayParseAsMixed(text)
    <3> SUFFICES ASSUME MayParseAsMixed(text) PROVE FALSE
      OBVIOUS
    <3>1. Len(text) \in 1 .. Len(text)
      BY <1>1 DEF MayParseAsMixed
    <3>2. text[Len(text)] = <<report, Len(text)>>
      BY <3>1 DEF IsPartOf
    <3>3. Len(text) = Pieces
      BY <3>2 DEF MayParseAsMixed
    <3>4. text = Text(report)
      <4>1. text = [j \in 1 .. Pieces |-> text[j]]
        BY <1>1, <3>3
      <4>2. \A j \in 1 .. Pieces : text[j] = <<report, j>>
        BY <3>3 DEF IsPartOf
      <4>3. QED BY <4>1, <4>2 DEF Text
    <3>5. QED BY <1>5, <3>4
  <2>3. QED BY <2>1, <2>2 DEF Results
<1>6. QED BY <1>4, <1>5

----------------------------------------------------------------------------
(* The steps and the reads                                                 *)

\* Readers inside of the file that changes are disturbed, the others see what
\* they saw.
LEMMA HoldsOrderly ==
  ASSUME PublicInv, OrderlyReads, NEW path, NEW text, Holds(path, text)
  PROVE  OrderlyReads'
<1> SUFFICES ASSUME NEW k \in Readers PROVE OrderlyRead(read[k], disk)'
  BY DEF OrderlyReads
<1>1. OrderlyRead(read[k], disk) /\ ReadPublic(read[k], DOMAIN disk)
  BY DEF OrderlyReads, PublicInv, ReadsPublic
<1>2. CASE Reading(k) /\ read[k].path = path
  <2>1. read'[k] = [[read[k] EXCEPT !.disturbed = TRUE] EXCEPT !.from = <<>>]
    BY <1>2 DEF Holds, Reading
  <2>2. read'[k].disturbed = TRUE /\ read'[k].result = read[k].result
    BY <1>1, <2>1 DEF ReadPublic, ReadRecord
  <2>3. QED BY <1>1, <1>2, <2>2 DEF OrderlyRead, Reading
<1>3. CASE ~(Reading(k) /\ read[k].path = path)
  <2>1. read'[k] = read[k]
    BY <1>3 DEF Holds, Reading
  <2>2. Reading(k) => disk'[read[k].path] = disk[read[k].path]
    BY <1>1, <1>3 DEF Holds, Reading, ReadPublic
  <2>3. QED BY <1>1, <2>1, <2>2 DEF OrderlyRead, Reading
<1>4. QED BY <1>2, <1>3

\* The file that changes holds a part of one text, or two have been writing
\* to it; its writers, if it is not, are as alone as they should be.
LEMMA FileOrderly ==
  ASSUME OrderlyInv, PublicInv', NEW path, NEW text, Holds(path, text),
         overlapped' \ {path} = overlapped \ {path},
         path \notin overlapped' => \E report \in Reports : IsPartOf(text, report),
         \A w \in Writers : write'[w] = write[w] \/ write'[w] = NoWrite
                              \/ write'[w].path = path,
         \A w \in Writers : Writing(w)' /\ write'[w].path = path
                              /\ path \notin overlapped' =>
           /\ IsPartOf(text, write'[w].report)
           /\ write'[w].next = Len(text) + 1
           /\ \A v \in Writers : Writing(v)' /\ write'[v].path = path => v = w
  PROVE  OrderlyInv'
<1>1. /\ DOMAIN disk' = DOMAIN disk \cup {path} /\ disk'[path] = text
      /\ \A p \in DOMAIN disk \ {path} : disk'[p] = disk[p]
  BY DEF Holds
<1>2. OrderlyReads'
  BY HoldsOrderly DEF OrderlyInv
<1>3. OrderlyFiles'
  BY <1>1 DEF OrderlyInv, OrderlyFiles
<1>4. OrderlyWriters'
  <2> SUFFICES ASSUME NEW w \in Writers, Writing(w)', write'[w].path \notin overlapped'
               PROVE  /\ IsPartOf(disk'[write'[w].path], write'[w].report)
                      /\ write'[w].next = Len(disk'[write'[w].path]) + 1
                      /\ \A v \in Writers :
                           Writing(v)' /\ write'[v].path = write'[w].path => v = w
    BY DEF OrderlyWriters, Writing
  <2>1. CASE write'[w].path = path
    BY <1>1, <2>1
  <2>2. CASE write'[w].path # path
    <3>1. /\ write'[w] = write[w] /\ Writing(w) /\ write[w].path \notin overlapped
          /\ write[w].path \in DOMAIN disk
      BY <2>2 DEF Writing, OrderlyInv, PublicInv, WritesPublic
    <3>2. /\ IsPartOf(disk[write[w].path], write[w].report)
          /\ write[w].next = Len(disk[write[w].path]) + 1
          /\ \A v \in Writers : Writing(v) /\ write[v].path = write[w].path => v = w
      BY <3>1 DEF OrderlyInv, OrderlyWriters
    <3>3. \A v \in Writers :
            Writing(v)' /\ write'[v].path = write'[w].path => write'[v] = write[v]
      BY <2>2 DEF Writing
    <3>4. QED BY <1>1, <2>2, <3>1, <3>2, <3>3 DEF Writing
  <2>3. QED BY <2>1, <2>2
<1>5. QED BY <1>2, <1>3, <1>4 DEF OrderlyInv

\* Writers, power cuts and whoever carries files in leave order.
LEMMA FilesStayOrderly ==
  ASSUME OrderlyInv, PublicInv', NEW path \in Paths,
         \/ \E w \in Writers, report \in Reports : CreatesFile(w, report, path)
         \/ \E w \in Writers : WritesPiece(w)
         \/ CutsFile(path)
         \/ \E report \in Reports : CarriesIn(report, path)
  PROVE  OrderlyInv'
<1>1. ASSUME NEW w \in Writers, NEW report \in Reports, CreatesFile(w, report, path)
      PROVE  OrderlyInv'
  <2>1. Holds(path, <<>>) /\ overlapped' \ {path} = overlapped \ {path}
    BY <1>1 DEF CreatesFile, Begins
  <2>2. IsPartOf(<<>>, report)
    BY PartFacts
  <2>3. /\ write'[w] = [report |-> report, path |-> path, next |-> 1]
        /\ \A v \in Writers \ {w} : write'[v] = write[v]
    BY <1>1 DEF CreatesFile, OrderlyInv, PublicInv, WritesPublic
  <2>4. path \notin overlapped' => \A v \in Writers : write[v].path # path
    BY <1>1 DEF CreatesFile, Begins, WritersOf
  <2>5. \A v \in Writers : Writing(v)' /\ write'[v].path = path
                             /\ path \notin overlapped' =>
          /\ v = w /\ IsPartOf(<<>>, write'[v].report)
          /\ write'[v].next = Len(<<>>) + 1
    BY <2>2, <2>3, <2>4
  <2>6. \A v \in Writers : write'[v] = write[v] \/ write'[v].path = path
    BY <2>3
  <2>7. QED BY <2>1, <2>2, <2>5, <2>6, FileOrderly
<1>2. ASSUME NEW w \in Writers, WritesPiece(w) PROVE OrderlyInv'
  <2> DEFINE p == write[w].path
             i == write[w].next
             report == write[w].report
             text == Put(disk[p], i, <<report, i>>)
  <2>1. /\ Holds(p, text) /\ UNCHANGED overlapped /\ i <= Pieces /\ Writing(w)
        /\ write' = [write EXCEPT ![w].next = i + 1]
    BY <1>2 DEF WritesPiece, MoreToWrite, Writing
  <2>2. write[w] \in WriteRecord /\ report \in Reports /\ p \in DOMAIN disk
    BY <2>1 DEF Writing, OrderlyInv, PublicInv, WritesPublic, PublishedMayLeave
  <2>3. /\ write'[w].next = i + 1 /\ write'[w].path = p /\ write'[w].report = report
        /\ \A v \in Writers \ {w} : write'[v] = write[v]
    BY <2>1, <2>2 DEF WriteRecord, OrderlyInv, PublicInv, WritesPublic
  <2>4. ASSUME p \notin overlapped
        PROVE  /\ IsPartOf(text, report) /\ Len(text) = i
               /\ \A v \in Writers : Writing(v) /\ write[v].path = p => v = w
    <3>1. /\ IsPartOf(disk[p], report) /\ i = Len(disk[p]) + 1
          /\ \A v \in Writers : Writing(v) /\ write[v].path = p => v = w
      BY <2>1, <2>4 DEF OrderlyInv, OrderlyWriters
    <3>2. QED BY <2>1, <2>2, <3>1, NextPart
  <2>5. \A v \in Writers : Writing(v)' /\ write'[v].path = p /\ p \notin overlapped' =>
          /\ v = w
          /\ IsPartOf(text, write'[v].report)
          /\ write'[v].next = Len(text) + 1
    BY <2>1, <2>3, <2>4 DEF Writing
  <2>6. \A v \in Writers : write'[v] = write[v] \/ write'[v].path = p
    BY <2>3
  <2>7. p \notin overlapped' => \E r \in Reports : IsPartOf(text, r)
    BY <2>1, <2>2, <2>4
  <2> HIDE DEF p, text
  <2>8. QED BY <2>1, <2>5, <2>6, <2>7, FileOrderly
<1>3. CASE CutsFile(path)
  <2>1. PICK n \in 0 .. Len(disk[path]) - 1 : Holds(path, SubSeq(disk[path], 1, n))
    BY <1>3 DEF CutsFile
  <2> DEFINE text == SubSeq(disk[path], 1, n)
  <2>2. UNCHANGED overlapped /\ path \in DOMAIN disk
    BY <1>3 DEF CutsFile
  <2>3. \A v \in Writers : IF write[v].path = path THEN write'[v] = NoWrite
                           ELSE write'[v] = write[v]
    BY <1>3 DEF CutsFile, WritersOf
  <2>4. ASSUME path \notin overlapped
        PROVE  \E report \in Reports : IsPartOf(text, report)
    <3>1. PICK report \in Reports : IsPartOf(disk[path], report)
      BY <2>2, <2>4 DEF OrderlyInv, OrderlyFiles
    <3>2. /\ disk[path] \in Seq(Piece) /\ Len(disk[path]) \in Nat
          /\ Len(disk[path]) <= Pieces /\ n \in Nat /\ n < Len(disk[path])
      BY <3>1 DEF IsPartOf
    <3>3. \A j \in 1 .. n : disk[path][j] \in Piece
      BY <3>2
    <3>4. text \in Seq(Piece) /\ Len(text) = n /\ \A j \in 1 .. n : text[j] = disk[path][j]
      BY <3>2, <3>3, SubSeqProperties
    <3>5. \A j \in 1 .. Len(disk[path]) : disk[path][j] = <<report, j>>
      BY <3>1 DEF IsPartOf
    <3> HIDE DEF text
    <3>6. \A j \in 1 .. Len(text) : text[j] = <<report, j>>
      BY <3>2, <3>4, <3>5
    <3>7. Len(text) <= Pieces
      BY <3>2, <3>4, BoundAssumption
    <3>8. QED BY <3>4, <3>6, <3>7 DEF IsPartOf
  <2>5. \A v \in Writers : ~(Writing(v)' /\ write'[v].path = path)
    BY <2>3 DEF Writing
  <2> HIDE DEF text
  <2>6. Holds(path, text)
    BY <2>1 DEF text
  <2>7. QED BY <2>2, <2>3, <2>4, <2>5, <2>6, FileOrderly
<1>4. ASSUME NEW report \in Reports, CarriesIn(report, path) PROVE OrderlyInv'
  <2>1. PICK n \in 0 .. Pieces : Holds(path, SubSeq(Text(report), 1, n))
    BY <1>4 DEF CarriesIn
  <2>2. UNCHANGED write /\ overlapped' \ {path} = overlapped \ {path}
    BY <1>4 DEF CarriesIn, Begins
  <2>3. IsPartOf(SubSeq(Text(report), 1, n), report)
    BY PartFacts
  <2>4. path \notin overlapped' => \A v \in Writers : write'[v].path # path
    BY <1>4, <2>2 DEF CarriesIn, Begins, WritersOf
  <2>5. QED BY <2>1, <2>2, <2>3, <2>4, FileOrderly
<1>5. QED BY <1>1, <1>2, <1>3, <1>4

\* A step that leaves files and writers alone leaves them orderly.
LEMMA OrderKept ==
  ASSUME OrderlyInv, PublicInv', UNCHANGED files,
         \A w \in Writers : write'[w] = write[w] \/ write'[w] = NoWrite
  PROVE  /\ OrderlyFiles' /\ OrderlyWriters'
         /\ UNCHANGED read => OrderlyReads'
BY DEF files, OrderlyInv, OrderlyFiles, OrderlyWriters, OrderlyReads, OrderlyRead, Writing

\* A reader that reads on stays within what it reads; one that begins anew has
\* read nothing yet.
LEMMA ReaderStaysOrderly ==
  ASSUME OrderlyInv, PublicInv', NEW k \in Readers,
         ReaderStep(k) \/ \E path \in Paths : OpensFile(k, path)
  PROVE  OrderlyInv'
<1>1. /\ ReadPublic(read[k], DOMAIN disk) /\ OrderlyRead(read[k], disk)
      /\ read[k] \in ReadRecord
  BY DEF OrderlyInv, OrderlyReads, PublicInv, ReadsPublic, ReadPublic
<1>2. ASSUME UNCHANGED <<files, write>>, NEW entry,
             read' = [read EXCEPT ![k] = entry], OrderlyRead(entry, disk)
      PROVE  OrderlyInv'
  <2>1. OrderlyFiles' /\ OrderlyWriters'
    BY <1>2, OrderKept
  <2>2. \A j \in Readers : read'[j] = IF j = k THEN entry ELSE read[j]
    BY <1>2 DEF OrderlyInv, PublicInv, ReadsPublic
  <2>3. OrderlyReads'
    BY <1>2, <2>2 DEF files, OrderlyInv, OrderlyReads, OrderlyRead
  <2>4. QED BY <2>1, <2>3 DEF OrderlyInv
<1>3. ASSUME NEW entry, entry.phase # "reading" PROVE OrderlyRead(entry, disk)
  BY <1>3 DEF OrderlyRead
<1>4. ASSUME NEW path \in Paths, OpensFile(k, path) PROVE OrderlyInv'
  <2>1. CASE path \in DOMAIN disk
    <3> DEFINE disturbed == path \in overlapped
               entry == [NoRead EXCEPT !.phase = "reading", !.path = path,
                                       !.from = disk[path],
                                       !.disturbed = disturbed]
    <3>1. /\ entry.result = "none" /\ entry.path = path /\ entry.from = disk[path]
          /\ entry.disturbed = disturbed /\ entry.text = <<>>
      BY DEF NoRead
    <3>2. ~disturbed => \E report \in Reports : IsPartOf(disk[path], report)
      BY <2>1 DEF OrderlyInv, OrderlyFiles
    <3>3. Len(disk[path]) \in Nat
      BY <2>1 DEF OrderlyInv, PublicInv, FilesPublic, PublicText
    <3>4. read' = [read EXCEPT ![k] = entry]
      BY <1>4, <2>1 DEF OpensFile
    <3> HIDE DEF disturbed, entry
    <3>5. OrderlyRead(entry, disk)
      BY <3>1, <3>2, <3>3 DEF OrderlyRead
    <3>6. QED BY <1>2, <1>4, <3>4, <3>5 DEF OpensFile
  <2>2. CASE path \notin DOMAIN disk
    <3>1. [NoRead EXCEPT !.phase = "failed"].phase = "failed"
      BY DEF NoRead
    <3>2. QED BY <1>2, <1>3, <1>4, <2>2, <3>1 DEF OpensFile
  <2>3. QED BY <2>1, <2>2
<1>5. CASE ReadsPiece(k)
  <2> DEFINE file == disk[read[k].path]
             at == Len(read[k].text)
  <2>1. PICK n \in 1 .. Rest(k) :
          read' = [read EXCEPT ![k].text = @ \o SubSeq(file, at + 1, at + n)]
    BY <1>5 DEF ReadsPiece
  <2>2. file \in PublicText /\ read[k].text \in PublicText /\ Reading(k)
    BY <1>1, <1>5 DEF ReadsPiece, Reading, ReadPublic, ReadRecord, OrderlyInv,
                      PublicInv, FilesPublic
  <2>3. at \in Nat /\ Len(file) \in Nat
    BY <2>2 DEF PublicText
  <2>4. n \in Nat /\ at + n <= Len(file)
    <3>1. Rest(k) = Len(file) - at
      BY DEF Rest
    <3> HIDE DEF at, file
    <3>2. QED BY <2>3, <3>1
  <2> DEFINE piece == SubSeq(file, at + 1, at + n)
             longer == read[k].text \o piece
             entry == [read[k] EXCEPT !.text = longer]
  <2>5. /\ piece \in PublicText /\ Len(piece) = n
        /\ \A j \in 1 .. n : piece[j] = file[at + j]
    <3>1. \A i \in at + 1 .. at + n : file[i] \in PublicPieces(Public)
      BY <2>2, <2>3, <2>4 DEF PublicText
    <3>2. /\ SubSeq(file, at + 1, at + n) \in Seq(PublicPieces(Public))
          /\ Len(SubSeq(file, at + 1, at + n)) =
               IF at + 1 <= at + n THEN at + n - (at + 1) + 1 ELSE 0
          /\ \A j \in 1 .. at + n - (at + 1) + 1 :
               SubSeq(file, at + 1, at + n)[j] = file[at + 1 + j - 1]
      BY <2>3, <2>4, <3>1, SubSeqProperties
    <3>3. /\ (IF at + 1 <= at + n THEN at + n - (at + 1) + 1 ELSE 0) = n
          /\ at + n - (at + 1) + 1 = n
          /\ \A j \in 1 .. n : at + 1 + j - 1 = at + j
      BY <2>3, <2>4
    <3>4. QED BY <3>2, <3>3 DEF PublicText
  <2>6. /\ Len(longer) = at + n
        /\ \A j \in 1 .. at + n :
             longer[j] = IF j <= at THEN read[k].text[j] ELSE piece[j - at]
    BY <2>2, <2>5, ConcatProperties DEF PublicText
  <2>7. read' = [read EXCEPT ![k] = entry]
    BY <2>1
  <2> HIDE DEF longer, piece
  <2>8. /\ entry.text = longer /\ entry.phase = read[k].phase
        /\ entry.path = read[k].path /\ entry.result = read[k].result
        /\ entry.disturbed = read[k].disturbed /\ entry.from = read[k].from
    BY <1>1 DEF ReadRecord
  <2>9. OrderlyRead(entry, disk)
    <3>1. entry.result = "none"
      BY <1>1, <2>2, <2>8 DEF OrderlyRead, Reading
    <3>2. ASSUME ~read[k].disturbed
          PROVE  /\ read[k].from = file
                 /\ \E report \in Reports : IsPartOf(read[k].from, report)
                 /\ \A j \in 1 .. at : read[k].text[j] = file[j]
      BY <1>1, <2>2, <3>2 DEF OrderlyRead, Reading
    <3>3. ASSUME ~read[k].disturbed, NEW j \in 1 .. at + n
          PROVE  longer[j] = file[j]
      <4>1. CASE j <= at
        BY <2>3, <2>6, <3>2, <3>3, <4>1
      <4>2. CASE ~(j <= at)
        <5>1. j - at \in 1 .. n /\ at + (j - at) = j
          BY <2>3, <2>4, <4>2
        <5>2. longer[j] = piece[j - at]
          BY <2>6, <4>2
        <5>3. QED BY <2>5, <5>1, <5>2
      <4>3. QED BY <4>1, <4>2
    <3> HIDE DEF entry, at, file
    <3>4. QED BY <2>4, <2>6, <2>8, <3>1, <3>2, <3>3 DEF OrderlyRead, file
  <2> HIDE DEF entry
  <2>10. QED BY <1>2, <1>5, <2>7, <2>9 DEF ReadsPiece
<1>6. CASE ReadsEnd(k)
  <2>1. PICK result \in Results(read[k].text) :
          read' = [read EXCEPT ![k] =
                     [NoRead EXCEPT !.result = result,
                                    !.phase = IF result = "error" THEN "failed" ELSE "parsed"]]
    BY <1>6 DEF ReadsEnd
  <2> DEFINE phase == IF result = "error" THEN "failed" ELSE "parsed"
             entry == [NoRead EXCEPT !.result = result, !.phase = phase]
  <2>2. entry.phase # "reading"
    BY DEF NoRead
  <2>3. read' = [read EXCEPT ![k] = entry]
    BY <2>1
  <2> HIDE DEF entry
  <2>4. QED BY <1>2, <1>3, <1>6, <2>2, <2>3 DEF ReadsEnd
<1>7. CASE ReadFails(k) \/ Pushes(k) \/ IngestReturns(k) \/ IngestPanics(k)
  <2>1. /\ NoRead.phase # "reading"
        /\ [NoRead EXCEPT !.phase = "pushed"].phase # "reading"
        /\ [NoRead EXCEPT !.phase = "failed"].phase # "reading"
        /\ [NoRead EXCEPT !.phase = "panicked"].phase # "reading"
    BY DEF NoRead
  <2>2. QED BY <1>2, <1>3, <1>7, <2>1 DEF ReadFails, Pushes, IngestReturns, IngestPanics
<1>8. QED BY <1>4, <1>5, <1>6, <1>7 DEF ReaderStep

\* The invariant holds in every reachable state.
LEMMA OrderlyInvariant == Spec => []OrderlyInv
<1>1. Init => OrderlyInv
  <2> SUFFICES ASSUME Init PROVE OrderlyInv
    OBVIOUS
  <2>1. OrderlyFiles /\ OrderlyWriters
    BY DEF Init, OrderlyFiles, OrderlyWriters, Writing
  <2>2. OrderlyReads
    BY DEF Init, OrderlyReads, OrderlyRead, NoRead
  <2>3. QED BY <2>1, <2>2, InitPublic DEF OrderlyInv
<1>2. OrderlyInv /\ [Next]_vars => OrderlyInv'
  <2> SUFFICES ASSUME OrderlyInv, [Next]_vars PROVE OrderlyInv'
    OBVIOUS
  <2>0. PublicInv'
    BY NextPublic DEF OrderlyInv
  <2>1. CASE UNCHANGED <<files, write, read>>
    BY <2>0, <2>1, OrderKept DEF OrderlyInv
  <2>2. CASE \E w \in Writers : WriteEnds(w)
    <3>1. UNCHANGED <<files, read>>
      BY <2>2 DEF WriteEnds
    <3>2. \A w \in Writers : write'[w] = write[w] \/ write'[w] = NoWrite
      BY <2>2 DEF WriteEnds, OrderlyInv, PublicInv, WritesPublic
    <3>3. QED BY <2>0, <3>1, <3>2, OrderKept DEF OrderlyInv
  <2>3. CASE \E w \in Writers : WritesPiece(w)
    <3>1. PICK w \in Writers : WritesPiece(w)
      BY <2>3
    <3>2. write[w].path \in Paths
      BY <3>1 DEF WritesPiece, MoreToWrite, OrderlyInv, PublicInv, WritesPublic, FilesPublic
    <3>3. QED BY <2>0, <3>1, <3>2, FilesStayOrderly
  <2>4. CASE \/ \E w \in Writers, report \in Reports, path \in Paths :
                  CreatesFile(w, report, path)
             \/ \E path \in Paths : CutsFile(path)
             \/ \E report \in Reports, path \in Paths : CarriesIn(report, path)
    BY <2>0, <2>4, FilesStayOrderly
  <2>5. CASE \/ \E k \in Readers : ReaderStep(k)
             \/ \E k \in Readers, path \in Paths : OpensFile(k, path)
    BY <2>0, <2>5, ReaderStaysOrderly
  <2>6. CASE \/ UNCHANGED vars \/ Inspects \/ ReleasesGuard
             \/ \E report \in Reports : RefusesToShare(report)
    BY <2>1, <2>6 DEF vars, Inspects, ReleasesGuard, RefusesToShare
  <2>7. QED BY <2>2, <2>3, <2>4, <2>5, <2>6 DEF Next, WriterStep
<1>3. QED BY <1>1, <1>2, PTL DEF Spec

----------------------------------------------------------------------------
(* What is proved of a read                                                *)

\* Only the end of the file gives a reader a result.
LEMMA OnlyTheEndGivesResults ==
  ASSUME OrderlyInv, [Next]_vars, NEW k \in Readers, Reading(k),
         read'[k].result # "none"
  PROVE  ReadsEnd(k)
<1>0. /\ read[k].result = "none" /\ read[k] \in ReadRecord
      /\ read = [j \in Readers |-> read[j]]
  BY DEF OrderlyInv, OrderlyReads, OrderlyRead, Reading, PublicInv, ReadsPublic, ReadPublic
<1>1. read'[k] # read[k]
  BY <1>0
<1>2. ~\E path, text : Holds(path, text)
  <2> SUFFICES ASSUME NEW path, NEW text, Holds(path, text) PROVE FALSE
    OBVIOUS
  <2>1. read'[k] = [[read[k] EXCEPT !.disturbed = TRUE] EXCEPT !.from = <<>>]
    BY <1>1 DEF Holds
  <2>2. QED BY <1>0, <2>1 DEF ReadRecord
<1>3. UNCHANGED read \/ \E j \in Readers : ReaderStep(j) \/ \E path \in Paths : OpensFile(j, path)
  BY <1>2 DEF Next, vars, RefusesToShare, CreatesFile, WriterStep, WritesPiece,
              WriteEnds, Inspects, ReleasesGuard, CutsFile, CarriesIn
<1>4. PICK j \in Readers : ReaderStep(j) \/ \E path \in Paths : OpensFile(j, path)
  BY <1>1, <1>3
<1>5. j = k
  <2> SUFFICES ASSUME j # k PROVE FALSE
    OBVIOUS
  <2>1. read'[k] = read[k]
    BY <1>0, <1>4 DEF ReaderStep, OpensFile, ReadsPiece, ReadsEnd, ReadFails,
                      Pushes, IngestReturns, IngestPanics
  <2>2. QED BY <1>1, <2>1
<1>6. ~\E path \in Paths : OpensFile(k, path)
  BY DEF OpensFile, Reading
<1>7. ~Pushes(k) /\ ~IngestReturns(k) /\ ~IngestPanics(k)
  BY DEF Pushes, IngestReturns, IngestPanics, Reading
<1>8. ~ReadsPiece(k)
  <2> SUFFICES ASSUME ReadsPiece(k) PROVE FALSE
    OBVIOUS
  <2>1. PICK text : read' = [read EXCEPT ![k].text = text]
    BY DEF ReadsPiece
  <2>2. read'[k].result = read[k].result
    BY <1>0, <2>1 DEF ReadRecord
  <2>3. QED BY <1>0, <2>2
<1>9. ~ReadFails(k)
  <2> SUFFICES ASSUME ReadFails(k) PROVE FALSE
    OBVIOUS
  <2>1. read'[k] = [NoRead EXCEPT !.phase = "failed"]
    BY <1>0 DEF ReadFails
  <2>2. QED BY <2>1 DEF NoRead
<1>10. QED BY <1>4, <1>5, <1>6, <1>7, <1>8, <1>9 DEF ReaderStep

\* Who reads a file that nobody touches meanwhile gets the report in it, if
\* the file holds all of it and its version is known, and otherwise an error:
\* never another report, and never a part of one.
THEOREM FaithfulReads == Spec => UndisturbedReadIsFaithful
<1> DEFINE Faithful(k) ==
      (Reading(k) /\ ~read[k].disturbed /\ read'[k].result # "none") =>
         LET whole == {report \in Readable : read[k].from = Text(report)}
         IN IF whole = {} THEN read'[k].result = "error" ELSE read'[k].result \in whole
<1>1. OrderlyInv /\ [Next]_vars => \A k \in Readers : Faithful(k)
  <2> SUFFICES ASSUME OrderlyInv, [Next]_vars, NEW k \in Readers,
                      Reading(k), ~read[k].disturbed, read'[k].result # "none"
               PROVE  LET whole == {report \in Readable : read[k].from = Text(report)}
                      IN IF whole = {} THEN read'[k].result = "error"
                         ELSE read'[k].result \in whole
    OBVIOUS
  <2>1. ReadsEnd(k)
    BY OnlyTheEndGivesResults
  <2>2. /\ read[k].text \in PublicText /\ read[k].from \in PublicText
        /\ read = [j \in Readers |-> read[j]]
    BY DEF OrderlyInv, PublicInv, ReadsPublic, ReadPublic, ReadRecord
  <2>3. /\ read[k].from = disk[read[k].path]
        /\ \E report \in Reports : IsPartOf(read[k].from, report)
        /\ Len(read[k].text) <= Len(read[k].from)
        /\ \A j \in 1 .. Len(read[k].text) : read[k].text[j] = read[k].from[j]
    BY DEF OrderlyInv, OrderlyReads, OrderlyRead, Reading
  <2>4. Len(read[k].text) = Len(read[k].from)
    <3>1. Len(read[k].text) \in Nat /\ Len(read[k].from) \in Nat
      BY <2>2 DEF PublicText
    <3>2. Len(read[k].from) - Len(read[k].text) <= 0
      BY <2>1, <2>3 DEF ReadsEnd, Rest
    <3>3. QED BY <2>3, <3>1, <3>2
  <2>5. read[k].text = read[k].from
    BY <2>2, <2>3, <2>4 DEF PublicText
  <2>6. PICK result \in Results(read[k].text) : read'[k].result = result
    <3>1. PICK result \in Results(read[k].text) :
            read'[k] = [NoRead EXCEPT !.result = result,
                                      !.phase = IF result = "error" THEN "failed" ELSE "parsed"]
      BY <2>1, <2>2 DEF ReadsEnd
    <3>2. read'[k].result = result
      BY <3>1 DEF NoRead
    <3>3. QED BY <3>2
  <2>7. QED BY <2>3, <2>5, <2>6, PartParses
<1>2. QED BY <1>1, OrderlyInvariant, PTL DEF Spec, UndisturbedReadIsFaithful
=============================================================================
