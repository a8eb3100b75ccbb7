# A TLA+ verification of tpt-ate

`tpt-ate` drives test and assembly equipment. A host talks SECS/GEM over HSMS
to a tester or a placement machine, collects what the machine reports, and
turns it into STDF files and outcome files. This directory holds TLA+ models
of that code, from the bytes of a SECS-II item to the outcome files that two
companies exchange, the TLC runs that check them, and TLAPS proofs about nearly
every component that has a model, from the HSMS session and the runs that use
it to the fields of an STDF record and the report on a placement.

All paths are relative to `src/` of the repository, and in the tables without
their crate's directories when the file name is unique.

## 1. Inventory

| Component | Source | State it keeps | Operations |
| --- | --- | --- | --- |
| HSMS session | `tpt-ate-comm/src/secs/hsms.rs` 336-559 | `state`, `next_system_bytes`, the stream | `select`, `accept_select`, `transact` (with `await_reply`), `serve_one` |
| HSMS framing | `hsms.rs` 1-332 | none | `encode`, `from_bytes`, `read_message`, `write_message` |
| Duplex pipe | `secs/transport.rs` | one byte queue and one `closed` flag per direction, a mutex and a condition variable | `read`, `write`, `drop` |
| GEM sessions | `secs/gem.rs` | the session, model name and revision | `EquipmentGem::{serve_one, send_event_report}`, `HostGem::{online_data, establish_communications, receive_event_report, serve_event_reports, transact}` |
| SECS-II items | `secs/item.rs` | none | `encode`, `decode` |
| Simulated tester, wafer run | `tpt-ate-test/src/sim.rs`, `tests/phase1_milestone.rs` | the wafer map, the host's `gem_results` | `run_wafer_over_hsms`, the collecting loop, `encode_die_report`, `decode_die_report` |
| Bin sort, wafer map | `bin_sort.rs`, `bins.rs`, `wafer.rs`, `patterns.rs` | `WaferDieMap::dies`, `BinTally` | `sort_die`, `sort_wafer`, `tally`, `record` |
| Recording | `recording.rs` | none | `build_wafer_run_records`, the GDR map's encoder and decoder |
| STDF records | `stdf/records.rs`, `stdf/codec.rs` | none | `encode`, `decode` |
| STDF files | `stdf/writer.rs`, `stdf/reader.rs` | `wrote_far`; `saw_far`, `endian` | `write`, `next_record` |
| Assembly link, machine | `tpt-ate-assembly/src/{link,equipment,techniques,backend}.rs` | each side's plan, the host's records | `connect`, `place`, `await_placement_event`, `execute_plan`, `AssemblyEquipment::run` |
| Placement verification | `verify.rs`, `layout.rs` | none | `verify_placements` |
| Outcome schema, cohort rule | `tpt-ate-aggregate/src/{outcome,schema}.rs` | `BinDistribution`, its `withheld` marks | `from_tally`, `redact_below_cohort`, `publishable_count`, `is_readable_by` |
| Outcome files, ingestion | `tpt-ate-aggregate/src/{file,ingest}.rs` | files on disk, the ingestor's list and its mutex | `write_outcome_file`, `read_outcome_file`, `ingest`, `received` |
| Random generator | `tpt-ate-comm/src/rng.rs` | 64 bits | `from_parts`, `uniform` |

**How they interact.** A run is two threads. Each owns one `HsmsSession` over
one half of the duplex pipe; the pipe is all they share. A GEM session calls
its HSMS session, an HSMS call blocks in a read of the pipe until a frame
arrives or the peer has dropped its half, and the reply of a served primary is
computed by a closure inside `serve_one`. After a wafer run the results are
sorted, tallied and written as STDF records by one thread, and the tally is
summarized and redacted for the outcome report. Outcome files are exchanged by
hand: writers and readers that share only the file system, and an ingestor
behind a mutex that its inspectors hold too.

**What is hard here.** There are no timeouts and no retries: a lost answer
blocks a thread until its peer ends. Replies are matched on system bytes alone,
and both sides count them from 1. A failed `transact` leaves its secondary in
the pipe. The number of handshake primaries is fixed on one side and free on
the other. An acknowledge is sent (inside `serve_one`) before the caller has
looked at what it acknowledges. Host and machine each walk a copy of the plan
of their own. The same results are counted by two loops with different
knowledge. The fields of a record are listed twice, once per direction, and are
guarded by flags that the caller sets independently. Outcome files are written
in place, and a panic of an inspector poisons the ingestor. `PROJECT.json` lists each of these hazards at its line.

**What makes each part correct**, in one sentence each: a `transact` returns
the answer to its own primary; a selected host faces a selected equipment; the
results a run collected are exactly the ones the equipment produced, in order
and once; a thread never waits for one that has ended; a placement has a
command; the counters of one STDF file agree with each other; what is decoded
is what was encoded; a clean placement report means an assembled package; a
report leaves its owner's writer only if it may be shared, and is received only
if the reader can read it.

## 2. Modules

| Module | Models | Extends or instantiates |
| --- | --- | --- |
| `HsmsSession` | two HSMS sessions joined by the pipe, each used in any order of calls | |
| `HsmsSession_proofs` | its types, replies, selection and transactions, proved | extends `HsmsSession` |
| `GemThreads` | GEM, the handshake and the ways a thread ends; what both runs share | instantiates `HsmsSession` |
| `GemThreads_proofs` | which session steps a thread takes, and what two threads that answer each other have in flight: lemmas | extends `GemThreads` |
| `WaferRun` | the tester's thread and the collecting host | extends `GemThreads`, refines `ReportStream` |
| `WaferRun_proofs` | a wafer run's invariants and both its refinements, proved | extends `WaferRun`, `GemThreads_proofs` |
| `AssemblyRun` | the machine's thread and the placing host | extends `GemThreads`, refines `ReportStream` |
| `AssemblyRun_proofs` | a placement run's invariants and both its refinements, proved | extends `AssemblyRun`, `GemThreads_proofs` |
| `ReportStream` | abstract: a stream of acknowledged reports | |
| `WaferSort` | results to wafer map, tally and STDF summary counters | |
| `WaferOutcome` | the tally's bin summary and its redaction | extends `WaferSort` |
| `WaferOutcome_proofs` | the invariants of the sort, sums over finite sets, and the cohort rule, proved | extends `WaferOutcome` |
| `StdfStream` | an STDF file between its writer and its reader | |
| `StdfStream_proofs` | its invariants, and where records stand in a file, proved | extends `StdfStream` |
| `StdfRecord` | the bytes of an STDF record, in both directions | extends `Utf8` |
| `SecsCodec` | the bytes of SECS-II items and HSMS frames | extends `Utf8` |
| `Utf8` | what reading bytes as text does to them | |
| `PlacementVerify` | `verify_placements`, and what it should mean | |
| `Reference` | one input at a time for the record codec and the verification | extends `StdfRecord`, `PlacementVerify` |
| `Reference_proofs` | the record codec and the verification, proved for every input | extends `Reference` |
| `OutcomeExchange` | outcome files, their readers and writers, the ingestor | refines `OutcomeLedger` |
| `OutcomeLedger` | abstract: shareable reports are published, any may be carried in, readable ones are received | |
| `OutcomeExchange_proofs` | the refinement, the types and what an undisturbed reader gets, proved | extends `OutcomeExchange` |
| `MCWaferRun`, `MCAssemblyRun`, `MCWaferSort`, `MCStdfStream`, `MCOutcomeExchange` | values for the model checker | extend the module they name (`MCWaferSort` extends `WaferOutcome`) |
| `MCReference` | the inputs on which the pure parts are checked, and the codecs of the wire | extends `Reference`, `SecsCodec` |

### HsmsSession

`state`, `nextSystemBytes`, `inbox` and `dropped` are the fields of the two
sessions and of the pipe. `call[p]` is the blocking operation thread `p` is
inside and `ret[p]` what its last operation returned. One step starts an
operation up to its first read (`Select`, `AcceptSelect`, `Transact`,
`ServeOne`, or `NotSelected` for the early return), and one step is one
iteration of a read loop: `SelectAnswered`, `SelectFails`, `AcceptsRequest`,
`AcceptFails`, `ReceivesReply`, `TransactFails`, `ServesPrimary`,
`RejectsFrame`, `AnswersLinktest`, `AnswersSelect`, `Deselects`, `ServeFails`,
`ReadsEof`. Such a step is atomic because a session belongs to one thread and
each inbox has one reader and one writer.

The system bytes of a data frame are modelled as the pair of the session that
drew them and the position in its sequence of draws. The code sees only the
position modulo `SystemBytesMod` (2^32), and `Matches` compares just that; the
rest lets properties say which call a frame belongs to. `Functions`, `Bodies`
and the reply are arbitrary, so the module covers every user of a session.
`ExternalFrame` puts a control frame in an inbox that this crate never sends
but has a branch for (`Linktest.req`, `Separate.req`, a frame that does not
decode, ...): a peer that is not this crate.

`separated` and `crossed` are history variables: whether a `Separate.req` has
been processed, and whether a primary was sent towards one still unanswered.

### GemThreads, WaferRun, AssemblyRun

`at[p]` is the call thread `p` made last. The code between two calls touches
only its own thread and is part of the next step, except where it acts on what
it was told: recording a report and taking an acknowledge are steps of their
own, because the other thread may end in between. `SessionStep(p)` is the
session's step inside a call. `Panics(p)` ends a thread between two calls with
an error or a panic of its own, after which its half of the pipe is dropped;
`Fails(p, ...)` is every `?` on an `Err` or on a reply that does not parse.

`WaferRun` has one report per key of `WaferDieMap::dies` and then
`WAFER_DONE`. `WireCoord` is the cast to `u16`. `AssemblyRun` has one command
and one report per site; `rcmd` is the technique of the host's backend, chosen
at the start, and so is `equipPlan`, the machine's copy of the plan. The `SITE`
the machine reports is the one of its own plan. The reported position is left
out: no thread decides on it.

`ReportStream` says what both runs promise: results are recorded in order,
once each, and host and equipment are never more than one result apart. The
refinement maps `recorded` and `acked` to what the host took in and what the
equipment saw acknowledged, and the two threads' ends to `hostEnd` and
`equipEnd`; everything else is a stutter. In an assembly run the host takes in
(`events`) also the event reports it passes over, so the refinement holds
whatever the two plans are.
`UsesSession` is the other refinement, downwards: every step of a run is a step
that `HsmsSession` allows, so what is proved there holds in the run. It is
checked of placement runs and proved of both.

### WaferSort

One step per iteration of the loops of `sort_wafer` and `tally`, and one for
the construction of the records. A result is the verdicts of the executed items
in order; an aborted one has fewer. `SortDie` is `sort_die` whole: the first
failing measurement, then the first failing pattern, the declared soft bin or
the default of the kind, and the roll-up. Measured values are left out, because
binning reads only verdicts.

### StdfStream

`wroteFar`, `sawFar` and `endian` are the fields of `StdfWriter` and
`StdfReader`; `header`, `body` and `readBack` are the locals of `next_record`
and `read_all`; `calls` is a history of what the writer was asked and
answered. `WriteOk` and `WriteFails` are one call of `write`: a failed one
leaves any part of its bytes in the file, and all of them when it is the flush
that fails. `Closes` hands the file to the reader; a crash during a write is a
failed write that no other follows. The reader steps once per `read`, each of
which returns any number of bytes: `ReadsEnd`, `ShortHeader`, `ReadsHeader`,
`Interrupted`, `ReadFails`, `ReadsBody`, `BodyCut`, and `Parses`, which is
`Record::parse` and the loop's next turn.

A byte is the record it was encoded from and its place in it. A header that
stands where it was put is read as what it is; other bytes are a header of any
type and length, and a body that parses as something else or fails. What
`Record::parse` makes of a record's own body is the constant `ReadsAs`: the
record itself, another one, or an error, because a PTR or FTR whose flags and
optional fields disagree is written without the fields that `parse` then looks
for (`records.rs` 776-812, 941-960). Which record is which is the subject of
`StdfRecord`: `RoundTrips` says exactly when a body is read as its own record.
`StdfStream` is about the stream of them, and covers every choice.

`ReadIsPrefix` says that what is read are the first records that were asked
for, each as what its own body is read as (`Reread`). It and `CutIsNoticed`
speak of a caller that stops at the first
failed write (`StopsAtFailure`), and of records whose body fits `REC_LEN` and
whose FAR says little-endian (`Representable`). The code checks none of it: a
body is cut to its length modulo 2^16, and an `M68000` FAR is followed by
little-endian records. `RefusalsHaveReasons` lists why a file that was written
and is read without a failure may be refused all the same: a part of a header,
or a record whose own body does not parse, behind which nothing can be read.

### WaferOutcome

`distribution` is the public `BinDistribution` of the outcome report, built from
the tally once the wafer is recorded. Its owner may redact it as often as it
likes, each time for any cohort. `redactedFor` is a history variable. The model
keeps what the code keeps: the count stays in a bucket that is marked.

### StdfRecord, SecsCodec, PlacementVerify, Reference

The first three are operators, no state machines. `Reference` picks one input
per step, of any set of records, bodies and placement runs that the code can be
given, and states what the operators should mean. `MCReference` has the sets for
the model checker and adds `SecsCodec`, whose operators are recursive and would
keep `Reference` from being reasoned about.

`StdfRecord` lists the fields of each record type once (`Layout`), with the
condition under which a field is written (`Written`) and the one under which it
is looked for (`Sought`); the code has the two directions as separate
functions, and the round trip is about their agreement. `Body` is
`Record::encode` up to the header, `BodyInFile` the part that `REC_LEN` counts,
`Parse` is `Record::parse`. A numeric value is its bytes. `Canonical` says of a
record that its optional fields and its flags agree; `RoundTrips` that these
records, and no others, are read back as they were written.

`SecsCodec` has `EncodeItem` and `DecodeItem` (headers of one to three length
bytes, nested lists, elements of a fixed width), `EncodeFrame` and `MessageOf`
(header bytes, the seven-bit stream and function, the fields that lie over the
system bytes) and `ReadMessage`, which takes a frame off a stream before it
decodes it. `Radix` stands for the 256 values of a length byte, so that an item
of 64 elements has four length digits and is refused. `FramesStaySeparate`
cuts a stream of two frames at every byte: together with the FIFO of bytes that
`transport.rs` is, it is what allows `HsmsSession` to have whole frames in its
inboxes.

`Utf8` models `String::from_utf8_lossy` for one byte that is no UTF-8 and is
replaced by three.

`PlacementVerify` has `Violations`, the whole of `verify_placements` as a set,
and `Assembled`, which does not mention rectangles' edges or an order of
records: each site has its die, and the dies cover no cell in common.
`OkMeansAssembled` equates the two for records that follow the layout, which is
what `execute_plan` makes (`FollowsLayout`), and layouts whose dies have an area
and whose sites have names of their own (`Buildable`). Coordinates are any
integers.

### OutcomeExchange

A text is a sequence of `Pieces` pieces, and a file what has been written of
texts to it. `CreatesFile`, `WritesPiece` and `WriteEnds` are
`write_outcome_file`: `std::fs::write` truncates and then writes, and may stop
anywhere with an error or a crash. Two writers of one path each have an offset
of their own (`Put`), and the file may then hold pieces of both: such a text
usually does not parse, and if it does the result is `Mixed`. `OpensFile`,
`ReadsPiece`, `ReadsEnd` and `ReadFails` are `read_outcome_file`; `Results` is
the parser and the version check. `CutsFile` is a power failure: nothing is
synced. `CarriesIn` is a file that reaches the path without the writer, in whole
or in part: by hand, or by another program, as in the test
`future_schema_rejected` (`file.rs` 142). Nobody has looked at its consent, and
`read_outcome_file` and `ingest` do not either.

`guard`, `poisoned` and `received` are the ingestor's mutex and list. `Pushes`
is the statement that takes the lock and appends (`ingest.rs` 47), and
`IngestReturns` the Ok after it; another reader may push and return in between,
so nothing is said of the order of returns.
`Inspects` takes the guard, and `ReleasesGuard` drops it, by a panic of its
holder or not. The guard gives its holder the list itself, through which it
could be changed; the callers in the repository only read it (`ingest.rs` 76,
`phase3_milestone.rs` 260), and so does the model. `IngestPanics` is the
`expect` on a poisoned mutex.

`published`, `carried`, `overlapped` and a reader's `disturbed` and `from` are
history variables. `OutcomeLedger` is the promise without files, pieces or
locks: shareable reports are published, any report may be carried in, and what
is received came in one of these ways and is of a known version. So it promises
a consent of what the writer publishes, and none of what is received; that the
comments do is a divergence (`NothingUnsharedReceived`, section 6). It calls a
`Mixed` report `Garbled` and promises of it only that there
was something to mix. Its `Shareable` and `Readable` are stated by enumeration of
consents and versions, not by the guards of the model.

## 3. Runs

Bounds are named constants of the modules: `MaxDraws` (system bytes per
session), `MaxExternal` (stray control frames), `MaxPanics` (threads that end by
themselves), `MaxResults`, `MaxWrites` (calls of `write`; files written, cut or
carried in), `MaxReads` (calls of `read_outcome_file`), `MaxInspections`,
`MaxFaults` (reads that end in an error).

| Run | Question | Instance |
| --- | --- | --- |
| `session_control` | Do replies, selection and transactions stay consistent whatever order the two threads call in, also when the counter wraps? | modulus 2, 4 draws each: two laps; 1 stray frame of any of 6 kinds; function 127; 555 thousand states |
| `wafer_run` | Is a wafer run a stream of acknowledged reports; does it end; does it complete if undisturbed; is Ok reliable? | 2 dies, both threads may panic, 2 stray frames |
| `wafer_left_of_origin` | Is the location carried unmodified? Not when negative. | dies at -1 and 0 |
| `assembly_run` | The same for a placement run; is every record of a placement, and every placement commanded, when plans or techniques differ? | a site twice in 3 commands; the machine has the same plan, one that differs in a site, or a shorter one; 2 techniques; 2 panics, 2 stray frames |
| `assembly_order` | Does the host drive the order? No. | the same 2 sites in two orders |
| `sort_counters` | Do the counters of one file reconcile, and does a redacted summary stay redacted? | 3 sites, one excluded, one coordinate off the layout, 3 results with retests and aborts; cohorts 1 to 3 |
| `outcome_withheld` | Does a withheld bucket hide its size? No. | 2 results |
| `stdf_file` | Is what is read a prefix of what was written, is a cut file noticed, and why is a whole one refused? | 3 writes of records of 6 kinds (2 FARs, one without a body, one read as another, one not read, one too long), each may fail after any byte; 1 failing read; 18.6 million states |
| `outcome_exchange` | What do readers and the ingestor get while files are written, overwritten, cut and carried in? | 1 path, 2 writers, 2 readers, 4 reports (readable, of a newer major, with a number that is not finite, not shared), texts of 2 pieces, 2 writes, 2 reads, 1 inspection; 805 thousand states |
| `outcome_consent` | Is a report that is not shared kept from the ingestor? Not if its file was carried in. | the same |
| `reference` | Do the codecs and the verification mean what they should? | 43.6 thousand inputs, `LengthMod = 512`, `Radix = 4` |
| `placement_nominal` | Is a verified die within the tolerance of its site? Not if its record has another nominal position. | the same inputs |

**Why the bounds are enough.** A session's behaviour depends on which frames
are in flight, not on how many came before. Four draws give a select and three
transactions per side, so a failed transaction, its leftover secondary and the
next transactions all happen. Without a stray frame an exchange always fits,
so there are at most `MaxExternal` leftovers. `session_control` has one, and
modulus 2, so that the leftover is met with the other residue and then with its
own. The runs of the wafer and of the plan have two stray frames, which disturb
a transaction and the one after it, and a modulus that is never reached. With
as many leftovers as the modulus a reply of an earlier lap would be taken: in
the code that needs 2^32 failed transactions on one session.

Two dies give a first and a last report, with `WAFER_DONE` as a third. Three
commands with a repeated site give the case in which a late event would pass
for a later command. The machine's plan is never longer than the host's: a
longer one makes the machine wait for a command until the host drops its
session, and `execute_plan` keeps the session for its caller. Three results are
a first result, a retest and one elsewhere. Three writes are a first, a middle
and a last one, and with the FAR that the writer adds the file has four
records; the bodies have no byte, a byte, two (FAR), and more than `REC_LEN` can
say, with `LenMod = 3` in the place of 2^16. One failing read is enough, because
`read_all` returns at the first. Two pieces are the least of which a part can be
missing or come from another text; two writes are a file and what replaces or
cuts it, by two writers at once if they overlap; two reads are two readers, or
a reader that comes back.

The inputs of `reference` are chosen by case, not by size. Every record type is
taken with its flags alone and together, with every choice of present options,
with empty and other texts, with arrays at the limits of a length, each body
also cut at every byte and with a tail. Items are of every format, with no
element, with some, and with as many as one, two and three length bytes can
say; accepted bytes are all strings of up to four bytes over nine that matter
to the decoder. Frames are every pair of 29, seven of them not of this crate,
cut at every byte. Placements are every pair of positions of two dies on a
layout of 4 by 3 and just outside it, and three dies near their sites.
`LengthMod = 512` keeps the two bytes of a length and lets it wrap; `Radix = 4`
keeps the three length bytes of an item and fills them with 63 elements.

The theorems of section 5 remove the bounds for every refinement and every
invariant of the runs but two: for any wafer, plans, taxonomy, parties, records,
bodies and what they are read as, layouts and tolerances, any number of draws, stray frames, panics,
writes, reads and failing reads. What stays bounded are the liveness properties
and the inputs of `SecsCodec` (`ItemsDecodeExactly`, `FramesSurvive`).

**Every disjunct fires** in the passing runs taken together; `CoordMod = 4`
stands for 2^16, with every die's coordinate below it except in
`wafer_left_of_origin`. `CHECK_DEADLOCK FALSE` appears where the model really
stops: threads end, counters reach their bound, a file is written.

**Sensitivity.** Definitions marked "Variant for a sensitivity check" are
plausible bugs: a reply matched without system bytes, a secondary that keeps
more than seven bits, a drop that closes the wrong end, a handshake loop that
runs once too often, a short header taken for the end of the file, a file that
is not truncated before it is overwritten, a redaction that forgets the one
before. They are never used in a specification. `PROJECT.json` pairs every
property of every passing run with a variant, and the property fails once the
variant takes the place of the original.

## 4. Fairness

`HsmsSession`, `ReportStream`, `OutcomeLedger`, `WaferSort`, `WaferOutcome`,
`StdfStream` and `Reference` state no fairness and only safety is checked of
them. `WaferRun` and `AssemblyRun` assume weak fairness of each
thread's own steps, `WF_vars(HostStep) /\ WF_vars(EquipStep)`. The code
justifies it: the threads are operating-system threads, a thread that is not
blocked is scheduled, and a thread blocked in `read_bytes` is woken by
`notify_all` after each write and each close. Weak fairness is enough, because
a thread's step, once enabled, stays enabled until that thread takes it:
frames only join the end of its inbox, and a drop is never taken back. No
fairness is assumed of panics or of stray frames.

`OutcomeExchange` assumes weak fairness of each reader's steps, for the same
reason, and of `ReleasesGuard`: whoever inspects the list does not keep the
guard. Weak fairness is enough for a reader that waits for the mutex because
inspections are bounded; with endless inspections a fair mutex would be needed.
No fairness is assumed of writers, so a file may stay half written for ever.

`ThreadsEnd`, `RunCompletes`, `PlacementsComplete` and `ReadsFinish` rest on it.
`ThreadsEnd` is checked with crashes and stray frames at any moment; that it
fails in `assembly_order` shows that it is not a consequence of the fairness
alone.

## 5. What is proved

Eight modules of theorems. Each theorem holds for every value of the constants
that satisfies the `ASSUME`s of its module, and for nothing less unless the
table has a hypothesis. Where the table gives no other specification, `Spec` is
that of the module the proofs extend.

| Module | Theorem | States | Argument |
| --- | --- | --- | --- |
| `HsmsSession_proofs` | `TypeCorrect` | `Spec => []TypeOK` | inductive by itself; the one arithmetic fact is that the secondary's function is masked to seven bits |
| | `ReplyIntegrity` | `Spec => []ReplyAnswersPrimary` if `MaxDraws <= SystemBytesMod` | `ReplyInv` |
| | `SelectionAgreement` | `Spec => []SelectionAgrees` | `SelectionInv` |
| | `SelectBeforeData` | `Spec => []NoDataBeforeSelection` | `SelectionInv` |
| | `OneToken` | `Spec => []OneTokenPerTransaction` | `TokenInv` |
| `WaferRun_proofs` | `WaferRunUsesSession` | `Spec => UsesSession` | step simulation under `RunInv` |
| | `WaferTypeCorrect` | `Spec => []TypeOK` if `HandshakeFits` | `SafeInv` |
| | `WaferNeverCrosses` | `Spec => []NeverCrosses` if `HandshakeFits` | `SafeInv` |
| | `WaferCollected` | `Spec => []DoneMeansCollected` if `HandshakeFits` and `CoordsFit` | `SafeInv` |
| | `WaferIsReportStream` | `Spec => ImplementsReportStream` if `HandshakeFits` | step simulation under `SafeInv` |
| `AssemblyRun_proofs` | `AssemblyRunUsesSession` | `Spec => UsesSession` | step simulation under `RunInv` |
| | `AssemblyTypeCorrect` | `Spec => []TypeOK` | `SafeInv` |
| | `AssemblyNeverCrosses` | `Spec => []NeverCrosses` | `SafeInv` |
| | `PlacementRecords` | `Spec => []RecordsArePlacements` | `SafeInv` |
| | `PlacesAsCommanded` | `Spec => []NothingUncommanded` | `SafeInv` |
| | `WrongTechniqueRefused` | `Spec => []WrongTechniquePlacesNothing` if `HostPlan # <<>>` | `SafeInv` |
| | `AssemblyIsReportStream` | `Spec => ImplementsReportStream` if `PlansFit` | step simulation under `SafeInv` |
| `WaferOutcome_proofs` | `SortTypes` | `Spec => []TypeOK` | `SortInv` |
| | `SnapshotKeepsMap` | `Spec => []SnapshotIsMap` | `SortInv` |
| | `CountersDoReconcile` | `Spec => []CountersReconcile` | `SortInv` |
| | `BinsDoCoverMap` | `Spec => []BinsCoverMap` | `SortInv` |
| | `PassBinsDoHoldGoodDies` | `Spec => []PassBinsHoldGoodDies` | `SortInv` |
| | `SynopsesDoExplainFailures` | `Spec => []SynopsesExplainFailures` | `SortInv` |
| | `OutcomeKeepsSort` | `OutcomeSpec => Spec` | redactions leave the sort alone, so the six theorems above hold under `OutcomeSpec`, which the run checks |
| | `CohortIsKept` | `OutcomeSpec => []NothingBelowCohort` | `CohortInv` |
| `StdfStream_proofs` | `StreamTypes` | `Spec => []TypeOK` | `StreamInv` |
| | `ReadsWhatWasWritten` | `Spec => []ReadIsPrefix` | `StreamInv` |
| | `CutFilesAreNoticed` | `Spec => []CutIsNoticed` | `StreamInv` |
| | `RefusalsDoHaveReasons` | `Spec => []RefusalsHaveReasons` | `StreamInv` |
| `OutcomeExchange_proofs` | `ExchangeTypes` | `Spec => []TypeOK` | `PublicInv` |
| | `ExchangeImplementsLedger` | `Spec => ImplementsLedger` | step simulation under `PublicInv` |
| | `FaithfulReads` | `Spec => UndisturbedReadIsFaithful` | `OrderlyInv` |
| `Reference_proofs` | `ReportsMeanAssembled` | `Spec => []ReportMeansAssembled` | `AcceptedIsAssembled`, `AssembledIsAccepted` |
| | `RecordsDoRoundTrip` | `Spec => []RecordsRoundTrip` | `CanonicalIsRead`, `ReadIsCanonical` |
| | `RewritesDoOnlyTrim` | `Spec => []RewritesOnlyTrim` | `WrittenAgain`, `ParsedIsCanonical`, `CanonicalIsRead` |

The hypotheses, and why the code has them:

- `MaxDraws <= SystemBytesMod`: the counter does not complete a lap of 2^32.
  The model checker looks at what happens beyond it (`session_control`).
- `HandshakeFits`: the handshake has at most the two primaries the comment of
  `sim.rs` (149) names. The tester serves two and then reports; a host with more
  to send would cross a report. A placement run needs no such thing: the machine
  serves until it has a command.
- `CoordsFit`: the wafer's coordinates fit the wire. `wafer_left_of_origin`
  shows what happens to the others.
- `HostPlan # <<>>`: a host with nothing to place returns Ok on any machine.
- `PlansFit`: no plan of the machine is longer than the host's. Otherwise the
  host returns before the machine's stream is over, and the refinement is
  false; the model checker has the counterexample as soon as such a plan is
  among `EquipPlans`.

Conditions of the properties themselves are part of what is stated: that a
caller stops at the first failed write, or that the fail bins are no pass bins
(section 6).

**ReplyInv.** `ReplyAnswersPrimary` speaks of frames that have been returned;
by itself it says nothing of the frames still in flight. `ReplyInv` adds that
every data frame in an inbox is well directed (a primary goes away from the
session that drew its system bytes, a secondary comes back to it, and its index
has been drawn: `AllWellDirected`), and that as long as no primaries have
crossed, a thread waiting in `transact` has its own secondary ahead of any
primary in its inbox (`SecondaryAhead`). So the first frame whose system bytes
match can only be the awaited secondary: a primary is never first, and by
`MaxDraws <= SystemBytesMod` two draws with the same residue are the same draw.

**SelectionInv.** `SelectionAgrees` alone is not inductive: it does not say
where a Select.rsp with status Selected may come from. Only the equipment's
`accept_select` sends one. `NothingBefore` says that until the equipment is
selected the host is not, no such frame is in flight to the host, and no data
is in flight at all; `GrantPending` that while the equipment is selected and
the host is not yet, such a frame is in the host's inbox ahead of all data;
`CallsAllowed` that only the host selects, only the equipment accepts, and that
a thread inside `transact` or `serve_one` is selected. All but the last hold
until a `Separate.req` is processed.

**TokenInv.** That frames of one transaction are never two (`TokensDiffer`) does
not say why a fresh primary is of no transaction in flight: it is because every
frame in flight has an index its owner's counter has passed
(`AllWellDirected`). A secondary then takes the place of the primary that is
read in the same step. The argument never looks at system bytes, so the theorem
needs no bound on the counter and holds where `ReplyIntegrity` does not.

**RunInv.** A thread's step calls one session, but only with a body of the
session's alphabet is it a step of `HsmsSession`. For commands and reports that
depends on where the thread is: `RunInv` says that a tester that has not ended
and has nothing to take in has reported at most the whole wafer, and that a
machine that is about to place has sites left. `GemThreads_proofs` has, for both
runs, that a reply computed from a body is a body, and that handshakes, stray
frames and the ways a thread ends are steps of the session. So the theorems
about `HsmsSession` are about both runs, whatever the wafer, the two plans, the
panics and the stray frames; `ReplyIntegrity` as long as the counter does not
wrap.

**Conversation** is the part of `SafeInv` that both runs share, in
`GemThreads_proofs`. It says that of each thread at most one data frame is in
flight (`OneFrame`), that it is of the thread's latest transaction, for which the
thread waits if it is not about to end (`Directed`), that a thread that waits
for a live peer has its frame in flight, as a primary or as a secondary
(`Pending`), and that its secondary is ahead of any primary of its peer
(`Ahead`). A step of a thread either fades
(sends no data), serves, or sends; three lemmas, one for each, keep the
conversation, and each action of a run is shown to be one of the three. What
the system bytes are never enters: that transactions are matched by them
modulo 2^32 can do no harm to two threads that take turns.

**SafeInv** ties the conversation to what the threads count. Each side's counter
of system bytes (`Sent`), what the host has recorded, and what is in flight
determine each other, up to one. In a wafer run (`WaferRun_proofs`): the
report in flight carries the outcome of the die its system bytes count, the
host has taken in all that was reported but for what is offered, and after Ok
that is all. In a placement run both sides send; the invariant says that
commands and reports alternate: the machine holds at most one command it has
not reported (`Instructed`), a report counts on a command of its own
(`Counted`), a host that waits has heard of all placements but for the one
offered (`Heard`), and each record it has pushed is one of these (`Collects`).
A panic or a stray frame ends one side; the other side's half must then stand
without its peer, which is why most parts speak of live threads only, and why
what was recorded is stated without them. The two refinements of `ReportStream`
follow with the mapping of section 2, step by step.

**SortInv.** The loops of `sort_wafer`, `tally` and the record construction walk
the same results with different knowledge. The invariant states what each has
established after its first results: every testable die shows the last result
with its coordinate (`MapShows`), and the tally holds for each bin the number
of results binned there (`TallyShows`). `CountersReconcile` and its like are
then facts about one list of results: sums over bins of how often each occurs.
These are folds over finite sets, which the library defines by recursion. The
lemmas about them (`SumOfPicked`, `SumsOfEqual`, `UnionBound`, `CountAddsOne`,
and those they rest on) hold for any finite set. Each is an induction, done as a least counterexample:
if a set violated the lemma, then one would of which no proper part does,
because strict inclusion of finite sets is well founded
(`FS_StrictSubsetOrderingWellFounded`, `WFMin`), and one element less violates
it too.

**CohortInv.** `NothingBelowCohort` speaks of the sizes that are published. The
invariant speaks of the buckets: one that is not marked holds at least the
largest cohort so far (`Guarded`), whichever of the redactions marked it, and
there is no cohort before there is a summary. It needs that counts are numbers,
from the tally on (`TallyCounts`).

**StreamInv.** `read_all` finds records by position alone. The invariant says
for the writer that the file is how the bytes of `Asked` begin, all of them
while every write has succeeded, and at least the bytes of those records whose
write has; for the reader of a file that `Representable` and `StopsAtFailure`
describe (`InPlace`), that what it has returned are the first records of
`Asked`, each as its own body is read (`Rereads`), and that `pos` is where their
bytes end, or, inside of a body, its
header's four bytes and what has been read of the body further. It stops there
when a file ends or a read fails. Two other places are left: inside of a header
of which it was given a part, and at the end of a record whose own body does
not parse (`Refused`). Where a record stands is `AtPlace`, about
sequences of records of any length; it rests on what the library's `FlattenSeq`
does to a sequence that is one longer (`FlattenNext`), again by induction
through a least counterexample (`Induction`).

**PublicInv.** The ledger speaks of reports, the exchange of pieces. The
invariant follows a report through the pieces: what lies in a file, and what a
reader has read of it, are pieces of reports that have been handed over or
carried in, or holes (`FilesPublic`, `ReadsPublic`); who is inside of a write has handed over
its report (`WritesPublic`). So a text that parses is that of a report that was
published or carried in (`Public`), and its version was compared
(`ParsesReceivable`). Creating a file is then the ledger's `Publish`, carrying
one in its `Carry`, a push its `Receive` or, of mixed texts, `ReceiveGarbled`,
and every other step stutters.

**OrderlyInv.** An undisturbed read must end with the text that was in the file
when it began. That takes three facts beyond `PublicInv`: a file that two have
not been writing to holds the first part of one text (`OrderlyFiles`); its
writer, if there is one, is alone, and the part is what it has written so far
(`OrderlyWriters`); and what an undisturbed reader has read is the first part of
what is still there (`OrderlyReads`). At the end of the file the two are the
same, and the first part of a text is the whole of it or no JSON
(`PartParses`).

**Placements.** Both directions of `ReportMeansAssembled` go through one reading
of the report, `OkMeans`: no record is off its site, every site has one, no two
overlap. An assembled package has a record for each site and as many records as
sites, so by counting (`OneEach`) no site has two, which is what the check for
duplicates needs. That dies cover no cell in common exactly if their rectangles
do not overlap (`CellsInCommon`), and lie on the interposer exactly if their two
corners do (`CellsOnInterposer`), needs that a die has an area.

**Fields.** `RoundTrips` and `RewriteOnlyTrims` are about one file position at a
time. For each kind of field, whatever has been written at a position is read
back with its value and its end, or nothing is read because the file ends before
(`ReadsKind`), and whatever is read at a position lies there as it would be
written, but for foreign text (`ReadsExactly`). Lists of texts are an induction
of their own (`ReadsStrings`, `StringsExactly`). The functions over a layout's
fields are then unrolled: a body stands if each field lies behind those before
it (`BodyStands`), a record is parsed if each field was read where the one
before it ended (`Parses`), and `Parse` succeeds exactly on those (`ParsesIfOk`,
`OkIfParses`), because a field is looked for by fields that come before it
(`ConsultsEarlier`).

**Records.** A canonical record's fields are looked for exactly where they are
written (`IsExpected`), so it is read back (`CanonicalIsRead`). The other way
round, and for a body that is written again, the two are followed side by side
(`Alignment`): after each field, either what has been written is what has been
read so far (`Aligned`), or the file has ended and since then only zeros have
been written, one for a field (`Past`). So a record that is read back from a
body cut to its length modulo 2^16 had the length itself, since fewer zeros
follow than lengths wrap; and a body written again is a prefix of the one that
was read, or completes it. The flags of a record that has been parsed agree with
its options, because a PMR and an FTR have no option after which the file may end
without their noticing; a PTR has, and it is the one exception in
`RewriteOnlyTrims`.

`SafeInv`, `SortInv` and `StreamInv` were checked as invariants on the instances
of their runs before they were proved.

The assumptions are the `ASSUME`s of these modules: the parties differ,
functions are below 128, bounds and cohorts are numbers, plans are sequences,
commands and reports are bodies, reports have a consent
and a version and are not called `"none"` or `"error"`, soft bin 1 rolls up to a
pass hard bin and excluded dies are on the wafer, bodies have lengths and are
read as themselves, as another record or as none, and `REC_LEN` has room for a FAR. For `Reference`: a length has between 257 and 65536 values, None
is no value, records have a value of its kind for every field (or None, if it is
optional), a body is as long as `REC_LEN` can say, since that is what a reader
takes, and placement records have coordinates and names. TLC evaluates them in
every run.

**Only model-checked.** Liveness (`ThreadsEnd`, `RunCompletes`,
`PlacementsComplete`, `ReadsFinish`): it rests on fairness, and the prover has
neither that nor `ENABLED`. `ItemsDecodeExactly` and `FramesSurvive` of
`reference`: `SecsCodec` is recursive in the items' nesting, with operators the
prover does not take. That the five divergences of section 6 occur is shown by
their runs.

## 6. Divergences found

Each of these is what a comment says and the code does not do; a run shows each,
and `PROJECT.json` quotes both sides.

1. A negative coordinate is collected as another one (`sim.rs` 179).
2. The host does not drive the order of placements: another order of the same
   sites leaves both threads serving for ever (`equipment.rs` 75).
3. A bucket that is marked withheld keeps its exact count and is serialized with
   it (`outcome.rs` 58).
4. The deviation of a placement is measured from the nominal position in the
   record, not from the position of the site (`verify.rs` 77).
5. `read_outcome_file` and `ingest` do not look at the consent, so a report that
   is not to be shared is received if its file came without the writer
   (`file.rs` 76), where the comment says that "the ingestion pipeline enforces
   it automatically" (`schema.rs` 103-104).

Read in passing and not the subject of a run of their own:

- Primaries that cross with equal system bytes are each taken for the reply to
  the other (`hsms.rs` 451). `NeverCrosses` shows that no placement run lets
  them cross, and in a wafer run only the equipment sends primaries after the
  handshake.
- A handshake of one primary leaves both threads serving for ever (`sim.rs` 149,
  `equipment.rs` 68), although the comment says "S1F1 and/or S1F13".
- `write` sets `wrote_far` before it writes. When the first call fails and the
  caller goes on, the file has no FAR and no reader takes it (`writer.rs` 26),
  where the comment has that "a mis-ordered file can never be produced by
  accident" (`writer.rs` 9-11). That comment also calls another first record an
  error, while the one on `write` (22-23) prepends a FAR to it, as the code
  does. `StdfStream` has these files; its properties speak of callers that stop.
- "Files are written little-endian (FAR `CPU_TYPE` = x86)" (`writer.rs` 1-2), but
  a caller's FAR may declare big-endian, and the records behind it are
  little-endian all the same (`writer.rs` 28). `Representable` excludes it.
- The bytes behind a record's last known field are dropped by `parse` and not
  re-emitted (`records.rs` 918), where the comment has them "kept as a tail"
  (10-11). `RewritesOnlyTrim` says what is kept.
- A header is read with one call of `read`, which may return a part of it: a
  whole file behind a pipe or a buffered reader may be refused (`reader.rs` 36).
  `RefusalsHaveReasons` shows that only one other thing makes a whole file fail.
- That other thing is a record whose own body ends too early for `parse`, such
  as a PTR that has its high limit, no scalings, and flags that announce them
  (`records.rs` 782-812, 944-958): the writer takes it, and no reader gets past it.
- An interrupted read of a header ends the file as if it were complete
  (`reader.rs` 37), where the comment has "`Ok(None)` at end of file". The
  model has it (`Interrupted`), and `CutIsNoticed` excludes it by
  `faults = 0`.
- The reader's header says that it defaults to little-endian when records come
  before a FAR (`reader.rs` 4); it returns an error (`reader.rs` 43).
- A stray control frame fails a waiting `transact` and is not rejected
  (`hsms.rs` 482).
- Excluded dies are tested and reported (`sim.rs` 155), and `sort_wafer` counts
  a result for an excluded site as one "not on the layout" (`bin_sort.rs` 127).
- `AssemblyEquipment::run` never sends `CEID_RUN_COMPLETE`, though its comment
  says that it acknowledges the run (`equipment.rs` 56).
- A PTR that ends before UNITS gets an empty UNITS when it is written back, and
  the added byte may be read as a missing optional field the next time
  (`records.rs` 960). `RewriteOnlyTrims` names the case.
- Text that is not UTF-8 grows when a record is written back: a PROGRAM of an
  FTR that fitted `REC_LEN` may no longer do so (`records.rs` 925), and is cut
  then. `RewriteOnlyTrims` speaks of what still fits.
- A record whose flags and options disagree is written without complaint and
  read back as another one or not at all; `RoundTrips` says exactly which.
- A text of 86 bytes that are not UTF-8 is read as one of 258 bytes, and writing
  it panics (`codec.rs` 155).
- `publishable_count` calls what it returns for a withheld bucket "a lower bound"
  (`outcome.rs` 64); the bucket holds fewer than that.
- A thread that holds the guard of `received()` and ingests waits for itself
  (`ingest.rs` 41, 47).

Some properties carry a precondition, because without it the code does
something else: `PassBinsHoldGoodDies` needs a program whose fail bins are no
pass bins of the taxonomy, `SynopsesExplainFailures` test numbers that are
unique among the measurements and among the patterns, and `OkMeansAssembled`
records that follow a layout that can be built. The code checks none of them.
So a fail bin that is a pass bin, a test number used twice and the text of 86
foreign bytes are hazards of the code that these properties do not catch; nor
is a caller's function of 255, since functions in the model are below 128, nor a
handshake of one primary, since `ThreadsEnd` is checked with the repository's
two.

## 7. What is not modelled

- `HostGem::send_event_report`, the two `into_` accessors and the accessors of
  `SecsItem` have no state, or no caller.
- DACKN, COMMACK and HCACK take only the accepting value, the one this crate
  sends.
- Measured values, jitter and the random generator: inputs of the models.
- The order of the records of a wafer file, the values of PTR and FTR records
  and the bytes of the GDR map. `WaferSort` has the counters and what the map
  says; a wafer ID of more than 255 bytes, which shifts the payload, is a hazard
  without a property.
- Big-endian bodies in `StdfRecord`: the field order is the same, and the
  writer never makes one. `StdfStream` has the case of a FAR that declares them.
- JSON. A text parses as the report it was made of, not at all, or, pieced
  together from two, as something else.
- The mutex and the condition variable of the duplex pipe: each of its two
  queues has one reader and one writer, and what a reader sees is a prefix of
  what was written, in order.
- Error types and module roots: no state.

## 8. Plan

Done, in this order: `HsmsSession` and its proofs, `GemThreads`, `WaferRun`,
`ReportStream`, `AssemblyRun`, `WaferSort`, `StdfStream`, `WaferOutcome`,
`OutcomeExchange` and `OutcomeLedger`, `StdfRecord`, `SecsCodec`,
`PlacementVerify`.

What is left to model is listed in section 7; none of it interacts with
anything. Proved since, in this order: the use of the sessions by both runs, the
exchange of outcome files, the invariants of the wafer and placement runs and
their refinements of `ReportStream`, those of `WaferSort` and of `StdfStream`,
the verification of placements, and the record codec.

What the project states and has not proved is listed at the end of section 5.
`SecsCodec` could follow `StdfRecord` if its recursion over the nesting of items
were written as functions on a depth; its runs would then have to be bounded by
that depth.

## 9. Running it

    tlc -config HsmsSession_control.cfg HsmsSession
    tlc -config MCWaferRun_control.cfg MCWaferRun
    tlc -config MCReference_inputs.cfg MCReference
    tlapm HsmsSession_proofs.tla
    tlapm WaferRun_proofs.tla
    tlapm AssemblyRun_proofs.tla
    tlapm WaferOutcome_proofs.tla
    tlapm StdfStream_proofs.tla
    tlapm OutcomeExchange_proofs.tla
    tlapm Reference_proofs.tla

`PROJECT.json` names the module and the configuration of every run.
