-------------------------- MODULE Reference_proofs --------------------------
(***************************************************************************)
(* What Reference checks on its inputs, for every input.                   *)
(***************************************************************************)
EXTENDS Reference, FiniteSetTheorems, SequenceTheorems, TLAPS

----------------------------------------------------------------------------
(* Inputs                                                                  *)

\* What is known of an input: it was picked.
Given ==
  /\ input.kind = "record" => input.typ \in Types /\ IsRecord(input.typ, input.value)
  /\ input.kind = "body" => input.typ \in Types /\ input.value \in Seq(Byte)
                           /\ Len(input.value) < LengthMod
  /\ input.kind = "placements" =>
       /\ input.layout \in Layouts
       /\ input.records \in Seq(PlacementRecords)
       /\ input.tolerance \in Int

LEMMA InputsAreGiven == Spec => []Given
<1>1. Init => Given
  BY DEF Init, NoInput, Given
<1>2. Given /\ [Next]_input => Given'
  <2> SUFFICES ASSUME Given, [Next]_input PROVE Given'
    OBVIOUS
  <2>1. CASE PicksRecord
    BY <2>1, RecordAssumption DEF PicksRecord, Given
  <2>2. CASE PicksBody
    BY <2>2, BodyAssumption DEF PicksBody, Given
  <2>3. CASE PicksPlacements
    BY <2>3, PlacementAssumption DEF PicksPlacements, Given
  <2>4. CASE PicksWire
    BY <2>4, WireAssumption DEF PicksWire, Given
  <2>5. CASE Drops
    BY <2>5 DEF Drops, NoInput, Given
  <2>6. CASE UNCHANGED input
    BY <2>6 DEF Given
  <2>7. QED BY <2>1, <2>2, <2>3, <2>4, <2>5, <2>6 DEF Next, Picks
<1>3. QED BY <1>1, <1>2, PTL DEF Spec

----------------------------------------------------------------------------
(* Placements                                                              *)

\* An entry of a sequence.
LEMMA Entry ==
  ASSUME NEW S, NEW seq \in Seq(S), NEW i \in DOMAIN seq
  PROVE  seq[i] \in S
OBVIOUS

\* The numbers up to n are n.
LEMMA CountUpTo ==
  ASSUME NEW n \in Nat
  PROVE  IsFiniteSet(1 .. n) /\ Cardinality(1 .. n) = n
BY FS_Interval

\* A set of naturals that is not empty has a first.
LEMMA FirstIsLeast ==
  ASSUME NEW S, S \subseteq Nat, S # {}
  PROVE  First(S) \in S /\ \A i \in S : First(S) <= i
<1>1. PICK i \in S : \A j \in S : ~ (<<j, i>> \in OpToRel(<, Nat))
  BY NatLessThanWellFounded, WFMin, Zenon
<1>2. \A j \in S : ~ (j < i)
  BY <1>1, Zenon DEF OpToRel
<1>3. \A j \in S : i <= j
  BY <1>2
<1>4. QED BY <1>3, Zenon DEF First

\* In a layout that can be built, the site of a record is the one of its name.
LEMMA SiteOfName ==
  ASSUME NEW layout \in Layouts, Buildable(layout), NEW record,
         NEW k \in DOMAIN layout.sites, layout.sites[k].site_id = record.site_id
  PROVE  /\ SitesNamed(layout, record.site_id) = {k}
         /\ HasSite(layout, record)
         /\ SiteOf(layout, record) = layout.sites[k]
<1>1. SitesNamed(layout, record.site_id) = {k}
  BY DEF SitesNamed, Buildable
<1>2. k \in Nat
  BY DEF Layouts
<1>3. First({k}) = k
  BY <1>2, FirstIsLeast
<1>4. QED BY <1>1, <1>3 DEF HasSite, SiteOf

\* A record with a site has one of the layout, of its name.
LEMMA SiteIsNamed ==
  ASSUME NEW layout \in Layouts, Buildable(layout), NEW record, HasSite(layout, record)
  PROVE  \E k \in DOMAIN layout.sites :
           /\ layout.sites[k].site_id = record.site_id
           /\ SiteOf(layout, record) = layout.sites[k]
<1>1. PICK k \in DOMAIN layout.sites : layout.sites[k].site_id = record.site_id
  BY DEF HasSite, SitesNamed
<1>2. QED BY <1>1, SiteOfName

\* The footprint of a die of a layout that can be built.
LEMMA DieCovers ==
  ASSUME NEW layout \in Layouts, Buildable(layout), NEW record, HasDie(layout, record)
  PROVE  /\ DieOf(layout, record).width \in Int /\ DieOf(layout, record).width > 0
         /\ DieOf(layout, record).height \in Int /\ DieOf(layout, record).height > 0
<1> DEFINE named == DiesNamed(layout, record.chiplet_id)
<1>1. named \subseteq Nat /\ named \subseteq DOMAIN layout.dies /\ named # {}
  BY DEF DiesNamed, HasDie, Layouts
<1>2. First(named) \in DOMAIN layout.dies
  BY <1>1, FirstIsLeast
<1>3. layout.dies[First(named)] \in [chiplet_id : STRING, width : Int, height : Int]
  <2>1. layout.dies \in Seq([chiplet_id : STRING, width : Int, height : Int])
    BY DEF Layouts
  <2>2. QED BY <1>2, <2>1, Entry
<1>4. QED BY <1>2, <1>3 DEF Buildable, DieOf

\* The die of a record lies on the cells it covers: on all of them if on its
\* lowest and its highest.
LEMMA CellsOnInterposer ==
  ASSUME NEW layout \in Layouts, Buildable(layout),
         NEW record \in PlacementRecords, HasDie(layout, record)
  PROVE  Cells(record, layout) \subseteq (0 .. layout.extent.x - 1) \X (0 .. layout.extent.y - 1)
           <=> ~IsOutOfBounds(record, layout)
<1> DEFINE x == record.placed.x
           y == record.placed.y
           hx == x + DieOf(layout, record).width
           hy == y + DieOf(layout, record).height
           covered == (x .. hx - 1) \X (y .. hy - 1)
           extent == (0 .. layout.extent.x - 1) \X (0 .. layout.extent.y - 1)
<1>1. x \in Int /\ y \in Int /\ layout.extent.x \in Int /\ layout.extent.y \in Int
  BY DEF PlacementRecords, Layouts, Points
<1>2. /\ DieOf(layout, record).width \in Int /\ DieOf(layout, record).width > 0
      /\ DieOf(layout, record).height \in Int /\ DieOf(layout, record).height > 0
  BY DieCovers
<1>3. hx \in Int /\ x < hx /\ hy \in Int /\ y < hy
  BY <1>1, <1>2
<1>4. /\ Cells(record, layout) = covered
      /\ High(layout, record).x = hx /\ High(layout, record).y = hy
  BY DEF Cells, High
<1>5. IsOutOfBounds(record, layout) <=>
        x < 0 \/ y < 0 \/ hx > layout.extent.x \/ hy > layout.extent.y
  BY <1>4 DEF IsOutOfBounds
<1> HIDE DEF x, y, hx, hy
<1>6. ASSUME covered \subseteq extent
      PROVE  x >= 0 /\ y >= 0 /\ hx <= layout.extent.x /\ hy <= layout.extent.y
  <2>1. <<x, y>> \in extent /\ <<hx - 1, hy - 1>> \in extent
    BY <1>1, <1>3, <1>6
  <2>2. QED BY <1>1, <1>3, <2>1
<1>7. ASSUME x >= 0, y >= 0, hx <= layout.extent.x, hy <= layout.extent.y
      PROVE  covered \subseteq extent
  <2>1. x .. hx - 1 \subseteq 0 .. layout.extent.x - 1
    BY <1>1, <1>3, <1>7
  <2>2. y .. hy - 1 \subseteq 0 .. layout.extent.y - 1
    BY <1>1, <1>3, <1>7
  <2>3. QED BY <2>1, <2>2
<1>8. QED BY <1>1, <1>3, <1>4, <1>5, <1>6, <1>7

\* Two footprints overlap if and only if they have a cell in common.
LEMMA CellsInCommon ==
  ASSUME NEW layout \in Layouts, Buildable(layout),
         NEW a \in PlacementRecords, HasDie(layout, a),
         NEW b \in PlacementRecords, HasDie(layout, b)
  PROVE  Cells(a, layout) \cap Cells(b, layout) = {} <=>
           ~ /\ a.placed.x < High(layout, b).x /\ b.placed.x < High(layout, a).x
             /\ a.placed.y < High(layout, b).y /\ b.placed.y < High(layout, a).y
<1> DEFINE ax == a.placed.x
           ay == a.placed.y
           bx == b.placed.x
           by == b.placed.y
           ahx == ax + DieOf(layout, a).width
           ahy == ay + DieOf(layout, a).height
           bhx == bx + DieOf(layout, b).width
           bhy == by + DieOf(layout, b).height
           acells == (ax .. ahx - 1) \X (ay .. ahy - 1)
           bcells == (bx .. bhx - 1) \X (by .. bhy - 1)
           common == ax < bhx /\ bx < ahx /\ ay < bhy /\ by < ahy
<1>1. ax \in Int /\ ay \in Int /\ bx \in Int /\ by \in Int
  BY DEF PlacementRecords, Points
<1>2. /\ DieOf(layout, a).width \in Int /\ DieOf(layout, a).width > 0
      /\ DieOf(layout, a).height \in Int /\ DieOf(layout, a).height > 0
      /\ DieOf(layout, b).width \in Int /\ DieOf(layout, b).width > 0
      /\ DieOf(layout, b).height \in Int /\ DieOf(layout, b).height > 0
  BY DieCovers
<1>3. /\ ahx \in Int /\ ax < ahx /\ ahy \in Int /\ ay < ahy
      /\ bhx \in Int /\ bx < bhx /\ bhy \in Int /\ by < bhy
  BY <1>1, <1>2
<1>4. /\ Cells(a, layout) = acells /\ Cells(b, layout) = bcells
      /\ High(layout, a).x = ahx /\ High(layout, a).y = ahy
      /\ High(layout, b).x = bhx /\ High(layout, b).y = bhy
  BY DEF Cells, High
<1> HIDE DEF ax, ay, bx, by, ahx, ahy, bhx, bhy
<1>5. ASSUME common
      PROVE  acells \cap bcells # {}
  <2> DEFINE x == IF ax < bx THEN bx ELSE ax
             y == IF ay < by THEN by ELSE ay
  <2>1. x \in ax .. ahx - 1 /\ x \in bx .. bhx - 1
    BY <1>1, <1>3, <1>5
  <2>2. y \in ay .. ahy - 1 /\ y \in by .. bhy - 1
    BY <1>1, <1>3, <1>5
  <2> HIDE DEF x, y
  <2>3. <<x, y>> \in acells /\ <<x, y>> \in bcells
    BY <2>1, <2>2
  <2>4. QED BY <2>3
<1>6. ASSUME NEW cell, cell \in acells, cell \in bcells
      PROVE  common
  <2>1. PICK x \in ax .. ahx - 1, y \in ay .. ahy - 1 : cell = <<x, y>>
    BY <1>6
  <2>2. x \in bx .. bhx - 1 /\ y \in by .. bhy - 1
    BY <1>6, <2>1
  <2>3. QED BY <1>1, <1>3, <2>1, <2>2
<1>7. acells \cap bcells = {} <=> ~common
  BY <1>5, <1>6
<1>8. QED BY <1>4, <1>7 DEF ax, ay, bx, by

\* What it takes for the seven kinds of violations not to occur.
AllInPlace(records, layout, tolerance) ==
  \A i \in DOMAIN records :
    /\ HasSite(layout, records[i]) /\ ~IsSecond(records, i)
    /\ records[i].orientation = SiteOf(layout, records[i]).orientation
    /\ ~IsOffTarget(records[i], tolerance)
    /\ ~IsOutOfBounds(records[i], layout)

AllPlaced(records, layout) ==
  \A k \in DOMAIN layout.sites : \E i \in DOMAIN records :
    records[i].site_id = layout.sites[k].site_id

NoneOverlap(records, layout) ==
  \A i, j \in DOMAIN records : ~Overlaps(records, layout, i, j)

LEMMA OkMeans ==
  ASSUME NEW records, NEW layout, NEW tolerance
  PROVE  IsOk(records, layout, tolerance) <=>
           /\ AllInPlace(records, layout, tolerance)
           /\ AllPlaced(records, layout)
           /\ NoneOverlap(records, layout)
<1> DEFINE checked == Checked(records, layout)
           Named(kind, indices) == {Violation(kind, records[i].site_id) : i \in indices}
           unknown == {i \in DOMAIN records : ~HasSite(layout, records[i])}
           duplicate == {i \in DOMAIN records : HasSite(layout, records[i]) /\ IsSecond(records, i)}
           turned == {i \in checked : records[i].orientation # SiteOf(layout, records[i]).orientation}
           off == {i \in checked : IsOffTarget(records[i], tolerance)}
           outside == {i \in checked : IsOutOfBounds(records[i], layout)}
           missing == {k \in DOMAIN layout.sites :
                         \A i \in DOMAIN records : records[i].site_id # layout.sites[k].site_id}
           overlapping == {i \in DOMAIN records :
                             \E j \in DOMAIN records : Overlaps(records, layout, i, j)}
<1>1. IsOk(records, layout, tolerance) <=>
        /\ unknown = {} /\ duplicate = {} /\ turned = {} /\ off = {} /\ outside = {}
        /\ missing = {} /\ overlapping = {}
  <2>1. IsOk(records, layout, tolerance) <=>
          /\ Named("UnknownSite", unknown) = {}
          /\ Named("DuplicatePlacement", duplicate) = {}
          /\ Named("OrientationMismatch", turned) = {}
          /\ Named("OffTarget", off) = {}
          /\ Named("OutOfBounds", outside) = {}
          /\ {Violation("MissingPlacement", layout.sites[k].site_id) : k \in missing} = {}
          /\ Named("Overlap", overlapping) = {}
    BY DEF IsOk, Violations
  <2> HIDE DEF unknown, duplicate, turned, off, outside, missing, overlapping
  <2>2. ASSUME NEW kind, NEW indices
        PROVE  Named(kind, indices) = {} <=> indices = {}
    OBVIOUS
  <2>3. {Violation("MissingPlacement", layout.sites[k].site_id) : k \in missing} = {} <=> missing = {}
    OBVIOUS
  <2> HIDE DEF Named
  <2>4. QED BY <2>1, <2>2, <2>3
<1>2. unknown = {} /\ duplicate = {} <=>
        \A i \in DOMAIN records : HasSite(layout, records[i]) /\ ~IsSecond(records, i)
  OBVIOUS
<1>3. unknown = {} /\ duplicate = {} => checked = DOMAIN records
  BY DEF Checked
<1>4. AllInPlace(records, layout, tolerance) <=>
        unknown = {} /\ duplicate = {} /\ turned = {} /\ off = {} /\ outside = {}
  <2> DEFINE placed == \A i \in DOMAIN records :
                         /\ records[i].orientation = SiteOf(layout, records[i]).orientation
                         /\ ~IsOffTarget(records[i], tolerance)
                         /\ ~IsOutOfBounds(records[i], layout)
  <2>1. checked = DOMAIN records => (placed <=> turned = {} /\ off = {} /\ outside = {})
    OBVIOUS
  <2>2. AllInPlace(records, layout, tolerance) <=>
          placed /\ \A i \in DOMAIN records : HasSite(layout, records[i]) /\ ~IsSecond(records, i)
    BY DEF AllInPlace
  <2> HIDE DEF placed, unknown, duplicate, turned, off, outside
  <2>3. QED BY <1>2, <1>3, <2>1, <2>2
<1>5. AllPlaced(records, layout) <=> missing = {}
  BY DEF AllPlaced
<1>6. NoneOverlap(records, layout) <=> overlapping = {}
  BY DEF NoneOverlap
<1> HIDE DEF unknown, duplicate, turned, off, outside, missing, overlapping
<1>7. QED BY <1>1, <1>4, <1>5, <1>6

\* Records are of a layout that can be built, and follow it.
Follows(records, layout) ==
  /\ layout \in Layouts /\ Buildable(layout)
  /\ records \in Seq(PlacementRecords) /\ FollowsLayout(records, layout)

\* The cells of two records that are not one, when no footprints overlap, and
\* the other way round.
LEMMA CellsApart ==
  ASSUME NEW records, NEW layout, Follows(records, layout),
         \A i \in DOMAIN records : HasSite(layout, records[i])
  PROVE  NoneOverlap(records, layout) <=>
           \A i, j \in DOMAIN records :
             i # j => Cells(records[i], layout) \cap Cells(records[j], layout) = {}
<1> DEFINE Meet(i, j) == /\ records[i].placed.x < High(layout, records[j]).x
                         /\ records[j].placed.x < High(layout, records[i]).x
                         /\ records[i].placed.y < High(layout, records[j]).y
                         /\ records[j].placed.y < High(layout, records[i]).y
<1>1. ASSUME NEW i \in DOMAIN records, NEW j \in DOMAIN records
      PROVE  /\ Overlaps(records, layout, i, j) <=> i < j /\ Meet(i, j)
             /\ Cells(records[i], layout) \cap Cells(records[j], layout) = {} <=> ~Meet(i, j)
  <2>1. HasDie(layout, records[i]) /\ HasDie(layout, records[j])
    BY DEF Follows, FollowsLayout
  <2>2. records[i] \in PlacementRecords /\ records[j] \in PlacementRecords
    BY Entry DEF Follows
  <2>3. Overlaps(records, layout, i, j) <=> i < j /\ Meet(i, j)
    BY <2>1 DEF Overlaps
  <2>4. Cells(records[i], layout) \cap Cells(records[j], layout) = {} <=> ~Meet(i, j)
    BY <2>1, <2>2, CellsInCommon DEF Follows
  <2>5. QED BY <2>3, <2>4
<1>2. \A i, j \in DOMAIN records : Meet(i, j) <=> Meet(j, i)
  OBVIOUS
<1>3. \A i \in DOMAIN records : i \in Int
  BY DEF Follows
<1> HIDE DEF Meet
<1>4. \A i, j \in DOMAIN records : i # j => i < j \/ j < i
  BY <1>3
<1>5. \A i, j \in DOMAIN records : i < j => i # j
  BY <1>3
<1>6. NoneOverlap(records, layout) <=> \A i, j \in DOMAIN records : i # j => ~Meet(i, j)
  BY <1>1, <1>2, <1>4, <1>5 DEF NoneOverlap
<1>7. QED BY <1>1, <1>6

\* The records of an accepted run are as many as the sites.
LEMMA OneEach ==
  ASSUME NEW records, NEW layout, NEW tolerance, Follows(records, layout),
         AllInPlace(records, layout, tolerance), AllPlaced(records, layout)
  PROVE  Len(records) = Len(layout.sites)
<1> DEFINE sites == layout.sites
           f == [i \in DOMAIN records |->
                   CHOOSE k \in DOMAIN sites : sites[k].site_id = records[i].site_id]
<1>1. /\ DOMAIN records = 1 .. Len(records) /\ Len(records) \in Nat
      /\ DOMAIN sites = 1 .. Len(sites) /\ Len(sites) \in Nat
  BY DEF Follows, Layouts
<1>2. \A i \in DOMAIN records : f[i] \in DOMAIN sites /\ sites[f[i]].site_id = records[i].site_id
  <2>1. \A i \in DOMAIN records : \E k \in DOMAIN sites : sites[k].site_id = records[i].site_id
    BY SiteIsNamed DEF Follows, AllInPlace
  <2>2. QED BY <2>1
<1>3. \A i, j \in DOMAIN records : f[i] = f[j] => i = j
  <2>1. ASSUME NEW i \in DOMAIN records, NEW j \in DOMAIN records, f[i] = f[j]
        PROVE  ~ (j < i)
    <3>1. records[j].site_id = records[i].site_id
      BY <1>2, <2>1
    <3>2. j < i => j \in 1 .. i - 1
      BY <1>1
    <3>3. QED BY <3>1, <3>2 DEF AllInPlace, IsSecond
  <2> HIDE DEF f
  <2>2. QED BY <1>1, <2>1
<1>4. \A k \in DOMAIN sites : \E i \in DOMAIN records : f[i] = k
  BY <1>2 DEF AllPlaced, Follows, Buildable
<1>5. f \in [DOMAIN records -> DOMAIN sites]
  BY <1>2
<1> HIDE DEF f
<1>6. ExistsBijection(DOMAIN records, DOMAIN sites)
  <2>1. f \in Injection(DOMAIN records, DOMAIN sites)
    BY <1>3, <1>5 DEF Injection, IsInjective
  <2>2. f \in Surjection(DOMAIN records, DOMAIN sites)
    BY <1>4, <1>5 DEF Surjection
  <2>3. QED BY <2>1, <2>2 DEF ExistsBijection, Bijection
<1>7. /\ IsFiniteSet(DOMAIN records)
      /\ Cardinality(DOMAIN records) = Len(records) /\ Cardinality(DOMAIN sites) = Len(sites)
  BY <1>1, CountUpTo
<1>8. QED BY <1>6, <1>7, FS_Bijection

\* Of records that follow the layout, what the report asks of one that has a
\* site of the layout is what that site asks of it.
LEMMA OnItsSite ==
  ASSUME NEW records, NEW layout, NEW tolerance \in Int, Follows(records, layout),
         NEW i \in DOMAIN records, NEW k \in DOMAIN layout.sites
  PROVE  OnSite(records[i], layout.sites[k], tolerance) <=>
           /\ records[i].site_id = layout.sites[k].site_id
           /\ records[i].orientation = SiteOf(layout, records[i]).orientation
           /\ ~IsOffTarget(records[i], tolerance)
<1> DEFINE record == records[i]
           site == layout.sites[k]
<1>1. record.site_id = site.site_id => HasSite(layout, record) /\ SiteOf(layout, record) = site
  BY SiteOfName DEF Follows
<1>2. SUFFICES ASSUME record.site_id = site.site_id
               PROVE  OnSite(record, site, tolerance) <=>
                        record.orientation = site.orientation /\ ~IsOffTarget(record, tolerance)
  <2> HIDE DEF record, site
  <2>1. OnSite(record, site, tolerance) => record.site_id = site.site_id
    BY DEF OnSite
  <2>2. QED BY <1>1, <2>1 DEF record, site
<1>3. record.nominal = site.position /\ record.chiplet_id = site.chiplet_id
  BY <1>1, <1>2 DEF Follows, FollowsLayout
<1>4. ManhattanDistance(record.placed, record.nominal) \in Int
  <2>1. record \in PlacementRecords
    BY Entry DEF Follows
  <2>2. record.placed \in Points /\ record.nominal \in Points
    BY <2>1 DEF PlacementRecords
  <2>3. QED BY <2>2 DEF Points, ManhattanDistance, Abs
<1>5. IsOffTarget(record, tolerance) <=>
        ~ (ManhattanDistance(record.placed, site.position) <= tolerance)
  BY <1>3, <1>4 DEF IsOffTarget
<1>6. QED BY <1>2, <1>3, <1>5 DEF OnSite

\* What the report accepts is assembled as laid out.
LEMMA AcceptedIsAssembled ==
  ASSUME NEW records, NEW layout, NEW tolerance \in Int, Follows(records, layout),
         IsOk(records, layout, tolerance)
  PROVE  Assembled(records, layout, tolerance)
<1>1. /\ AllInPlace(records, layout, tolerance)
      /\ AllPlaced(records, layout)
      /\ NoneOverlap(records, layout)
  BY OkMeans
<1>2. Len(records) = Len(layout.sites)
  BY <1>1, OneEach
<1>3. ASSUME NEW k \in DOMAIN layout.sites
      PROVE  \E i \in DOMAIN records : OnSite(records[i], layout.sites[k], tolerance)
  <2>1. PICK i \in DOMAIN records : records[i].site_id = layout.sites[k].site_id
    BY <1>1 DEF AllPlaced
  <2>2. OnSite(records[i], layout.sites[k], tolerance)
    BY <1>1, <2>1, OnItsSite DEF AllInPlace
  <2>3. QED BY <2>2
<1>4. ASSUME NEW i \in DOMAIN records
      PROVE  Cells(records[i], layout) \subseteq
               (0 .. layout.extent.x - 1) \X (0 .. layout.extent.y - 1)
  <2>1. HasSite(layout, records[i]) /\ ~IsOutOfBounds(records[i], layout)
    BY <1>1 DEF AllInPlace
  <2>2. HasDie(layout, records[i])
    BY <2>1 DEF Follows, FollowsLayout
  <2>3. records[i] \in PlacementRecords
    BY Entry DEF Follows
  <2>4. QED BY <2>1, <2>2, <2>3, CellsOnInterposer DEF Follows
<1>5. \A i, j \in DOMAIN records :
        i # j => Cells(records[i], layout) \cap Cells(records[j], layout) = {}
  BY <1>1, CellsApart DEF AllInPlace
<1>6. QED BY <1>2, <1>3, <1>4, <1>5 DEF Assembled

\* In an assembled package each die has its site, a site of its own.
LEMMA EachHasItsSite ==
  ASSUME NEW records, NEW layout, NEW tolerance \in Int, Follows(records, layout),
         Assembled(records, layout, tolerance)
  PROVE  /\ \A i \in DOMAIN records : \E k \in DOMAIN layout.sites :
              OnSite(records[i], layout.sites[k], tolerance)
         /\ \A i, j \in DOMAIN records : records[i].site_id = records[j].site_id => i = j
<1> DEFINE sites == layout.sites
           g == [k \in DOMAIN sites |->
                   CHOOSE i \in DOMAIN records : OnSite(records[i], sites[k], tolerance)]
<1>1. /\ DOMAIN records = 1 .. Len(records) /\ Len(records) \in Nat
      /\ DOMAIN sites = 1 .. Len(sites) /\ Len(sites) \in Nat
  BY DEF Follows, Layouts
<1>2. Len(records) = Len(sites)
  BY DEF Assembled
<1>3. \A k \in DOMAIN sites : g[k] \in DOMAIN records /\ OnSite(records[g[k]], sites[k], tolerance)
  BY DEF Assembled
<1>4. g \in [DOMAIN sites -> DOMAIN records]
  BY <1>3
<1> HIDE DEF g
<1>5. \A k \in DOMAIN sites : records[g[k]].site_id = sites[k].site_id
  BY <1>3 DEF OnSite
<1>6. \A k, l \in DOMAIN sites : g[k] = g[l] => k = l
  BY <1>5 DEF Follows, Buildable
<1>7. g \in Injection(DOMAIN sites, DOMAIN records)
  BY <1>4, <1>6 DEF Injection, IsInjective
<1>8. /\ IsFiniteSet(DOMAIN records)
      /\ Cardinality(DOMAIN records) = Len(records) /\ Cardinality(DOMAIN sites) = Len(sites)
  BY <1>1, CountUpTo
<1>9. g \in Surjection(DOMAIN sites, DOMAIN records)
  BY <1>2, <1>7, <1>8, FS_Injection
<1>10. \A i \in DOMAIN records : \E k \in DOMAIN sites : g[k] = i
  BY <1>9 DEF Surjection
<1>11. QED
  <2>1. \A i \in DOMAIN records : \E k \in DOMAIN sites :
          OnSite(records[i], sites[k], tolerance)
    BY <1>3, <1>10
  <2>2. ASSUME NEW i \in DOMAIN records, NEW j \in DOMAIN records,
               records[i].site_id = records[j].site_id
        PROVE  i = j
    <3>1. PICK k \in DOMAIN sites, l \in DOMAIN sites : g[k] = i /\ g[l] = j
      BY <1>10
    <3>2. k = l
      BY <1>5, <2>2, <3>1 DEF Follows, Buildable
    <3>3. QED BY <3>1, <3>2
  <2>3. QED BY <2>1, <2>2

\* The report accepts a package that is assembled as laid out.
LEMMA AssembledIsAccepted ==
  ASSUME NEW records, NEW layout, NEW tolerance \in Int, Follows(records, layout),
         Assembled(records, layout, tolerance)
  PROVE  IsOk(records, layout, tolerance)
<1>1. ASSUME NEW i \in DOMAIN records
      PROVE  /\ HasSite(layout, records[i])
             /\ records[i].orientation = SiteOf(layout, records[i]).orientation
             /\ ~IsOffTarget(records[i], tolerance)
  <2>1. PICK k \in DOMAIN layout.sites : OnSite(records[i], layout.sites[k], tolerance)
    BY EachHasItsSite
  <2>2. records[i].site_id = layout.sites[k].site_id
    BY <2>1 DEF OnSite
  <2>3. HasSite(layout, records[i])
    BY <2>2, SiteOfName DEF Follows
  <2>4. QED BY <2>1, <2>3, OnItsSite
<1>2. ASSUME NEW i \in DOMAIN records
      PROVE  ~IsSecond(records, i)
  <2>1. i \in Nat /\ 1 .. i - 1 \subseteq DOMAIN records /\ i \notin 1 .. i - 1
    BY DEF Follows
  <2>2. QED BY <2>1, EachHasItsSite DEF IsSecond
<1>3. ASSUME NEW i \in DOMAIN records
      PROVE  ~IsOutOfBounds(records[i], layout)
  <2>1. HasDie(layout, records[i])
    BY <1>1 DEF Follows, FollowsLayout
  <2>2. records[i] \in PlacementRecords
    BY Entry DEF Follows
  <2>3. QED BY <2>1, <2>2, CellsOnInterposer DEF Follows, Assembled
<1>4. AllInPlace(records, layout, tolerance)
  BY <1>1, <1>2, <1>3 DEF AllInPlace
<1>5. AllPlaced(records, layout)
  BY DEF AllPlaced, Assembled, OnSite
<1>6. NoneOverlap(records, layout)
  BY <1>1, CellsApart DEF Assembled
<1>7. QED BY <1>4, <1>5, <1>6, OkMeans

\* Of records that follow a layout that can be built, a report without
\* violations and a package that is assembled as laid out are the same thing
\* (verify_placements), for layouts and runs of any size.
THEOREM ReportsMeanAssembled == Spec => []ReportMeansAssembled
<1>1. Given => ReportMeansAssembled
  BY AcceptedIsAssembled, AssembledIsAccepted
  DEF Given, ReportMeansAssembled, OkMeansAssembled, Follows
<1>2. QED BY <1>1, InputsAreGiven, PTL

----------------------------------------------------------------------------
(* What is put together part by part                                       *)

\* A set of naturals with zero and every successor is all of them.
LEMMA Induction ==
  ASSUME NEW S, 0 \in S, \A n \in Nat : n \in S => n + 1 \in S
  PROVE  Nat \subseteq S
<1> DEFINE Others == {n \in Nat : n \notin S}
<1>1. SUFFICES ASSUME Others # {} PROVE FALSE
  OBVIOUS
<1>2. Others \subseteq Nat
  OBVIOUS
<1> HIDE DEF Others
<1>3. PICK n \in Others : \A m \in Others : ~ (<<m, n>> \in OpToRel(<, Nat))
  BY <1>1, <1>2, NatLessThanWellFounded, WFMin, Zenon
<1>4. \A m \in Others : ~ (m < n)
  BY <1>2, <1>3, Zenon DEF OpToRel
<1> USE DEF Others
<1>5. n \in Nat /\ n \notin S
  OBVIOUS
<1>6. n # 0
  BY <1>5
<1>7. n - 1 \in Nat /\ n - 1 < n /\ (n - 1) + 1 = n
  BY <1>5, <1>6
<1>8. n - 1 \in S
  BY <1>4, <1>7
<1>9. QED BY <1>5, <1>7, <1>8

\* g gives what base and the first parts are together, for each number to n.
Growth(base, parts, n, g) ==
  g = [i \in 0 .. n |-> IF i = 0 THEN base ELSE g[i - 1] \o parts[i]]

\* There is one for all parts.
LEMMA GrowthExists ==
  ASSUME NEW base, NEW parts, NEW n \in Nat
  PROVE  \E g : Growth(base, parts, n, g)
<1> DEFINE With == {k \in Nat : \E g : Growth(base, parts, k, g)}
<1>1. 0 \in With
  <2>1. Growth(base, parts, 0, [i \in 0 .. 0 |-> base])
    BY DEF Growth
  <2>2. QED BY <2>1
<1>2. ASSUME NEW k \in Nat, k \in With
      PROVE  k + 1 \in With
  <2>1. PICK g : Growth(base, parts, k, g)
    BY <1>2
  <2> DEFINE longer == [i \in 0 .. k + 1 |-> IF i <= k THEN g[i] ELSE g[k] \o parts[k + 1]]
  <2>2. ASSUME NEW i \in 0 .. k + 1
        PROVE  longer[i] = IF i = 0 THEN base ELSE longer[i - 1] \o parts[i]
    <3>1. CASE i <= k
      <4>1. i \in 0 .. k /\ longer[i] = g[i]
        BY <3>1
      <4>2. g[i] = IF i = 0 THEN base ELSE g[i - 1] \o parts[i]
        BY <2>1, <4>1 DEF Growth
      <4>3. i # 0 => longer[i - 1] = g[i - 1]
        BY <3>1
      <4> HIDE DEF longer
      <4>4. QED BY <4>1, <4>2, <4>3
    <3>2. CASE i = k + 1
      <4>1. longer[i] = g[k] \o parts[k + 1] /\ longer[i - 1] = g[k] /\ i # 0
        BY <3>2
      <4> HIDE DEF longer
      <4>2. QED BY <3>2, <4>1
    <3>3. QED BY <3>1, <3>2
  <2>3. Growth(base, parts, k + 1, longer)
    BY <2>2 DEF Growth
  <2>4. QED BY <2>3
<1> HIDE DEF With
<1>3. Nat \subseteq With
  BY <1>1, <1>2, Induction
<1>4. QED BY <1>3 DEF With

\* A part lies in a whole, behind so many elements.
Lies(part, whole, pos) ==
  /\ pos + Len(part) <= Len(whole)
  /\ \A x \in 1 .. Len(part) : whole[pos + x] = part[x]

\* Two parts lie in what they are joined to, one behind the other.
LEMMA LiesInJoined ==
  ASSUME NEW S, NEW s \in Seq(S), NEW t \in Seq(S)
  PROVE  /\ s \o t \in Seq(S) /\ Len(s \o t) = Len(s) + Len(t)
         /\ Lies(s, s \o t, 0) /\ Lies(t, s \o t, Len(s))
BY DEF Lies

\* What lies in a whole lies in whatever goes on from that whole.
LEMMA LiesInLonger ==
  ASSUME NEW S, NEW part \in Seq(S), NEW whole \in Seq(S), NEW longer \in Seq(S),
         NEW pos \in Nat, Lies(part, whole, pos), Lies(whole, longer, 0)
  PROVE  Lies(part, longer, pos)
<1>1. pos + Len(part) <= Len(longer)
  BY DEF Lies
<1>2. ASSUME NEW x \in 1 .. Len(part)
      PROVE  longer[pos + x] = part[x]
  <2>1. pos + x \in 1 .. Len(whole)
    BY DEF Lies
  <2>2. longer[0 + (pos + x)] = whole[pos + x] /\ whole[pos + x] = part[x]
    BY <2>1 DEF Lies
  <2>3. QED BY <2>1, <2>2
<1>3. QED BY <1>1, <1>2 DEF Lies

\* Each part lies in the whole behind those before it.
LEMMA PartsLie ==
  ASSUME NEW S, NEW base \in Seq(S), NEW n \in Nat,
         NEW parts, \A i \in 1 .. n : parts[i] \in Seq(S),
         NEW g, Growth(base, parts, n, g)
  PROVE  /\ g[0] = base
         /\ \A i \in 0 .. n : g[i] \in Seq(S)
         /\ \A i \in 1 .. n : Len(g[i]) = Len(g[i - 1]) + Len(parts[i])
         /\ \A j \in 0 .. n : \A i \in 0 .. j :
              /\ Lies(g[i], g[j], 0)
              /\ i # 0 => Lies(parts[i], g[j], Len(g[i - 1]))
<1>1. g[0] = base /\ \A i \in 1 .. n : g[i] = g[i - 1] \o parts[i]
  <2>1. \A i \in 0 .. n : g[i] = IF i = 0 THEN base ELSE g[i - 1] \o parts[i]
    BY Zenon DEF Growth
  <2>2. 0 \in 0 .. n /\ \A i \in 1 .. n : i \in 0 .. n /\ i # 0
    OBVIOUS
  <2>3. QED BY <2>1, <2>2
<1> DEFINE Typed == {i \in Nat : i <= n => g[i] \in Seq(S)}
<1>2. \A i \in 0 .. n : g[i] \in Seq(S)
  <2>1. 0 \in Typed
    BY <1>1
  <2>2. ASSUME NEW i \in Nat, i \in Typed, i + 1 <= n
        PROVE  g[i + 1] \in Seq(S)
    <3>1. i + 1 \in 1 .. n /\ (i + 1) - 1 = i
      BY <2>2
    <3>2. g[i] \in Seq(S)
      BY <2>2
    <3>3. parts[i + 1] \in Seq(S)
      BY <3>1
    <3>4. g[i + 1] = g[(i + 1) - 1] \o parts[i + 1]
      BY <1>1, <3>1
    <3>5. g[i + 1] = g[i] \o parts[i + 1]
      BY <3>1, <3>4
    <3>6. QED BY <3>2, <3>3, <3>5, LiesInJoined
  <2>3. \A i \in Nat : i \in Typed => i + 1 \in Typed
    BY <2>2
  <2> HIDE DEF Typed
  <2>4. Nat \subseteq Typed
    BY <2>1, <2>3, Induction
  <2>5. QED BY <2>4 DEF Typed
<1>3. ASSUME NEW i \in 1 .. n
      PROVE  /\ Len(g[i]) = Len(g[i - 1]) + Len(parts[i])
             /\ Lies(g[i - 1], g[i], 0) /\ Lies(parts[i], g[i], Len(g[i - 1]))
  <2>1. i - 1 \in 0 .. n
    OBVIOUS
  <2>2. g[i - 1] \in Seq(S) /\ parts[i] \in Seq(S) /\ g[i] = g[i - 1] \o parts[i]
    BY <1>1, <1>2, <2>1
  <2>3. QED BY <2>2, LiesInJoined
<1> DEFINE Within == {j \in Nat : j <= n => \A i \in 0 .. j :
                        Lies(g[i], g[j], 0) /\ (i # 0 => Lies(parts[i], g[j], Len(g[i - 1])))}
<1>4. \A j \in 0 .. n : \A i \in 0 .. j :
        Lies(g[i], g[j], 0) /\ (i # 0 => Lies(parts[i], g[j], Len(g[i - 1])))
  <2>1. 0 \in Within
    <3>1. Lies(g[0], g[0], 0)
      BY <1>1 DEF Lies
    <3>2. \A i \in 0 .. 0 : i = 0
      OBVIOUS
    <3>3. QED BY <3>1, <3>2
  <2>2. ASSUME NEW j \in Nat, j \in Within, j + 1 <= n, NEW i \in 0 .. j + 1
        PROVE  Lies(g[i], g[j + 1], 0) /\ (i # 0 => Lies(parts[i], g[j + 1], Len(g[i - 1])))
    <3>1. CASE i = j + 1
      <4>1. g[i] \in Seq(S) /\ i \in 1 .. n
        BY <1>2, <2>2, <3>1
      <4>2. Lies(g[i], g[i], 0)
        BY <4>1 DEF Lies
      <4>3. QED BY <1>3, <3>1, <4>1, <4>2
    <3>2. CASE i <= j
      <4>1. j + 1 \in 1 .. n /\ i \in 0 .. j /\ (j + 1) - 1 = j
        BY <2>2, <3>2
      <4>2. Lies(g[i], g[j], 0) /\ (i # 0 => Lies(parts[i], g[j], Len(g[i - 1])))
        BY <2>2, <4>1
      <4>3. Lies(g[j], g[j + 1], 0)
        BY <1>3, <4>1
      <4>4. g[i] \in Seq(S) /\ g[j] \in Seq(S) /\ g[j + 1] \in Seq(S)
        BY <1>2, <4>1
      <4>5. Lies(g[i], g[j + 1], 0)
        BY <4>2, <4>3, <4>4, LiesInLonger
      <4>6. ASSUME i # 0 PROVE Lies(parts[i], g[j + 1], Len(g[i - 1]))
        <5>1. i \in 1 .. n /\ i - 1 \in 0 .. n
          BY <4>1, <4>6
        <5>2. parts[i] \in Seq(S) /\ Len(g[i - 1]) \in Nat /\ Lies(parts[i], g[j], Len(g[i - 1]))
          BY <1>2, <4>2, <4>6, <5>1
        <5>3. QED BY <4>3, <4>4, <5>2, LiesInLonger
      <4>7. QED BY <4>5, <4>6
    <3>3. QED BY <3>1, <3>2
  <2>3. \A j \in Nat : j \in Within => j + 1 \in Within
    BY <2>2
  <2> HIDE DEF Within
  <2>4. Nat \subseteq Within
    BY <2>1, <2>3, Induction
  <2>5. QED BY <2>4 DEF Within
<1>5. QED BY <1>1, <1>2, <1>3, <1>4

----------------------------------------------------------------------------
(* Reading at a position                                                   *)

\* What a reader at a position has before it.
Behind(file, pos) == SubSeq(file, pos + 1, Len(file))

\* The bytes between two positions, and what a reader gets that stops at one.
Cut(file, a, b) == SubSeq(file, a + 1, b)
Got(value, file, pos) == [ok |-> TRUE, value |-> value, rest |-> Behind(file, pos)]

\* The elements between two positions.
LEMMA Slice ==
  ASSUME NEW S, NEW file \in Seq(S), NEW a \in Nat, NEW b \in a .. Len(file)
  PROVE  /\ SubSeq(file, a + 1, b) \in Seq(S)
         /\ Len(SubSeq(file, a + 1, b)) = b - a
         /\ \A x \in 1 .. b - a : SubSeq(file, a + 1, b)[x] = file[a + x]
<1>1. a + 1 \in 1 .. Len(file) + 1 /\ b \in a + 1 - 1 .. Len(file)
  OBVIOUS
<1>2. QED BY <1>1, SubSeqProperties

\* Between two positions of what is left there are those of the whole.
LEMMA SliceOfBehind ==
  ASSUME NEW S, NEW file \in Seq(S), NEW pos \in 0 .. Len(file),
         NEW a \in Nat, NEW b \in a .. Len(file) - pos
  PROVE  SubSeq(Behind(file, pos), a + 1, b) = SubSeq(file, pos + a + 1, pos + b)
<1> DEFINE rest == Behind(file, pos)
           left == SubSeq(rest, a + 1, b)
           right == SubSeq(file, pos + a + 1, pos + b)
<1>1. rest \in Seq(S) /\ Len(rest) = Len(file) - pos
      /\ \A x \in 1 .. Len(file) - pos : rest[x] = file[pos + x]
  BY Slice DEF Behind
<1> HIDE DEF rest
<1>2. left \in Seq(S) /\ Len(left) = b - a /\ \A x \in 1 .. b - a : left[x] = rest[a + x]
  BY <1>1, Slice
<1>3. right \in Seq(S) /\ Len(right) = b - a /\ \A x \in 1 .. b - a : right[x] = file[pos + a + x]
  <2>1. pos + a \in Nat /\ pos + b \in pos + a .. Len(file) /\ (pos + b) - (pos + a) = b - a
    OBVIOUS
  <2>2. QED BY <2>1, Slice
<1> HIDE DEF left, right
<1>4. ASSUME NEW x \in 1 .. Len(left)
      PROVE  left[x] = right[x]
  <2>1. x \in 1 .. b - a /\ a + x \in 1 .. Len(file) - pos /\ pos + (a + x) = pos + a + x
    BY <1>2
  <2>2. left[x] = rest[a + x] /\ rest[a + x] = file[pos + (a + x)]
    BY <1>1, <1>2, <2>1
  <2>3. right[x] = file[pos + a + x]
    BY <1>3, <2>1
  <2>4. QED BY <2>1, <2>2, <2>3
<1>5. left = right
  BY <1>2, <1>3, <1>4, SeqEqual
<1>6. QED BY <1>5 DEF left, right, rest

\* Reader::take at a position.
LEMMA TakeAt ==
  ASSUME NEW S, NEW file \in Seq(S), NEW pos \in 0 .. Len(file), NEW n \in Nat
  PROVE  /\ pos + n <= Len(file) =>
              Take(Behind(file, pos), n) =
                [ok |-> TRUE, value |-> SubSeq(file, pos + 1, pos + n), rest |-> Behind(file, pos + n)]
         /\ pos + n > Len(file) => Take(Behind(file, pos), n) = Eof
<1>1. Len(Behind(file, pos)) = Len(file) - pos
  BY Slice DEF Behind
<1>2. ASSUME pos + n <= Len(file)
      PROVE  Take(Behind(file, pos), n) =
               [ok |-> TRUE, value |-> SubSeq(file, pos + 1, pos + n), rest |-> Behind(file, pos + n)]
  <2>1. SubSeq(Behind(file, pos), 1, n) = SubSeq(file, pos + 1, pos + n)
    <3>1. 0 \in Nat /\ n \in 0 .. Len(file) - pos /\ 0 + 1 = 1 /\ pos + 0 + 1 = pos + 1
      BY <1>2
    <3>2. \A a \in Nat : n \in a .. Len(file) - pos =>
            SubSeq(Behind(file, pos), a + 1, n) = SubSeq(file, pos + a + 1, pos + n)
      BY SliceOfBehind
    <3>3. SubSeq(Behind(file, pos), 0 + 1, n) = SubSeq(file, pos + 0 + 1, pos + n)
      BY <3>1, <3>2
    <3>4. QED BY <3>1, <3>3
  <2>2. SubSeq(Behind(file, pos), n + 1, Len(file) - pos) = Behind(file, pos + n)
    <3> DEFINE end == Len(file) - pos
    <3>1. pos + end = Len(file) /\ end \in n .. Len(file) - pos
      BY <1>2
    <3> HIDE DEF end
    <3>2. SubSeq(Behind(file, pos), n + 1, end) = SubSeq(file, pos + n + 1, pos + end)
      BY <3>1, SliceOfBehind
    <3>3. SubSeq(Behind(file, pos), n + 1, end) = Behind(file, pos + n)
      BY <3>1, <3>2 DEF Behind
    <3>4. QED BY <3>3 DEF end
  <2>3. ~ (Len(Behind(file, pos)) < n)
    BY <1>1, <1>2
  <2>4. QED BY <1>1, <2>1, <2>2, <2>3 DEF Take
<1>3. ASSUME pos + n > Len(file)
      PROVE  Take(Behind(file, pos), n) = Eof
  <2>1. Len(Behind(file, pos)) < n
    BY <1>1, <1>3
  <2>2. QED BY <2>1 DEF Take
<1>4. QED BY <1>2, <1>3

\* The same with the shorthands.
LEMMA TakeIs ==
  ASSUME NEW S, NEW file \in Seq(S), NEW pos \in 0 .. Len(file), NEW n \in Nat
  PROVE  Take(Behind(file, pos), n) =
           IF pos + n <= Len(file) THEN Got(Cut(file, pos, pos + n), file, pos + n) ELSE Eof
<1>1. CASE pos + n <= Len(file)
  BY <1>1, TakeAt DEF Got, Cut
<1>2. CASE ~ (pos + n <= Len(file))
  <2>1. pos + n > Len(file)
    BY <1>2
  <2>2. QED BY <1>2, <2>1, TakeAt
<1>3. QED BY <1>1, <1>2

\* The count at a position.
CountAt(file, pos, width) ==
  IF width = 1 THEN file[pos + 1] ELSE file[pos + 1] + ByteMod * file[pos + 2]

\* A byte, as numbers.
LEMMA ByteIs == \A b : b \in Byte <=> b \in Nat /\ b <= 255
<1> DEFINE top == ByteMod - 1
<1>1. top \in Nat /\ top = 255
  BY DEF ByteMod
<1>2. Byte = 0 .. top
  BY DEF Byte
<1> HIDE DEF top
<1>3. \A b : b \in 0 .. top <=> b \in Nat /\ b <= top
  BY <1>1
<1>4. QED BY <1>1, <1>2, <1>3

\* A count is one of one or two bytes.
LEMMA CountTyped ==
  ASSUME NEW file \in Seq(Byte), NEW pos \in 0 .. Len(file), NEW width \in {1, 2},
         pos + width <= Len(file)
  PROVE  CountAt(file, pos, width) \in Nat /\ CountAt(file, pos, width) <= 65535
<1>1. \A x \in 1 .. Len(file) : file[x] \in Nat /\ file[x] <= 255
  BY ElementOfSeq, ByteIs
<1>2. CASE width = 1
  <2>1. pos + 1 \in 1 .. Len(file)
    BY <1>2
  <2>2. QED BY <1>1, <1>2, <2>1 DEF CountAt
<1>3. CASE width = 2
  <2>1. pos + 1 \in 1 .. Len(file) /\ pos + 2 \in 1 .. Len(file)
    BY <1>3
  <2>2. QED BY <1>1, <1>3, <2>1 DEF CountAt, ByteMod
<1>4. QED BY <1>2, <1>3

\* Reader::cn and k_bytes at a position.
LEMMA TakeCountedIs ==
  ASSUME NEW file \in Seq(Byte), NEW pos \in 0 .. Len(file), NEW width \in {1, 2}
  PROVE  LET n == CountAt(file, pos, width)
             begin == pos + width
         IN TakeCounted(Behind(file, pos), width) =
              IF begin <= Len(file) /\ begin + n <= Len(file)
              THEN Got(Cut(file, begin, begin + n), file, begin + n) ELSE Eof
<1> DEFINE n == CountAt(file, pos, width)
           begin == pos + width
           length == Take(Behind(file, pos), width)
<1>1. length = IF begin <= Len(file) THEN Got(Cut(file, pos, begin), file, begin) ELSE Eof
  <2>1. width \in Nat
    OBVIOUS
  <2>2. QED BY <2>1, TakeIs
<1>2. CASE begin <= Len(file)
  <2>1. length.ok /\ length.value = Cut(file, pos, begin) /\ length.rest = Behind(file, begin)
    <3> HIDE DEF length, begin
    <3>1. length = Got(Cut(file, pos, begin), file, begin)
      BY <1>1, <1>2
    <3>2. QED BY <3>1 DEF Got
  <2>2. /\ length.value[1] = file[pos + 1]
        /\ width = 2 => length.value[2] = file[pos + 2]
    <3>1. begin \in pos .. Len(file) /\ begin - pos = width /\ pos \in Nat
      BY <1>2
    <3>2. \A x \in 1 .. begin - pos : Cut(file, pos, begin)[x] = file[pos + x]
      BY <3>1, Slice DEF Cut
    <3>3. 1 \in 1 .. begin - pos /\ (width = 2 => 2 \in 1 .. begin - pos)
      BY <3>1
    <3> HIDE DEF length, begin
    <3>4. QED BY <2>1, <3>2, <3>3
  <2>3. n = IF width = 1 THEN length.value[1] ELSE length.value[1] + ByteMod * length.value[2]
    <3> HIDE DEF length
    <3>1. QED BY <2>2 DEF CountAt
  <2>4. n \in Nat
    <3>1. n \in Nat /\ n <= 65535
      BY <1>2, CountTyped
    <3>2. QED BY <3>1
  <2>5. begin \in 0 .. Len(file)
    BY <1>2
  <2>6. TakeCounted(Behind(file, pos), width) = Take(length.rest, n)
    <3> HIDE DEF n
    <3>1. QED BY <2>1, <2>3, Zenon DEF TakeCounted
  <2> HIDE DEF n, begin, length
  <2>7. Take(Behind(file, begin), n) =
          IF begin + n <= Len(file) THEN Got(Cut(file, begin, begin + n), file, begin + n) ELSE Eof
    BY <2>4, <2>5, TakeIs
  <2>8. QED BY <1>2, <2>1, <2>6, <2>7 DEF n, begin
<1>3. CASE ~ (begin <= Len(file))
  <2>1. ~length.ok
    <3> HIDE DEF length, begin
    <3>1. length = Eof
      BY <1>1, <1>3
    <3>2. QED BY <3>1 DEF Eof
  <2>2. TakeCounted(Behind(file, pos), width) = Eof
    BY <2>1, Zenon DEF TakeCounted
  <2>3. QED BY <1>3, <2>2
<1>4. QED BY <1>2, <1>3

\* A file holds a part at a position, as far as the file goes.
Agrees(part, file, pos) ==
  \A x \in 1 .. Len(part) : pos + x <= Len(file) => file[pos + x] = part[x]

\* What a file agrees with and does not end in, it holds.
LEMMA CutIs ==
  ASSUME NEW S, NEW file \in Seq(S), NEW part \in Seq(S), NEW pos \in Nat,
         Agrees(part, file, pos), pos + Len(part) <= Len(file)
  PROVE  Cut(file, pos, pos + Len(part)) = part
<1> DEFINE cut == Cut(file, pos, pos + Len(part))
<1>1. pos + Len(part) \in pos .. Len(file) /\ (pos + Len(part)) - pos = Len(part)
  OBVIOUS
<1>2. cut \in Seq(S) /\ Len(cut) = Len(part) /\ \A x \in 1 .. Len(part) : cut[x] = file[pos + x]
  BY <1>1, Slice DEF Cut
<1> HIDE DEF cut
<1>3. \A x \in 1 .. Len(part) : file[pos + x] = part[x]
  BY DEF Agrees
<1>4. \A x \in 1 .. Len(cut) : cut[x] = part[x]
  BY <1>2, <1>3
<1>5. cut = part
  BY <1>2, <1>4, SeqEqual
<1>6. QED BY <1>5 DEF cut

\* A file that agrees with two parts agrees with each at its place.
LEMMA AgreesParts ==
  ASSUME NEW S, NEW head \in Seq(S), NEW tail \in Seq(S), NEW file \in Seq(S), NEW pos \in Nat,
         Agrees(head \o tail, file, pos)
  PROVE  Agrees(head, file, pos) /\ Agrees(tail, file, pos + Len(head))
<1> DEFINE part == head \o tail
<1>1. part \in Seq(S) /\ Len(part) = Len(head) + Len(tail)
      /\ (\A x \in 1 .. Len(head) : part[x] = head[x])
      /\ (\A x \in 1 .. Len(tail) : part[Len(head) + x] = tail[x])
  OBVIOUS
<1>2. Agrees(part, file, pos)
  OBVIOUS
<1> HIDE DEF part
<1>3. ASSUME NEW x \in 1 .. Len(head), pos + x <= Len(file)
      PROVE  file[pos + x] = head[x]
  <2>1. x \in 1 .. Len(part)
    BY <1>1
  <2>2. QED BY <1>1, <1>2, <1>3, <2>1 DEF Agrees
<1>4. ASSUME NEW x \in 1 .. Len(tail), pos + Len(head) + x <= Len(file)
      PROVE  file[pos + Len(head) + x] = tail[x]
  <2>1. Len(head) + x \in 1 .. Len(part) /\ pos + (Len(head) + x) = pos + Len(head) + x
    BY <1>1
  <2>2. file[pos + (Len(head) + x)] = part[Len(head) + x]
    BY <1>2, <1>4, <2>1 DEF Agrees
  <2>3. QED BY <1>1, <2>1, <2>2
<1>5. QED BY <1>3, <1>4 DEF Agrees

\* What a count says.
CountOf(head, width) == IF width = 1 THEN head[1] ELSE head[1] + ByteMod * head[2]

\* Counted bytes are read as they were written, or not at all.
LEMMA ReadsCounted ==
  ASSUME NEW file \in Seq(Byte), NEW pos \in 0 .. Len(file), NEW width \in {1, 2},
         NEW head \in Seq(Byte), Len(head) = width, NEW value \in Seq(Byte),
         CountOf(head, width) = Len(value), Agrees(head \o value, file, pos)
  PROVE  TakeCounted(Behind(file, pos), width) =
           IF pos + width + Len(value) <= Len(file)
           THEN Got(value, file, pos + width + Len(value)) ELSE Eof
<1> DEFINE begin == pos + width
<1>1. Agrees(head, file, pos) /\ Agrees(value, file, begin)
  BY AgreesParts
<1>2. TakeCounted(Behind(file, pos), width) =
        IF begin <= Len(file) /\ begin + CountAt(file, pos, width) <= Len(file)
        THEN Got(Cut(file, begin, begin + CountAt(file, pos, width)), file,
                 begin + CountAt(file, pos, width))
        ELSE Eof
  BY TakeCountedIs
<1>3. CASE begin <= Len(file)
  <2>1. CountAt(file, pos, width) = Len(value)
    <3>1. CASE width = 1
      <4>1. file[pos + 1] = head[1]
        BY <1>1, <1>3, <3>1 DEF Agrees
      <4>2. QED BY <3>1, <4>1 DEF CountAt, CountOf
    <3>2. CASE width = 2
      <4>1. file[pos + 1] = head[1] /\ file[pos + 2] = head[2]
        BY <1>1, <1>3, <3>2 DEF Agrees
      <4>2. QED BY <3>2, <4>1 DEF CountAt, CountOf
    <3>3. QED BY <3>1, <3>2
  <2>2. begin \in Nat /\ (begin + Len(value) <= Len(file) => Cut(file, begin, begin + Len(value)) = value)
    <3>1. begin \in Nat
      OBVIOUS
    <3> HIDE DEF begin
    <3>2. QED BY <1>1, <3>1, CutIs
  <2> HIDE DEF begin
  <2>3. QED BY <1>2, <1>3, <2>1, <2>2 DEF begin
<1>4. CASE ~ (begin <= Len(file))
  <2>1. ~ (begin + Len(value) <= Len(file))
    BY <1>4
  <2>2. QED BY <1>2, <1>4, <2>1
<1>5. QED BY <1>3, <1>4

\* Two bytes say a number, unless it is too large for them.
LEMMA Bytes2Count ==
  ASSUME NEW n \in Nat
  PROVE  /\ Bytes2(n) \in Seq(Byte) /\ Len(Bytes2(n)) = 2
         /\ CountOf(Bytes2(n), 2) = n % LengthMod
         /\ n % LengthMod \in Nat /\ n % LengthMod < LengthMod
         /\ n < LengthMod => n % LengthMod = n
<1>1. LengthMod \in Nat /\ 257 <= LengthMod /\ LengthMod <= 65536
  BY LengthAssumption
<1> DEFINE c == n % LengthMod
<1>2. c \in Nat /\ c < LengthMod
  BY <1>1
<1>3. n < LengthMod => c = n
  BY <1>1
<1> HIDE DEF c
<1>4. c % 256 \in Nat /\ c % 256 <= 255 /\ c \div 256 \in Nat /\ c \div 256 <= 255
      /\ (c % 256) + 256 * (c \div 256) = c
  BY <1>1, <1>2
<1>5. Bytes2(n) = <<c % 256, c \div 256>>
  BY DEF Bytes2, c, ByteMod
<1>6. c % 256 \in Byte /\ c \div 256 \in Byte
  BY <1>4, ByteIs
<1>7. CountOf(Bytes2(n), 2) = c
  BY <1>4, <1>5 DEF CountOf, ByteMod
<1>8. QED BY <1>2, <1>3, <1>5, <1>6, <1>7 DEF c

----------------------------------------------------------------------------
(* Texts and lists of texts                                                *)

\* A text is UTF-8.
Texts == Seq(Byte \ {NotUtf8})

\* A text is bytes, and stays as it is when it is read (from_utf8_lossy).
LEMMA TextIsBytes ==
  ASSUME NEW text \in Texts
  PROVE  text \in Seq(Byte) /\ IsUtf8(text) /\ Lossy(text) = text
<1>1. text \in Seq(Byte)
  BY SeqMonotonic DEF Texts
<1>2. \A i \in 1 .. Len(text) : text[i] \in Byte \ {NotUtf8}
  BY ElementOfSeq DEF Texts
<1>3. IsUtf8(text)
  BY <1>1, <1>2 DEF IsUtf8
<1>4. QED BY <1>1, <1>3 DEF Lossy

\* Reader::cn and nn at a position.
LEMMA ReadsText ==
  ASSUME NEW file \in Seq(Byte), NEW pos \in 0 .. Len(file), NEW width \in {1, 2},
         NEW head \in Seq(Byte), Len(head) = width, NEW text \in Texts,
         CountOf(head, width) = Len(text), Agrees(head \o text, file, pos)
  PROVE  TakeText(Behind(file, pos), width) =
           IF pos + width + Len(text) <= Len(file)
           THEN Got(text, file, pos + width + Len(text)) ELSE Eof
<1> DEFINE counted == TakeCounted(Behind(file, pos), width)
<1>1. counted = IF pos + width + Len(text) <= Len(file)
                THEN Got(text, file, pos + width + Len(text)) ELSE Eof
  BY ReadsCounted, TextIsBytes
<1>2. TakeText(Behind(file, pos), width) =
        IF counted.ok THEN [ok |-> TRUE, value |-> Lossy(counted.value), rest |-> counted.rest] ELSE Eof
  BY Zenon DEF TakeText
<1> HIDE DEF counted
<1>3. CASE pos + width + Len(text) <= Len(file)
  <2>1. counted.ok /\ counted.value = text /\ counted.rest = Behind(file, pos + width + Len(text))
    BY <1>1, <1>3 DEF Got
  <2>2. QED BY <1>2, <1>3, <2>1, TextIsBytes DEF Got
<1>4. CASE ~ (pos + width + Len(text) <= Len(file))
  <2>1. ~counted.ok
    BY <1>1, <1>4 DEF Eof
  <2>2. QED BY <1>2, <1>4, <2>1
<1>5. QED BY <1>3, <1>4

\* A text with its length.
Counted(text) == <<Len(text)>> \o text

\* It is bytes, one more than the text.
LEMMA CountedIs ==
  ASSUME NEW text \in Texts, Len(text) < ByteMod
  PROVE  Counted(text) \in Seq(Byte) /\ Len(Counted(text)) = 1 + Len(text)
<1>1. Len(text) \in Byte
  BY ByteIs DEF ByteMod, Texts
<1>2. <<Len(text)>> \in Seq(Byte) /\ Len(<<Len(text)>>) = 1 /\ text \in Seq(Byte)
  BY <1>1, TextIsBytes
<1>3. QED BY <1>2 DEF Counted

\* Reader::cn reads it back.
LEMMA ReadsCn ==
  ASSUME NEW file \in Seq(Byte), NEW pos \in 0 .. Len(file), NEW text \in Texts,
         Len(text) < ByteMod, Agrees(Counted(text), file, pos)
  PROVE  TakeText(Behind(file, pos), 1) =
           IF pos + Len(Counted(text)) <= Len(file)
           THEN Got(text, file, pos + Len(Counted(text))) ELSE Eof
<1>1. Len(text) \in Byte
  <2>1. Len(text) \in Nat /\ Len(text) <= 255
    BY DEF ByteMod, Texts
  <2>2. QED BY <2>1, ByteIs
<1>2. <<Len(text)>> \in Seq(Byte) /\ Len(<<Len(text)>>) = 1 /\ CountOf(<<Len(text)>>, 1) = Len(text)
  BY <1>1 DEF CountOf
<1>3. TakeText(Behind(file, pos), 1) =
           IF pos + 1 + Len(text) <= Len(file) THEN Got(text, file, pos + 1 + Len(text)) ELSE Eof
  BY <1>2, ReadsText DEF Counted
<1>4. Len(Counted(text)) = 1 + Len(text) /\ Len(text) \in Nat
  BY CountedIs DEF Texts
<1>5. pos + Len(Counted(text)) = pos + 1 + Len(text)
  BY <1>4
<1>6. QED BY <1>3, <1>5

\* The states of Reader::sn, text by text.
StringStates(bytes, n, got) ==
  got = [i \in 0 .. n |->
           IF i = 0 THEN [ok |-> TRUE, value |-> <<>>, rest |-> bytes] ELSE AfterString(got[i - 1])]

\* There are such states for any number of texts.
LEMMA StringStatesExist ==
  ASSUME NEW bytes, NEW n \in Nat
  PROVE  \E got : StringStates(bytes, n, got)
<1> DEFINE With == {k \in Nat : \E got : StringStates(bytes, k, got)}
           start == [ok |-> TRUE, value |-> <<>>, rest |-> bytes]
<1>1. 0 \in With
  <2>1. StringStates(bytes, 0, [i \in 0 .. 0 |-> start])
    BY DEF StringStates
  <2>2. QED BY <2>1
<1>2. ASSUME NEW k \in Nat, k \in With
      PROVE  k + 1 \in With
  <2>1. PICK got : StringStates(bytes, k, got)
    BY <1>2
  <2> DEFINE longer == [i \in 0 .. k + 1 |-> IF i <= k THEN got[i] ELSE AfterString(got[k])]
  <2>2. ASSUME NEW i \in 0 .. k + 1
        PROVE  longer[i] = IF i = 0 THEN start ELSE AfterString(longer[i - 1])
    <3>1. CASE i <= k
      <4>1. i \in 0 .. k /\ longer[i] = got[i]
        BY <3>1
      <4>2. got[i] = IF i = 0 THEN start ELSE AfterString(got[i - 1])
        BY <2>1, <4>1 DEF StringStates
      <4>3. i # 0 => longer[i - 1] = got[i - 1]
        BY <3>1
      <4> HIDE DEF longer, start
      <4>4. QED BY <4>1, <4>2, <4>3
    <3>2. CASE i = k + 1
      <4>1. longer[i] = AfterString(got[k]) /\ longer[i - 1] = got[k] /\ i # 0
        BY <3>2
      <4> HIDE DEF longer, start
      <4>2. QED BY <3>2, <4>1
    <3>3. QED BY <3>1, <3>2
  <2>3. StringStates(bytes, k + 1, longer)
    BY <2>2 DEF StringStates
  <2>4. QED BY <2>3
<1> HIDE DEF With
<1>3. Nat \subseteq With
  BY <1>1, <1>2, Induction
<1>4. QED BY <1>3 DEF With

\* The count, and what it counts.
LEMMA StringsAre ==
  ASSUME NEW file \in Seq(Byte), NEW pos \in 0 .. Len(file)
  PROVE  /\ pos + 2 > Len(file) => TakeStrings(Behind(file, pos)) = Eof
         /\ pos + 2 <= Len(file) =>
              \E got : /\ StringStates(Behind(file, pos + 2), CountAt(file, pos, 2), got)
                       /\ TakeStrings(Behind(file, pos)) = got[CountAt(file, pos, 2)]
<1> DEFINE count == Take(Behind(file, pos), 2)
           n == CountAt(file, pos, 2)
<1>1. count = IF pos + 2 <= Len(file) THEN Got(Cut(file, pos, pos + 2), file, pos + 2) ELSE Eof
  BY TakeIs
<1>2. ASSUME pos + 2 > Len(file)
      PROVE  TakeStrings(Behind(file, pos)) = Eof
  <2> HIDE DEF count
  <2>1. count = Eof
    BY <1>1, <1>2
  <2>2. ~count.ok
    BY <2>1 DEF Eof
  <2>3. QED BY <2>2 DEF TakeStrings, count
<1>3. ASSUME pos + 2 <= Len(file)
      PROVE  \E got : /\ StringStates(Behind(file, pos + 2), n, got)
                      /\ TakeStrings(Behind(file, pos)) = got[n]
  <2>1. count.ok /\ count.value = Cut(file, pos, pos + 2) /\ count.rest = Behind(file, pos + 2)
    <3> HIDE DEF count
    <3>1. QED BY <1>1, <1>3 DEF Got
  <2>2. count.value[1] + ByteMod * count.value[2] = n
    <3>1. pos + 2 \in pos .. Len(file) /\ (pos + 2) - pos = 2 /\ pos \in Nat
      BY <1>3
    <3>2. \A x \in 1 .. 2 : Cut(file, pos, pos + 2)[x] = file[pos + x]
      BY <3>1, Slice DEF Cut
    <3> HIDE DEF count
    <3>3. QED BY <2>1, <3>2 DEF CountAt
  <2>3. n \in Nat
    BY <1>3, CountTyped
  <2> DEFINE state == CHOOSE got : StringStates(Behind(file, pos + 2), n, got)
  <2>4. StringStates(Behind(file, pos + 2), n, state)
    BY <2>3, StringStatesExist, Zenon
  <2>5. TakeStrings(Behind(file, pos)) = state[n]
    <3> HIDE DEF n
    <3>1. QED BY <2>1, <2>2, Zenon DEF TakeStrings, StringStates
  <2>6. QED BY <2>4, <2>5
<1>4. QED BY <1>2, <1>3

----------------------------------------------------------------------------
(* Lists of texts                                                          *)

\* A file that agrees with a whole agrees with what lies in it.
LEMMA AgreesInside ==
  ASSUME NEW S, NEW part \in Seq(S), NEW whole \in Seq(S), NEW file \in Seq(S),
         NEW pos \in Nat, NEW k \in Nat, Lies(part, whole, k), Agrees(whole, file, pos)
  PROVE  Agrees(part, file, pos + k)
<1>1. ASSUME NEW x \in 1 .. Len(part), pos + k + x <= Len(file)
      PROVE  file[pos + k + x] = part[x]
  <2>1. k + x \in 1 .. Len(whole) /\ pos + (k + x) = pos + k + x
    BY DEF Lies
  <2>2. whole[k + x] = part[x]
    BY DEF Lies
  <2>3. file[pos + (k + x)] = whole[k + x]
    BY <1>1, <2>1 DEF Agrees
  <2>4. QED BY <2>1, <2>2, <2>3
<1>2. QED BY <1>1 DEF Agrees

\* write::sn puts the counted texts behind their count.
StringParts(strings) == [i \in 1 .. Len(strings) |-> Counted(strings[i])]

\* It does so one by one.
LEMMA WriteStringsIs ==
  ASSUME NEW strings \in Seq(Texts)
  PROVE  \E g : /\ Growth(Bytes2(Len(strings)), StringParts(strings), Len(strings), g)
                /\ WriteStrings(strings) = g[Len(strings)]
<1> DEFINE n == Len(strings)
           Is(g) == g = [i \in 0 .. n |->
                           IF i = 0 THEN Bytes2(n) ELSE g[i - 1] \o (<<Len(strings[i])>> \o strings[i])]
           state == CHOOSE g : Is(g)
<1>1. n \in Nat
  OBVIOUS
<1>2. WriteStrings(strings) = state[n]
  BY Zenon DEF WriteStrings
<1>3. PICK g : Growth(Bytes2(n), StringParts(strings), n, g)
  BY <1>1, GrowthExists, Zenon
<1>4. ASSUME NEW h
      PROVE  Is(h) <=> Growth(Bytes2(n), StringParts(strings), n, h)
  <2>1. ASSUME NEW i \in 0 .. n
        PROVE  (IF i = 0 THEN Bytes2(n) ELSE h[i - 1] \o (<<Len(strings[i])>> \o strings[i]))
                 = (IF i = 0 THEN Bytes2(n) ELSE h[i - 1] \o StringParts(strings)[i])
    <3>1. CASE i = 0
      BY <3>1
    <3>2. CASE i # 0
      <4>1. i \in 1 .. n
        BY <3>2
      <4>2. StringParts(strings)[i] = <<Len(strings[i])>> \o strings[i]
        BY <4>1 DEF StringParts, Counted
      <4>3. QED BY <3>2, <4>2
    <3>3. QED BY <3>1, <3>2
  <2>2. [i \in 0 .. n |-> IF i = 0 THEN Bytes2(n) ELSE h[i - 1] \o (<<Len(strings[i])>> \o strings[i])]
          = [i \in 0 .. n |-> IF i = 0 THEN Bytes2(n) ELSE h[i - 1] \o StringParts(strings)[i]]
    BY <2>1
  <2>3. QED BY <2>2, Zenon DEF Growth
<1>5. Is(state)
  <2>1. Is(g)
    BY <1>3, <1>4
  <2> HIDE DEF Is
  <2>2. QED BY <2>1, Zenon
<1> HIDE DEF Is, state
<1>6. Growth(Bytes2(n), StringParts(strings), n, state)
  BY <1>4, <1>5
<1>7. QED BY <1>2, <1>6

\* Where each of them stands.
StringsStand(strings, g) ==
  LET n == Len(strings)
      parts == StringParts(strings)
  IN /\ WriteStrings(strings) = g[n]
     /\ g[0] = Bytes2(n)
     /\ \A i \in 0 .. n : g[i] \in Seq(Byte) /\ Lies(g[i], g[n], 0)
     /\ \A i \in 1 .. n :
          /\ parts[i] = Counted(strings[i]) /\ parts[i] \in Seq(Byte)
          /\ g[i] = g[i - 1] \o parts[i]
          /\ Len(g[i]) = Len(g[i - 1]) + Len(parts[i])
          /\ Lies(parts[i], g[n], Len(g[i - 1]))

\* They do stand there, if their number and their lengths can be written.
LEMMA StringsDoStand ==
  ASSUME NEW strings \in Seq(Texts),
         Len(strings) < LengthMod, \A i \in 1 .. Len(strings) : Len(strings[i]) < ByteMod
  PROVE  /\ Bytes2(Len(strings)) \in Seq(Byte) /\ Len(Bytes2(Len(strings))) = 2
         /\ CountOf(Bytes2(Len(strings)), 2) = Len(strings)
         /\ \E g : StringsStand(strings, g)
<1> DEFINE n == Len(strings)
           parts == StringParts(strings)
<1>1. n \in Nat
  OBVIOUS
<1>2. PICK g : Growth(Bytes2(n), parts, n, g) /\ WriteStrings(strings) = g[n]
  BY WriteStringsIs
<1>3. /\ Bytes2(n) \in Seq(Byte) /\ Len(Bytes2(n)) = 2 /\ CountOf(Bytes2(n), 2) = n
  BY <1>1, Bytes2Count
<1>4. \A i \in 1 .. n : parts[i] = Counted(strings[i]) /\ strings[i] \in Texts
  BY ElementOfSeq DEF StringParts
<1>5. \A i \in 1 .. n : parts[i] \in Seq(Byte) /\ Len(parts[i]) = 1 + Len(strings[i])
  BY <1>4, CountedIs
<1> HIDE DEF parts
<1>6. /\ g[0] = Bytes2(n)
      /\ \A i \in 0 .. n : g[i] \in Seq(Byte) /\ Lies(g[i], g[n], 0)
      /\ \A i \in 1 .. n : Len(g[i]) = Len(g[i - 1]) + Len(parts[i])
      /\ \A i \in 1 .. n : Lies(parts[i], g[n], Len(g[i - 1]))
  <2>1. /\ g[0] = Bytes2(n)
        /\ \A i \in 0 .. n : g[i] \in Seq(Byte)
        /\ \A i \in 1 .. n : Len(g[i]) = Len(g[i - 1]) + Len(parts[i])
        /\ \A j \in 0 .. n : \A i \in 0 .. j :
              /\ Lies(g[i], g[j], 0)
              /\ i # 0 => Lies(parts[i], g[j], Len(g[i - 1]))
    BY <1>1, <1>2, <1>3, <1>5, PartsLie
  <2>2. n \in 0 .. n /\ \A i \in 1 .. n : i \in 0 .. n /\ i # 0
    BY <1>1
  <2>3. QED BY <2>1, <2>2
<1>7. \A i \in 1 .. n : g[i] = g[i - 1] \o parts[i]
  BY <1>2 DEF Growth
<1>8. StringsStand(strings, g)
  BY <1>2, <1>4, <1>5, <1>6, <1>7 DEF StringsStand, parts
<1>9. QED BY <1>3, <1>8

\* What write::sn has written, Reader::sn reads back, or nothing of it.
LEMMA ReadsStrings ==
  ASSUME NEW file \in Seq(Byte), NEW pos \in 0 .. Len(file), NEW strings \in Seq(Texts),
         Len(strings) < LengthMod, \A i \in 1 .. Len(strings) : Len(strings[i]) < ByteMod,
         Agrees(WriteStrings(strings), file, pos)
  PROVE  TakeStrings(Behind(file, pos)) =
           IF pos + Len(WriteStrings(strings)) <= Len(file)
           THEN Got(strings, file, pos + Len(WriteStrings(strings))) ELSE Eof
<1> DEFINE n == Len(strings)
           parts == StringParts(strings)
<1>1. n \in Nat
  OBVIOUS
<1>2. PICK g : StringsStand(strings, g)
  BY StringsDoStand
<1>3. Bytes2(n) \in Seq(Byte) /\ Len(Bytes2(n)) = 2 /\ CountOf(Bytes2(n), 2) = n
  BY StringsDoStand
<1>4. \A i \in 1 .. n : strings[i] \in Texts
  BY ElementOfSeq
<1>5. WriteStrings(strings) = g[n]
  BY <1>2 DEF StringsStand
<1> HIDE DEF parts
<1>6. /\ g[0] = Bytes2(n)
      /\ \A i \in 0 .. n : g[i] \in Seq(Byte) /\ Lies(g[i], g[n], 0)
      /\ \A i \in 1 .. n : Len(g[i]) = Len(g[i - 1]) + Len(parts[i])
      /\ \A i \in 1 .. n : Lies(parts[i], g[n], Len(g[i - 1]))
      /\ \A i \in 1 .. n : parts[i] = Counted(strings[i]) /\ parts[i] \in Seq(Byte)
  BY <1>2 DEF StringsStand, parts
<1>7. g[n] \in Seq(Byte)
  BY <1>1, <1>6
<1>8. Agrees(g[n], file, pos) /\ pos \in Nat
  BY <1>5
<1> DEFINE Expected(i) ==
             IF pos + Len(g[i]) <= Len(file) THEN Got(SubSeq(strings, 1, i), file, pos + Len(g[i])) ELSE Eof
<1>9. Len(g[0]) = 2 /\ Len(g[0]) <= Len(g[n])
  BY <1>1, <1>3, <1>6 DEF Lies
<1>10. CASE pos + 2 > Len(file)
  <2>1. TakeStrings(Behind(file, pos)) = Eof
    BY <1>10, StringsAre
  <2>2. ~ (pos + Len(g[n]) <= Len(file))
    BY <1>7, <1>9, <1>10
  <2>3. QED BY <1>5, <1>7, <2>1, <2>2
<1>11. CASE pos + 2 <= Len(file)
  <2>1. CountAt(file, pos, 2) = n
    <3>1. Agrees(Bytes2(n), file, pos)
      <4>1. Lies(Bytes2(n), g[n], 0)
        BY <1>1, <1>6
      <4>2. 0 \in Nat /\ pos + 0 = pos
        OBVIOUS
      <4>3. Agrees(Bytes2(n), file, pos + 0)
        BY <1>3, <1>7, <1>8, <4>1, <4>2, AgreesInside
      <4>4. QED BY <4>2, <4>3
    <3>2. file[pos + 1] = Bytes2(n)[1] /\ file[pos + 2] = Bytes2(n)[2]
      BY <1>3, <1>11, <3>1 DEF Agrees
    <3>3. QED BY <1>3, <3>2 DEF CountAt, CountOf
  <2>2. PICK got : /\ StringStates(Behind(file, pos + 2), n, got)
                   /\ TakeStrings(Behind(file, pos)) = got[n]
    BY <1>11, <2>1, StringsAre
  <2>3. \A i \in 0 .. n : got[i] = IF i = 0 THEN Got(<<>>, file, pos + 2) ELSE AfterString(got[i - 1])
    BY <2>2, Zenon DEF StringStates, Got
  <2> DEFINE Right == {i \in Nat : i <= n => got[i] = Expected(i)}
  <2>4. 0 \in Right
    <3>1. got[0] = Got(<<>>, file, pos + 2)
      BY <1>1, <2>3
    <3>2. SubSeq(strings, 1, 0) = <<>>
      BY SubSeqEmpty
    <3>3. QED BY <1>9, <1>11, <3>1, <3>2
  <2>5. ASSUME NEW i \in Nat, i \in Right, i + 1 <= n
        PROVE  got[i + 1] = Expected(i + 1)
    <3>1. got[i] = Expected(i)
      BY <2>5
    <3>2. got[i + 1] = AfterString(got[i])
      <4>1. i + 1 \in 0 .. n /\ i + 1 # 0 /\ (i + 1) - 1 = i
        BY <2>5
      <4>2. got[i + 1] = AfterString(got[(i + 1) - 1])
        BY <2>3, <4>1
      <4>3. QED BY <4>1, <4>2
    <3>3. /\ g[i] \in Seq(Byte) /\ g[i + 1] \in Seq(Byte)
          /\ Len(g[i + 1]) = Len(g[i]) + Len(parts[i + 1])
          /\ Lies(parts[i + 1], g[n], Len(g[i]))
      <4>1. i \in 0 .. n /\ i + 1 \in 1 .. n /\ i + 1 \in 0 .. n /\ (i + 1) - 1 = i
        BY <2>5
      <4>2. QED BY <1>6, <4>1
    <3>4. parts[i + 1] = Counted(strings[i + 1]) /\ parts[i + 1] \in Seq(Byte)
          /\ strings[i + 1] \in Texts /\ Len(strings[i + 1]) < ByteMod
      <4>1. i + 1 \in 1 .. n
        BY <2>5
      <4>2. QED BY <1>4, <1>6, <4>1
    <3>8. /\ pos + Len(g[i]) + Len(parts[i + 1]) = pos + Len(g[i + 1])
          /\ ~ (pos + Len(g[i]) <= Len(file)) => ~ (pos + Len(g[i + 1]) <= Len(file))
      <4> DEFINE a == Len(g[i])
                 b == Len(parts[i + 1])
                 c == Len(g[i + 1])
      <4>1. a \in Nat /\ b \in Nat /\ c = a + b /\ pos \in Nat /\ Len(file) \in Nat
        BY <3>3, <3>4
      <4> HIDE DEF a, b, c
      <4>2. pos + a + b = pos + c /\ (~ (pos + a <= Len(file)) => ~ (pos + c <= Len(file)))
        BY <4>1
      <4>3. QED BY <4>2 DEF a, b, c
    <3>5. CASE pos + Len(g[i]) <= Len(file)
      <4> DEFINE at == pos + Len(g[i])
      <4>1. at \in 0 .. Len(file) /\ Len(g[i]) \in Nat
        BY <3>3, <3>5
      <4>2. Agrees(Counted(strings[i + 1]), file, at)
        BY <1>7, <1>8, <3>3, <3>4, <4>1, AgreesInside
      <4>3. got[i].ok /\ got[i].rest = Behind(file, at) /\ got[i].value = SubSeq(strings, 1, i)
        BY <3>1, <3>5 DEF Got
      <4> HIDE DEF at
      <4>4. TakeText(got[i].rest, 1) =
              IF at + Len(parts[i + 1]) <= Len(file)
              THEN Got(strings[i + 1], file, at + Len(parts[i + 1])) ELSE Eof
        BY <3>4, <4>1, <4>2, <4>3, ReadsCn
      <4>5. at + Len(parts[i + 1]) = pos + Len(g[i + 1])
        BY <3>8 DEF at
      <4> DEFINE text == TakeText(got[i].rest, 1)
      <4>6. text = IF pos + Len(g[i + 1]) <= Len(file)
                   THEN Got(strings[i + 1], file, pos + Len(g[i + 1])) ELSE Eof
        BY <4>4, <4>5
      <4>7. got[i + 1] = IF ~got[i].ok \/ ~text.ok THEN Eof
                         ELSE [ok |-> TRUE, value |-> Append(got[i].value, text.value), rest |-> text.rest]
        BY <3>2, Zenon DEF AfterString
      <4> HIDE DEF text
      <4>8. CASE pos + Len(g[i + 1]) <= Len(file)
        <5>1. text.ok /\ text.value = strings[i + 1] /\ text.rest = Behind(file, pos + Len(g[i + 1]))
          BY <4>6, <4>8 DEF Got
        <5>2. Append(SubSeq(strings, 1, i), strings[i + 1]) = SubSeq(strings, 1, i + 1)
          <6>1. 1 \in 1 .. Len(strings) /\ i + 1 \in 1 .. Len(strings) /\ (i + 1) - 1 = i
            BY <2>5
          <6>2. SubSeq(strings, 1, i + 1) = Append(SubSeq(strings, 1, (i + 1) - 1), strings[i + 1])
            BY <6>1, SubSeqRecursiveSecond
          <6>3. QED BY <6>1, <6>2
        <5>3. QED BY <4>3, <4>7, <4>8, <5>1, <5>2 DEF Got
      <4>9. CASE ~ (pos + Len(g[i + 1]) <= Len(file))
        <5>1. ~text.ok
          BY <4>6, <4>9 DEF Eof
        <5>2. QED BY <4>7, <4>9, <5>1
      <4>10. QED BY <4>8, <4>9
    <3>6. CASE ~ (pos + Len(g[i]) <= Len(file))
      <4>1. got[i] = Eof
        BY <3>1, <3>6
      <4>2. ~got[i].ok
        BY <4>1 DEF Eof
      <4>3. got[i + 1] = Eof
        BY <3>2, <4>2 DEF AfterString
      <4>4. ~ (pos + Len(g[i + 1]) <= Len(file))
        BY <3>6, <3>8
      <4>5. QED BY <4>3, <4>4
    <3>7. QED BY <3>5, <3>6
  <2>6. \A i \in Nat : i \in Right => i + 1 \in Right
    BY <2>5
  <2> HIDE DEF Right
  <2>7. Nat \subseteq Right
    BY <2>4, <2>6, Induction
  <2>8. got[n] = Expected(n)
    BY <1>1, <2>7 DEF Right
  <2>9. SubSeq(strings, 1, n) = strings
    BY SubSeqFull
  <2>10. QED BY <1>5, <1>7, <2>2, <2>8, <2>9
<1>12. QED BY <1>1, <1>10, <1>11

----------------------------------------------------------------------------
(* Fields are read as they were written                                    *)

\* The kinds of a fixed width, and all kinds.
Numeric == {"U1", "I1", "U2", "I2", "U4", "R4"}
Kinds == Numeric \cup {"Cn", "Nn", "Kn", "Sn", "Rest"}

\* A number has its width, and is written and read as its bytes.
LEMMA NumberIs ==
  ASSUME NEW kind \in Numeric
  PROVE  /\ Width(kind) \in 1 .. 4
         /\ Values(kind) = [1 .. Width(kind) -> Byte]
         /\ \A value : Write(kind, value) = value /\ Fits(kind, value)
         /\ \A bytes : Read(kind, bytes) = Take(bytes, Width(kind))
<1>1. Width(kind) \in 1 .. 4
  BY DEF Numeric, Width
<1>2. kind \notin {"Cn", "Nn", "Kn", "Sn", "Rest"}
  BY DEF Numeric
<1>3. QED BY <1>1, <1>2 DEF Values, Write, Fits, Read

\* A number is read as it was written.
LEMMA ReadsNumber ==
  ASSUME NEW kind \in Numeric, NEW value \in Values(kind)
  PROVE  /\ value \in Seq(Byte) /\ Len(value) = Width(kind)
         /\ \A file \in Seq(Byte) : \A pos \in 0 .. Len(file) : Agrees(value, file, pos) =>
              Read(kind, Behind(file, pos)) =
                IF pos + Len(value) <= Len(file) THEN Got(value, file, pos + Len(value)) ELSE Eof
<1>1. value \in Seq(Byte) /\ Len(value) = Width(kind) /\ Width(kind) \in Nat
  <2>1. value \in [1 .. Width(kind) -> Byte] /\ Width(kind) \in Nat
    BY NumberIs
  <2>2. QED BY <2>1
<1>2. ASSUME NEW file \in Seq(Byte), NEW pos \in 0 .. Len(file), Agrees(value, file, pos)
      PROVE  Read(kind, Behind(file, pos)) =
               IF pos + Len(value) <= Len(file) THEN Got(value, file, pos + Len(value)) ELSE Eof
  <2>1. Read(kind, Behind(file, pos)) = Take(Behind(file, pos), Len(value))
    BY <1>1, NumberIs
  <2>2. Take(Behind(file, pos), Len(value)) =
          IF pos + Len(value) <= Len(file)
          THEN Got(Cut(file, pos, pos + Len(value)), file, pos + Len(value)) ELSE Eof
    BY <1>1, TakeIs
  <2>3. pos + Len(value) <= Len(file) => Cut(file, pos, pos + Len(value)) = value
    <3>1. pos \in Nat
      OBVIOUS
    <3>2. QED BY <1>1, <1>2, <3>1, CutIs
  <2>4. QED BY <2>1, <2>2, <2>3
<1>3. QED BY <1>1, <1>2

\* What a field is read from is what was written, or nothing is read.
LEMMA ReadsKind ==
  ASSUME NEW kind \in Kinds, kind # "Rest", NEW value \in Values(kind), Fits(kind, value),
         kind = "Nn" => Len(value) < LengthMod,
         NEW file \in Seq(Byte), NEW pos \in 0 .. Len(file), Agrees(Write(kind, value), file, pos)
  PROVE  Read(kind, Behind(file, pos)) =
           IF pos + Len(Write(kind, value)) <= Len(file)
           THEN Got(value, file, pos + Len(Write(kind, value))) ELSE Eof
<1> DEFINE W == Write(kind, value)
<1>1. CASE kind \in Numeric
  <2>1. W = value
    BY <1>1, NumberIs
  <2>2. QED BY <1>1, <2>1, ReadsNumber
<1>2. CASE kind = "Cn"
  <2>1. value \in Texts /\ Len(value) < ByteMod
    BY <1>2 DEF Values, Fits, Texts
  <2>2. W = Counted(value)
    BY <1>2 DEF Write, Counted
  <2>3. Read(kind, Behind(file, pos)) = TakeText(Behind(file, pos), 1)
    BY <1>2 DEF Read
  <2>4. QED BY <2>1, <2>2, <2>3, ReadsCn
<1>3. CASE kind \in {"Nn", "Kn"}
  <2>1. /\ value \in Seq(Byte) /\ Len(value) \in Nat /\ Len(value) < LengthMod
        /\ kind = "Nn" => value \in Texts
    <3>1. CASE kind = "Nn"
      <4>1. value \in Texts
        BY <3>1 DEF Values, Texts
      <4>2. QED BY <3>1, <4>1, TextIsBytes
    <3>2. CASE kind = "Kn"
      BY <3>2 DEF Values, Fits
    <3>3. QED BY <1>3, <3>1, <3>2
  <2> DEFINE head == Bytes2(Len(value))
  <2>2. head \in Seq(Byte) /\ Len(head) = 2 /\ CountOf(head, 2) = Len(value)
    BY <2>1, Bytes2Count
  <2>3. W = head \o value
    BY <1>3 DEF Write
  <2> HIDE DEF head
  <2>4. Len(W) = 2 + Len(value)
    BY <2>1, <2>2, <2>3, LiesInJoined
  <2>5. pos + 2 + Len(value) = pos + Len(W)
    BY <2>1, <2>4
  <2>6. CASE kind = "Nn"
    <3>1. Read(kind, Behind(file, pos)) = TakeText(Behind(file, pos), 2)
      BY <2>6 DEF Read
    <3>2. TakeText(Behind(file, pos), 2) =
            IF pos + 2 + Len(value) <= Len(file) THEN Got(value, file, pos + 2 + Len(value)) ELSE Eof
      BY <2>1, <2>2, <2>3, <2>6, ReadsText
    <3>3. QED BY <2>5, <3>1, <3>2
  <2>7. CASE kind = "Kn"
    <3>1. Read(kind, Behind(file, pos)) = TakeCounted(Behind(file, pos), 2)
      BY <2>7 DEF Read
    <3>2. TakeCounted(Behind(file, pos), 2) =
            IF pos + 2 + Len(value) <= Len(file) THEN Got(value, file, pos + 2 + Len(value)) ELSE Eof
      BY <2>1, <2>2, <2>3, ReadsCounted
    <3>3. QED BY <2>5, <3>1, <3>2
  <2>8. QED BY <1>3, <2>6, <2>7
<1>4. CASE kind = "Sn"
  <2>1. value \in Seq(Texts) /\ Len(value) < LengthMod /\ \A i \in 1 .. Len(value) : Len(value[i]) < ByteMod
    BY <1>4 DEF Values, Fits, Texts
  <2>2. W = WriteStrings(value) /\ Read(kind, Behind(file, pos)) = TakeStrings(Behind(file, pos))
    BY <1>4 DEF Write, Read
  <2>3. QED BY <2>1, <2>2, ReadsStrings
<1>5. QED BY <1>1, <1>2, <1>3, <1>4 DEF Kinds

\* What is written of a kind is bytes, and seldom none.
LEMMA WriteTyped ==
  ASSUME NEW kind \in Kinds, NEW value \in Values(kind), Fits(kind, value)
  PROVE  /\ Write(kind, value) \in Seq(Byte)
         /\ kind # "Rest" => Len(Write(kind, value)) > 0
         /\ kind = "Nn" => Len(value) \in Nat /\ Len(Write(kind, value)) > Len(value)
         /\ kind = "Rest" => Write(kind, value) = value
<1>1. CASE kind \in Numeric
  BY <1>1, NumberIs, ReadsNumber DEF Numeric
<1>2. CASE kind = "Cn"
  <2>1. value \in Texts /\ Len(value) < ByteMod /\ Write(kind, value) = Counted(value)
    BY <1>2 DEF Values, Fits, Texts, Write, Counted
  <2>2. Len(value) \in Nat
    BY <2>1, TextIsBytes
  <2>3. QED BY <1>2, <2>1, <2>2, CountedIs
<1>3. CASE kind \in {"Nn", "Kn"}
  <2>1. value \in Seq(Byte)
    BY <1>3, TextIsBytes DEF Values, Texts
  <2>2. Len(value) \in Nat
    BY <2>1
  <2>3. Bytes2(Len(value)) \in Seq(Byte) /\ Len(Bytes2(Len(value))) = 2
    BY <2>2, Bytes2Count
  <2>4. Write(kind, value) = Bytes2(Len(value)) \o value
    BY <1>3 DEF Write
  <2>5. Write(kind, value) \in Seq(Byte) /\ Len(Write(kind, value)) = 2 + Len(value)
    BY <2>1, <2>3, <2>4, LiesInJoined
  <2>6. QED BY <1>3, <2>2, <2>5
<1>4. CASE kind = "Sn"
  <2>1. value \in Seq(Texts) /\ Len(value) < LengthMod /\ \A i \in 1 .. Len(value) : Len(value[i]) < ByteMod
    BY <1>4 DEF Values, Fits, Texts
  <2>2. Write(kind, value) = WriteStrings(value)
    BY <1>4 DEF Write
  <2> DEFINE n == Len(value)
  <2>3. PICK g : StringsStand(value, g)
    BY <2>1, StringsDoStand
  <2>4. Len(Bytes2(n)) = 2
    BY <2>1, StringsDoStand
  <2>5. n \in Nat
    BY <2>1
  <2>6. WriteStrings(value) = g[n] /\ g[0] = Bytes2(n) /\ g[n] \in Seq(Byte) /\ Lies(g[0], g[n], 0)
    BY <2>3, <2>5 DEF StringsStand
  <2>7. Len(g[0]) = 2 /\ Len(g[n]) \in Nat
    BY <2>4, <2>6
  <2>8. 0 + Len(g[0]) <= Len(g[n])
    BY <2>6 DEF Lies
  <2>9. QED BY <1>4, <2>2, <2>6, <2>7, <2>8
<1>5. CASE kind = "Rest"
  BY <1>5 DEF Values, Write
<1>6. QED BY <1>1, <1>2, <1>3, <1>4, <1>5 DEF Kinds

\* A value that has been read where it was written has been read up to its end,
\* even if its length was cast.
LEMMA ReadsBack ==
  ASSUME NEW kind \in Kinds, NEW value \in Values(kind), Fits(kind, value),
         NEW file \in Seq(Byte), NEW pos \in 0 .. Len(file), Agrees(Write(kind, value), file, pos),
         Read(kind, Behind(file, pos)).ok, Read(kind, Behind(file, pos)).value = value
  PROVE  /\ pos + Len(Write(kind, value)) <= Len(file)
         /\ Read(kind, Behind(file, pos)) = Got(value, file, pos + Len(Write(kind, value)))
<1> DEFINE W == Write(kind, value)
           read == Read(kind, Behind(file, pos))
<1>1. CASE kind # "Rest" /\ (kind = "Nn" => Len(value) < LengthMod)
  <2>1. read = IF pos + Len(W) <= Len(file) THEN Got(value, file, pos + Len(W)) ELSE Eof
    BY <1>1, ReadsKind
  <2>2. read # Eof
    BY DEF Eof
  <2>3. QED BY <2>1, <2>2
<1>2. CASE kind = "Rest"
  <2>1. W = value
    BY <1>2, WriteTyped
  <2>2. read = Take(Behind(file, pos), Len(Behind(file, pos)))
    BY <1>2 DEF Read
  <2>3. Len(Behind(file, pos)) = Len(file) - pos
    BY Slice DEF Behind
  <2>4. Len(file) - pos \in Nat /\ pos + (Len(file) - pos) = Len(file)
    OBVIOUS
  <2>5. read = Got(Cut(file, pos, Len(file)), file, Len(file))
    BY <2>2, <2>3, <2>4, TakeIs
  <2>6. Cut(file, pos, Len(file)) = value
    BY <2>5 DEF Got
  <2>7. Len(value) = Len(file) - pos
    BY <2>3, <2>6 DEF Cut, Behind
  <2>8. pos + Len(W) = Len(file)
    BY <2>1, <2>4, <2>7
  <2>9. QED BY <2>5, <2>6, <2>8
<1>3. CASE kind = "Nn" /\ ~ (Len(value) < LengthMod)
  <2> DEFINE n == Len(value)
             c == n % LengthMod
             head == Bytes2(n)
             begin == pos + 2
             counted == TakeCounted(Behind(file, pos), 2)
  <2>1. value \in Texts /\ value \in Seq(Byte) /\ IsUtf8(value) /\ n \in Nat
    BY <1>3, TextIsBytes DEF Values, Texts
  <2>2. W = head \o value
    BY <1>3 DEF Write
  <2>3. head \in Seq(Byte) /\ Len(head) = 2 /\ CountOf(head, 2) = c /\ c \in Nat /\ c < LengthMod
    BY <2>1, Bytes2Count
  <2>4. c < n
    BY <1>3, <2>1, <2>3, LengthAssumption
  <2> HIDE DEF head, c
  <2>5. Agrees(head, file, pos) /\ Agrees(value, file, begin)
    <3>1. Agrees(head \o value, file, pos) /\ pos \in Nat
      BY <2>2
    <3>2. Agrees(head, file, pos) /\ Agrees(value, file, pos + Len(head))
      BY <2>1, <2>3, <3>1, AgreesParts
    <3>3. QED BY <2>3, <3>2
  <2>6. read = TakeText(Behind(file, pos), 2)
    BY <1>3 DEF Read
  <2>7. counted.ok /\ read.value = Lossy(counted.value)
    <3> HIDE DEF counted
    <3>1. read = IF counted.ok THEN [ok |-> TRUE, value |-> Lossy(counted.value), rest |-> counted.rest] ELSE Eof
      BY <2>6, Zenon DEF TakeText, counted
    <3>2. read # Eof
      BY DEF Eof
    <3> HIDE DEF read
    <3>3. QED BY <3>1, <3>2
  <2>8. counted = IF begin <= Len(file) /\ begin + CountAt(file, pos, 2) <= Len(file)
                  THEN Got(Cut(file, begin, begin + CountAt(file, pos, 2)), file,
                           begin + CountAt(file, pos, 2)) ELSE Eof
    BY TakeCountedIs
  <2>9. begin <= Len(file) /\ begin + CountAt(file, pos, 2) <= Len(file)
    <3>1. counted # Eof
      BY <2>7 DEF Eof
    <3> HIDE DEF counted
    <3>2. QED BY <2>8, <3>1
  <2>10. CountAt(file, pos, 2) = c
    <3>1. file[pos + 1] = head[1] /\ file[pos + 2] = head[2]
      BY <2>3, <2>5, <2>9 DEF Agrees
    <3>2. QED BY <2>3, <3>1 DEF CountAt, CountOf
  <2> DEFINE cut == Cut(file, begin, begin + c)
  <2>11. begin + c <= Len(file) /\ counted.value = cut
    <3> HIDE DEF counted, cut
    <3>1. begin + c <= Len(file)
      BY <2>9, <2>10
    <3>2. counted = Got(cut, file, begin + c)
      BY <2>8, <2>9, <2>10 DEF cut
    <3>3. QED BY <3>1, <3>2 DEF Got
  <2>12. cut \in Seq(Byte) /\ Len(cut) = c /\ \A x \in 1 .. c : cut[x] = file[begin + x]
    <3>1. begin \in Nat /\ begin + c \in begin .. Len(file) /\ (begin + c) - begin = c
      BY <2>3, <2>11
    <3> HIDE DEF begin
    <3>2. QED BY <3>1, Slice DEF Cut
  <2>13. IsUtf8(cut)
    <3>1. ASSUME NEW x \in 1 .. c PROVE cut[x] # NotUtf8
      <4>1. x \in 1 .. Len(value) /\ begin + x <= Len(file)
        BY <2>1, <2>3, <2>4, <2>11
      <4>2. cut[x] = value[x]
        BY <2>5, <2>12, <4>1 DEF Agrees
      <4>3. value[x] # NotUtf8
        BY <2>1, <4>1 DEF IsUtf8
      <4>4. QED BY <4>2, <4>3
    <3> HIDE DEF cut
    <3>2. QED BY <2>12, <3>1 DEF IsUtf8
  <2>14. value = cut
    <3> HIDE DEF counted, cut
    <3>1. QED BY <2>7, <2>11, <2>13 DEF Lossy
  <2>15. QED BY <2>3, <2>4, <2>12, <2>14
<1>4. QED BY <1>1, <1>2, <1>3

----------------------------------------------------------------------------
(* What is read has its type                                               *)

\* Sequences put together are a sequence of the same elements.
LEMMA FlattenTyped ==
  ASSUME NEW S, NEW seqs \in Seq(Seq(S)), Len(seqs) # 0
  PROVE  FlattenSeq(seqs) \in Seq(S)
<1> DEFINE n == Len(seqs)
           Is(f) == f = [i \in 1 .. n |-> IF i = 1 THEN seqs[i] ELSE f[i - 1] \o seqs[i]]
           flatten == CHOOSE f : Is(f)
           parts == [i \in 1 .. n - 1 |-> seqs[i + 1]]
<1>1. n \in Nat /\ n # 0 /\ n - 1 \in Nat /\ \A i \in 1 .. n : seqs[i] \in Seq(S)
  OBVIOUS
<1>2. FlattenSeq(seqs) = flatten[n]
  BY Zenon DEF FlattenSeq
<1>3. PICK g : Growth(seqs[1], parts, n - 1, g)
  BY <1>1, GrowthExists, Zenon
<1>4. \A i \in 1 .. n - 1 : parts[i] \in Seq(S) /\ parts[i] = seqs[i + 1]
  BY <1>1
<1> HIDE DEF parts
<1>5. \A i \in 0 .. n - 1 : g[i] \in Seq(S) /\ g[i] = IF i = 0 THEN seqs[1] ELSE g[i - 1] \o parts[i]
  <2>1. \A i \in 0 .. n - 1 : g[i] \in Seq(S)
    <3> DEFINE m == n - 1
               base == seqs[1]
    <3>1. m \in Nat /\ base \in Seq(S)
      BY <1>1
    <3>2. Growth(base, parts, m, g)
      BY <1>3
    <3>3. \A i \in 1 .. m : parts[i] \in Seq(S)
      BY <1>4
    <3> HIDE DEF m, base
    <3>4. \A i \in 0 .. m : g[i] \in Seq(S)
      BY <3>1, <3>2, <3>3, PartsLie
    <3>5. QED BY <3>4 DEF m
  <2>2. QED BY <1>3, <2>1 DEF Growth
<1> DEFINE shifted == [i \in 1 .. n |-> g[i - 1]]
<1>6. ASSUME NEW i \in 1 .. n
      PROVE  shifted[i] = IF i = 1 THEN seqs[i] ELSE shifted[i - 1] \o seqs[i]
  <2>1. CASE i = 1
    BY <1>1, <1>5, <2>1
  <2>2. CASE i # 1
    <3>1. i - 1 \in 1 .. n - 1 /\ i - 1 \in 0 .. n - 1 /\ i - 1 # 0 /\ (i - 1) + 1 = i /\ i - 1 \in 1 .. n
      BY <1>1, <2>2
    <3>2. g[i - 1] = g[(i - 1) - 1] \o parts[i - 1] /\ parts[i - 1] = seqs[(i - 1) + 1]
      BY <1>4, <1>5, <3>1
    <3>3. shifted[i] = g[i - 1] /\ shifted[i - 1] = g[(i - 1) - 1]
      BY <3>1
    <3> HIDE DEF shifted
    <3>4. QED BY <2>2, <3>1, <3>2, <3>3
  <2>3. QED BY <2>1, <2>2
<1>7. Is(shifted)
  BY <1>6
<1>8. Is(flatten)
  <2> HIDE DEF Is, shifted
  <2>1. QED BY <1>7, Zenon
<1> DEFINE Typed == {i \in Nat : i + 1 <= n => flatten[i + 1] \in Seq(S)}
<1>9. \A i \in 1 .. n : flatten[i] = IF i = 1 THEN seqs[i] ELSE flatten[i - 1] \o seqs[i]
  <2> HIDE DEF flatten
  <2>1. QED BY <1>8, Zenon
<1> HIDE DEF flatten, Is
<1>10. 0 \in Typed
  BY <1>1, <1>9
<1>11. ASSUME NEW i \in Nat, i \in Typed, i + 2 <= n
       PROVE  flatten[i + 2] \in Seq(S)
  <2>1. i + 2 \in 1 .. n /\ (i + 2) - 1 = i + 1 /\ i + 2 # 1 /\ i + 1 <= n
    BY <1>11
  <2>2. flatten[i + 2] = flatten[(i + 2) - 1] \o seqs[i + 2]
    BY <1>9, <2>1
  <2>3. flatten[i + 1] \in Seq(S) /\ seqs[i + 2] \in Seq(S)
    BY <1>1, <1>11, <2>1
  <2>4. flatten[i + 2] = flatten[i + 1] \o seqs[i + 2]
    BY <2>1, <2>2
  <2>5. QED BY <2>3, <2>4, LiesInJoined
<1>12. \A i \in Nat : i \in Typed => i + 1 \in Typed
  <2>1. ASSUME NEW i \in Nat, i \in Typed PROVE i + 1 \in Typed
    <3>1. (i + 1) + 1 = i + 2
      OBVIOUS
    <3>2. QED BY <1>11, <2>1, <3>1
  <2>2. QED BY <2>1
<1> HIDE DEF Typed
<1>13. n - 1 \in Typed /\ (n - 1) + 1 = n
  <2>1. Nat \subseteq Typed
    BY <1>10, <1>12, Induction
  <2>2. QED BY <1>1, <2>1
<1>14. flatten[n] \in Seq(S)
  BY <1>1, <1>13 DEF Typed
<1>15. QED BY <1>2, <1>14

\* Whatever the bytes, what is read of them as a text is one.
LEMMA LossyTyped ==
  ASSUME NEW bytes \in Seq(Byte)
  PROVE  Lossy(bytes) \in Texts
<1> DEFINE shown == [i \in DOMAIN bytes |->
                       IF bytes[i] = NotUtf8 THEN <<239, 191, 189>> ELSE <<bytes[i]>>]
<1>1. CASE IsUtf8(bytes)
  <2>1. \A i \in 1 .. Len(bytes) : bytes[i] \in Byte \ {NotUtf8}
    BY <1>1, ElementOfSeq DEF IsUtf8
  <2>2. bytes \in [1 .. Len(bytes) -> Byte \ {NotUtf8}]
    BY <2>1
  <2>3. QED BY <1>1, <2>2, SeqDef DEF Lossy, Texts
<1>2. CASE ~IsUtf8(bytes)
  <2>1. 239 \in Byte \ {NotUtf8} /\ 191 \in Byte \ {NotUtf8} /\ 189 \in Byte \ {NotUtf8}
    BY ByteIs DEF NotUtf8
  <2>2. \A i \in 1 .. Len(bytes) : bytes[i] \in Byte
    BY ElementOfSeq
  <2>3. DOMAIN bytes = 1 .. Len(bytes) /\ Len(bytes) \in Nat /\ Len(bytes) # 0
    BY <1>2 DEF IsUtf8
  <2>4. \A i \in 1 .. Len(bytes) :
          (IF bytes[i] = NotUtf8 THEN <<239, 191, 189>> ELSE <<bytes[i]>>) \in Texts
    <3> DEFINE T == Byte \ {NotUtf8}
    <3>1. 239 \in T /\ 191 \in T /\ 189 \in T
      BY <2>1
    <3>2. \A i \in 1 .. Len(bytes) : bytes[i] = NotUtf8 \/ bytes[i] \in T
      BY <2>2
    <3> HIDE DEF T
    <3>3. <<239, 191, 189>> \in Seq(T) /\ \A b \in T : <<b>> \in Seq(T)
      BY <3>1
    <3>4. \A i \in 1 .. Len(bytes) :
            (IF bytes[i] = NotUtf8 THEN <<239, 191, 189>> ELSE <<bytes[i]>>) \in Seq(T)
      BY <3>2, <3>3
    <3>5. QED BY <3>4 DEF T, Texts
  <2>5. shown \in Seq(Texts) /\ Len(shown) = Len(bytes)
    <3>1. shown \in [1 .. Len(bytes) -> Texts]
      BY <2>3, <2>4
    <3> HIDE DEF shown
    <3>2. QED BY <2>3, <3>1, SeqDef
  <2>6. Lossy(bytes) = FlattenSeq(shown)
    BY <1>2 DEF Lossy
  <2> HIDE DEF shown
  <2>7. QED BY <2>3, <2>5, <2>6, FlattenTyped DEF Texts
<1>3. QED BY <1>1, <1>2

----------------------------------------------------------------------------
(* Fields are written as they were read                                    *)

\* Two parts of which one lies behind the other lie there as one.
LEMMA JoinLies ==
  ASSUME NEW S, NEW head \in Seq(S), NEW tail \in Seq(S), NEW file \in Seq(S), NEW pos \in Nat,
         Lies(head, file, pos), Lies(tail, file, pos + Len(head))
  PROVE  Lies(head \o tail, file, pos)
<1> DEFINE part == head \o tail
<1>1. part \in Seq(S) /\ Len(part) = Len(head) + Len(tail)
      /\ (\A x \in 1 .. Len(head) : part[x] = head[x])
      /\ (\A x \in 1 .. Len(tail) : part[Len(head) + x] = tail[x])
      /\ Len(head) \in Nat /\ Len(tail) \in Nat
  OBVIOUS
<1> HIDE DEF part
<1>2. pos + Len(part) <= Len(file)
  BY <1>1 DEF Lies
<1>3. ASSUME NEW x \in 1 .. Len(part)
      PROVE  file[pos + x] = part[x]
  <2>1. CASE x <= Len(head)
    <3>1. x \in 1 .. Len(head)
      BY <1>1, <2>1
    <3>2. QED BY <1>1, <3>1 DEF Lies
  <2>2. CASE x > Len(head)
    <3> DEFINE y == x - Len(head)
    <3>1. y \in 1 .. Len(tail) /\ Len(head) + y = x /\ pos + Len(head) + y = pos + x
      BY <1>1, <2>2
    <3> HIDE DEF y
    <3>2. file[pos + Len(head) + y] = tail[y] /\ part[Len(head) + y] = tail[y]
      BY <1>1, <3>1 DEF Lies
    <3>3. QED BY <3>1, <3>2
  <2>3. QED BY <1>1, <2>1, <2>2
<1>4. Lies(part, file, pos)
  BY <1>2, <1>3 DEF Lies
<1>5. QED BY <1>4 DEF part

\* What is between two positions lies at the first.
LEMMA CutLies ==
  ASSUME NEW S, NEW file \in Seq(S), NEW a \in Nat, NEW b \in a .. Len(file)
  PROVE  /\ Cut(file, a, b) \in Seq(S) /\ Len(Cut(file, a, b)) = b - a
         /\ Lies(Cut(file, a, b), file, a)
<1> DEFINE cut == Cut(file, a, b)
<1>1. cut \in Seq(S) /\ Len(cut) = b - a /\ \A x \in 1 .. b - a : cut[x] = file[a + x]
  BY Slice DEF Cut
<1> HIDE DEF cut
<1>2. a + Len(cut) <= Len(file)
  BY <1>1
<1>3. QED BY <1>1, <1>2 DEF Lies, cut

\* A part of something without foreign bytes has none.
LEMMA Utf8Part ==
  ASSUME NEW S, NEW file \in Seq(S), NEW part \in Seq(S), NEW pos \in Nat,
         Lies(part, file, pos), IsUtf8(file)
  PROVE  IsUtf8(part)
<1>1. ASSUME NEW x \in 1 .. Len(part)
      PROVE  part[x] # NotUtf8
  <2>1. pos + x \in 1 .. Len(file)
    BY DEF Lies
  <2>2. QED BY <2>1 DEF Lies, IsUtf8
<1>2. QED BY <1>1 DEF IsUtf8

\* A count is one that would be written, if a file can be that long.
LEMMA CountLies ==
  ASSUME NEW file \in Seq(Byte), NEW pos \in 0 .. Len(file), pos + 2 <= Len(file),
         CountAt(file, pos, 2) < LengthMod
  PROVE  Lies(Bytes2(CountAt(file, pos, 2)), file, pos)
<1> DEFINE n == CountAt(file, pos, 2)
           low == file[pos + 1]
           high == file[pos + 2]
<1>1. n = low + ByteMod * high
  BY DEF CountAt
<1>2. low \in Nat /\ low <= 255 /\ high \in Nat /\ high <= 255
  <2>1. \A x \in 1 .. Len(file) : file[x] \in Nat /\ file[x] <= 255
    BY ElementOfSeq, ByteIs
  <2>2. pos + 1 \in 1 .. Len(file) /\ pos + 2 \in 1 .. Len(file)
    OBVIOUS
  <2>3. QED BY <2>1, <2>2
<1>3. n \in Nat
  <2> HIDE DEF low, high, n
  <2>1. QED BY <1>1, <1>2 DEF ByteMod
<1>4. n % LengthMod = n
  BY <1>3, Bytes2Count
<1>5. (low + 256 * high) % 256 = low /\ (low + 256 * high) \div 256 = high
  <2> HIDE DEF low, high
  <2>1. QED BY <1>2
<1>6. n % ByteMod = low /\ n \div ByteMod = high
  <2> HIDE DEF n, low, high
  <2>1. QED BY <1>1, <1>5 DEF ByteMod
<1> DEFINE head == Bytes2(n)
<1>7. head = <<low, high>>
  <2> HIDE DEF n, low, high
  <2>1. QED BY <1>4, <1>6 DEF Bytes2
<1>8. Len(head) = 2 /\ head[1] = file[pos + 1] /\ head[2] = file[pos + 2]
  BY <1>7
<1> HIDE DEF head
<1>9. Lies(head, file, pos)
  BY <1>8 DEF Lies
<1>10. QED BY <1>9 DEF head

\* What is read behind a count is what would be written.
LEMMA CountedExactly ==
  ASSUME NEW file \in Seq(Byte), NEW pos \in 0 .. Len(file), NEW width \in {1, 2},
         TakeCounted(Behind(file, pos), width).ok
  PROVE  \E end \in pos + width .. Len(file), value \in Seq(Byte) :
           /\ TakeCounted(Behind(file, pos), width) = Got(value, file, end)
           /\ IsUtf8(file) => IsUtf8(value)
           /\ end = pos + width + Len(value)
           /\ width = 1 => Len(value) < ByteMod /\ Lies(Counted(value), file, pos)
           /\ width = 2 /\ Len(file) < LengthMod =>
                Len(value) < LengthMod /\ Lies(Bytes2(Len(value)) \o value, file, pos)
<1> DEFINE n == CountAt(file, pos, width)
           begin == pos + width
           value == Cut(file, begin, begin + n)
           counted == TakeCounted(Behind(file, pos), width)
<1>1. counted = IF begin <= Len(file) /\ begin + n <= Len(file)
                THEN Got(value, file, begin + n) ELSE Eof
  BY TakeCountedIs
<1>2. counted # Eof
  BY DEF Eof
<1>3. begin <= Len(file) /\ begin + n <= Len(file) /\ counted = Got(value, file, begin + n)
  <2> HIDE DEF counted, n, value, begin
  <2>1. QED BY <1>1, <1>2
<1>4. n \in Nat /\ n <= 65535
  BY <1>3, CountTyped
<1>5. pos \in Nat /\ begin \in Nat /\ begin + n \in begin .. Len(file) /\ (begin + n) - begin = n
      /\ Len(file) \in Nat
  <2> HIDE DEF n
  <2>1. QED BY <1>3, <1>4
<1>6. value \in Seq(Byte) /\ Len(value) = n /\ Lies(value, file, begin)
  <2> HIDE DEF n, begin
  <2>1. QED BY <1>5, CutLies
<1>7. \A x \in 1 .. Len(file) : file[x] \in Nat /\ file[x] <= 255
  BY ElementOfSeq, ByteIs
<1>8. pos + 1 \in 1 .. Len(file) /\ (width = 2 => pos + 2 \in 1 .. Len(file))
  BY <1>3, <1>5
<1> HIDE DEF value, counted
<1>9. IsUtf8(file) => IsUtf8(value)
  BY <1>5, <1>6, Utf8Part
<1>10. ASSUME width = 1
       PROVE  n < ByteMod /\ Lies(Counted(value), file, pos)
  <2>1. n = file[pos + 1]
    BY <1>10 DEF CountAt
  <2>2. n < ByteMod /\ n \in Byte
    BY <1>7, <1>8, <2>1, ByteIs DEF ByteMod
  <2> DEFINE head == <<n>>
  <2>3. head \in Seq(Byte) /\ Len(head) = 1 /\ head[1] = n
    BY <2>2
  <2> HIDE DEF head, n
  <2>4. Lies(head, file, pos)
    BY <1>8, <2>1, <2>3 DEF Lies
  <2>5. Lies(head \o value, file, pos)
    BY <1>5, <1>6, <1>10, <2>3, <2>4, JoinLies
  <2>6. Counted(value) = head \o value
    BY <1>6 DEF Counted, head
  <2>7. QED BY <2>2, <2>5, <2>6
<1>11. ASSUME width = 2, Len(file) < LengthMod
       PROVE  n < LengthMod /\ Lies(Bytes2(n) \o value, file, pos)
  <2>1. n < LengthMod
    <3> HIDE DEF n
    <3>1. QED BY <1>3, <1>4, <1>5, <1>11, LengthAssumption
  <2> DEFINE head == Bytes2(n)
  <2>2. head \in Seq(Byte) /\ Len(head) = 2 /\ Lies(head, file, pos)
    BY <1>3, <1>4, <1>11, <2>1, CountLies, Bytes2Count
  <2> HIDE DEF head, n
  <2>3. Lies(head \o value, file, pos)
    BY <1>5, <1>6, <1>11, <2>2, JoinLies
  <2>4. QED BY <2>1, <2>3 DEF head
<1> HIDE DEF n
<1>12. begin + n = pos + width + Len(value) /\ begin + n \in pos + width .. Len(file)
  BY <1>5, <1>6
<1>13. QED BY <1>3, <1>6, <1>9, <1>10, <1>11, <1>12 DEF counted

\* What is read as a text is what would be written, but for foreign bytes.
LEMMA TextExactly ==
  ASSUME NEW file \in Seq(Byte), NEW pos \in 0 .. Len(file), NEW width \in {1, 2},
         TakeText(Behind(file, pos), width).ok
  PROVE  \E end \in pos + width .. Len(file), text \in Texts :
           /\ TakeText(Behind(file, pos), width) = Got(text, file, end)
           /\ IsUtf8(file) =>
                /\ end = pos + width + Len(text)
                /\ width = 1 => Len(text) < ByteMod /\ Lies(Counted(text), file, pos)
                /\ width = 2 /\ Len(file) < LengthMod =>
                     Len(text) < LengthMod /\ Lies(Bytes2(Len(text)) \o text, file, pos)
<1> DEFINE counted == TakeCounted(Behind(file, pos), width)
           read == TakeText(Behind(file, pos), width)
<1>1. read = IF counted.ok THEN [ok |-> TRUE, value |-> Lossy(counted.value), rest |-> counted.rest] ELSE Eof
  BY Zenon DEF TakeText
<1>2. counted.ok
  <2>1. read # Eof
    BY DEF Eof
  <2> HIDE DEF counted, read
  <2>2. QED BY <1>1, <2>1
<1>3. PICK end \in pos + width .. Len(file), value \in Seq(Byte) :
           /\ counted = Got(value, file, end)
           /\ IsUtf8(file) => IsUtf8(value)
           /\ end = pos + width + Len(value)
           /\ width = 1 => Len(value) < ByteMod /\ Lies(Counted(value), file, pos)
           /\ width = 2 /\ Len(file) < LengthMod =>
                Len(value) < LengthMod /\ Lies(Bytes2(Len(value)) \o value, file, pos)
  BY <1>2, CountedExactly
<1>4. read = Got(Lossy(value), file, end)
  <2>1. counted.ok /\ counted.value = value /\ counted.rest = Behind(file, end)
    BY <1>3 DEF Got
  <2> HIDE DEF counted, read
  <2>2. QED BY <1>1, <2>1 DEF Got
<1>5. Lossy(value) \in Texts /\ (IsUtf8(value) => Lossy(value) = value)
  BY LossyTyped DEF Lossy
<1> HIDE DEF read, counted
<1>6. QED BY <1>3, <1>4, <1>5 DEF read

\* What a list of texts is read from is what would be written.
LEMMA StringsExactly ==
  ASSUME NEW file \in Seq(Byte), NEW pos \in 0 .. Len(file), TakeStrings(Behind(file, pos)).ok
  PROVE  \E end \in pos .. Len(file), strings \in Seq(Texts) :
           /\ TakeStrings(Behind(file, pos)) = Got(strings, file, end)
           /\ IsUtf8(file) /\ Len(file) < LengthMod =>
                /\ Fits("Sn", strings)
                /\ Lies(WriteStrings(strings), file, pos)
                /\ end = pos + Len(WriteStrings(strings))
<1> DEFINE n == CountAt(file, pos, 2)
           taken == TakeStrings(Behind(file, pos))
<1>1. pos + 2 <= Len(file) /\ pos \in Nat /\ Len(file) \in Nat
  <2>1. taken # Eof
    BY DEF Eof
  <2> HIDE DEF taken
  <2>2. ~ (pos + 2 > Len(file))
    BY <2>1, StringsAre DEF taken
  <2>3. QED BY <2>2
<1>2. n \in Nat
  BY <1>1, CountTyped
<1>3. PICK got : StringStates(Behind(file, pos + 2), n, got) /\ taken = got[n]
  BY <1>1, StringsAre
<1> HIDE DEF n, taken
<1>4. \A i \in 0 .. n : got[i] = IF i = 0 THEN Got(<<>>, file, pos + 2) ELSE AfterString(got[i - 1])
  BY <1>3, Zenon DEF StringStates, Got
<1> DEFINE read == [i \in 1 .. n |-> TakeText(got[i - 1].rest, 1)]
           texts == [i \in 1 .. n |-> read[i].value]
           ends == [i \in 0 .. n |-> Len(file) - Len(got[i].rest)]
<1>5. \A i \in 1 .. n :
        got[i] = IF ~got[i - 1].ok \/ ~read[i].ok THEN Eof
                 ELSE [ok |-> TRUE, value |-> Append(got[i - 1].value, texts[i]), rest |-> read[i].rest]
  <2>1. ASSUME NEW i \in 1 .. n
        PROVE  got[i] = IF ~got[i - 1].ok \/ ~read[i].ok THEN Eof
                        ELSE [ok |-> TRUE, value |-> Append(got[i - 1].value, texts[i]), rest |-> read[i].rest]
    <3>1. i \in 0 .. n /\ i # 0
      OBVIOUS
    <3>2. got[i] = AfterString(got[i - 1])
      BY <1>4, <3>1
    <3>3. read[i] = TakeText(got[i - 1].rest, 1) /\ texts[i] = read[i].value
      OBVIOUS
    <3> HIDE DEF read, texts
    <3>4. QED BY <3>2, <3>3, Zenon DEF AfterString
  <2>2. QED BY <2>1
\* Each text has been read.
<1>6. \A i \in 0 .. n : got[i].ok
  <2> DEFINE Kept == {k \in Nat : k <= n => got[n - k].ok}
  <2>1. 0 \in Kept
    <3>1. got[n].ok
      BY <1>3 DEF taken
    <3>2. n - 0 = n
      BY <1>2
    <3>3. QED BY <3>1, <3>2
  <2>2. ASSUME NEW k \in Nat, k \in Kept, k + 1 <= n
        PROVE  got[n - (k + 1)].ok
    <3> DEFINE i == n - k
    <3>1. i \in 1 .. n /\ got[i].ok /\ i - 1 = n - (k + 1)
      BY <1>2, <2>2
    <3> HIDE DEF i, read, texts
    <3>2. got[i] # Eof
      BY <3>1 DEF Eof
    <3>3. got[i - 1].ok
      BY <1>5, <3>1, <3>2
    <3>4. QED BY <3>1, <3>3
  <2>3. \A k \in Nat : k \in Kept => k + 1 \in Kept
    BY <2>2
  <2> HIDE DEF Kept
  <2>4. Nat \subseteq Kept
    BY <2>1, <2>3, Induction
  <2>5. ASSUME NEW i \in 0 .. n PROVE got[i].ok
    <3>1. n - i \in Nat /\ n - i <= n /\ n - (n - i) = i
      BY <1>2
    <3>2. n - i \in Kept
      BY <2>4, <3>1
    <3>3. got[n - (n - i)].ok
      BY <3>1, <3>2 DEF Kept
    <3>4. QED BY <3>1, <3>3
  <2>6. QED BY <2>5
<1>7. \A i \in 1 .. n :
        /\ read[i].ok
        /\ got[i] = [ok |-> TRUE, value |-> Append(got[i - 1].value, texts[i]), rest |-> read[i].rest]
  <2>1. ASSUME NEW i \in 1 .. n
        PROVE  read[i].ok /\ got[i] # Eof
    <3>1. i \in 0 .. n
      OBVIOUS
    <3>2. got[i] # Eof
      BY <1>6, <3>1 DEF Eof
    <3> HIDE DEF read, texts
    <3>3. QED BY <1>5, <3>2
  <2> HIDE DEF read, texts
  <2>2. QED BY <1>5, <2>1
<1>20. \A i \in 1 .. n :
         /\ got[i].value = Append(got[i - 1].value, texts[i]) /\ got[i].rest = read[i].rest
         /\ got[i] = [ok |-> TRUE, value |-> got[i].value, rest |-> got[i].rest]
  <2> HIDE DEF read, texts
  <2>1. ASSUME NEW i \in 1 .. n
        PROVE  /\ got[i].value = Append(got[i - 1].value, texts[i]) /\ got[i].rest = read[i].rest
               /\ got[i] = [ok |-> TRUE, value |-> got[i].value, rest |-> got[i].rest]
    <3>1. got[i] = [ok |-> TRUE, value |-> Append(got[i - 1].value, texts[i]), rest |-> read[i].rest]
      BY <1>7
    <3>2. QED BY <3>1
  <2>2. QED BY <2>1
\* Where it stands, and what it is.
<1> DEFINE Stands(i) == ends[i] \in pos + 2 + i .. Len(file) /\ got[i].rest = Behind(file, ends[i])
           Step(i) == /\ texts[i] \in Texts
                      /\ ends[i] \in Nat /\ Stands(i)
                      /\ IsUtf8(file) =>
                           /\ ends[i] = ends[i - 1] + 1 + Len(texts[i])
                           /\ Len(texts[i]) < ByteMod
                           /\ Lies(Counted(texts[i]), file, ends[i - 1])
<1>8. ASSUME NEW end \in 0 .. Len(file)
      PROVE  Len(file) - Len(Behind(file, end)) = end
  <2>1. Len(Behind(file, end)) = Len(file) - end
    BY Slice DEF Behind
  <2>2. QED BY <2>1
<1>9. ASSUME NEW i \in 1 .. n, Stands(i - 1)
      PROVE  Step(i)
  <2>1. i - 1 \in 0 .. n /\ i \in 0 .. n
    BY <1>2
  <2> DEFINE at == ends[i - 1]
  <2>2. at \in 0 .. Len(file) /\ at \in pos + 2 + (i - 1) .. Len(file) /\ got[i - 1].rest = Behind(file, at)
    BY <1>1, <1>9
  <2> HIDE DEF at
  <2>3. read[i] = TakeText(Behind(file, at), 1) /\ read[i].ok
    BY <1>7, <2>2
  <2>4. PICK end \in at + 1 .. Len(file), text \in Texts :
           /\ read[i] = Got(text, file, end)
           /\ IsUtf8(file) =>
                end = at + 1 + Len(text) /\ Len(text) < ByteMod /\ Lies(Counted(text), file, at)
    BY <2>2, <2>3, TextExactly
  <2>5. texts[i] = text /\ read[i].rest = Behind(file, end)
    BY <2>4 DEF Got
  <2>6. got[i].rest = Behind(file, end)
    <3> HIDE DEF texts, read
    <3>1. got[i].rest = read[i].rest
      BY <1>20
    <3>2. QED BY <2>5, <3>1
  <2>7. end \in 0 .. Len(file) /\ end \in pos + 2 + i .. Len(file)
    BY <1>1, <2>1, <2>2, <2>4
  <2>8. ends[i] = end
    BY <1>8, <2>1, <2>6, <2>7
  <2> HIDE DEF ends, texts, read
  <2>9. QED BY <2>4, <2>5, <2>6, <2>7, <2>8 DEF at
<1>10. Stands(0)
  <2>1. got[0].rest = Behind(file, pos + 2) /\ 0 \in 0 .. n
    BY <1>2, <1>4 DEF Got
  <2>2. pos + 2 \in 0 .. Len(file)
    BY <1>1
  <2>3. ends[0] = pos + 2
    BY <1>8, <2>1, <2>2
  <2> HIDE DEF ends
  <2>4. QED BY <1>1, <2>1, <2>3
<1> HIDE DEF Stands, Step
<1>12. \A i \in 0 .. n : Stands(i)
  <2> DEFINE Standing == {i \in Nat : i <= n => Stands(i)}
  <2>1. 0 \in Standing
    BY <1>10
  <2>2. ASSUME NEW i \in Nat, i \in Standing, i + 1 <= n
        PROVE  Stands(i + 1)
    <3>1. i + 1 \in 1 .. n /\ (i + 1) - 1 = i /\ Stands(i)
      BY <1>2, <2>2
    <3>2. Step(i + 1)
      BY <1>9, <3>1
    <3>3. QED BY <3>2 DEF Step
  <2>3. \A i \in Nat : i \in Standing => i + 1 \in Standing
    BY <2>2
  <2> HIDE DEF Standing
  <2>4. Nat \subseteq Standing
    BY <2>1, <2>3, Induction
  <2>5. QED BY <1>2, <2>4 DEF Standing
<1>13. \A i \in 1 .. n : Step(i)
  <2>1. \A i \in 1 .. n : i - 1 \in 0 .. n
    BY <1>2
  <2>2. QED BY <1>9, <1>12, <2>1
<1>14. texts \in Seq(Texts) /\ Len(texts) = n
  <2>1. \A i \in 1 .. n : texts[i] \in Texts
    BY <1>13 DEF Step
  <2>2. texts = [i \in 1 .. n |-> texts[i]]
    OBVIOUS
  <2> HIDE DEF texts
  <2>3. texts \in [1 .. n -> Texts]
    BY <2>1, <2>2
  <2>4. QED BY <1>2, <2>3, SeqDef
<1>15. ends[n] \in pos .. Len(file) /\ got[n].rest = Behind(file, ends[n])
  <2>1. Stands(n)
    BY <1>2, <1>12
  <2> HIDE DEF ends
  <2>2. QED BY <1>1, <1>2, <2>1 DEF Stands
<1> HIDE DEF texts, ends, read
<1>16. \A i \in 0 .. n : got[i].value = SubSeq(texts, 1, i)
  <2> DEFINE Right == {i \in Nat : i <= n => got[i].value = SubSeq(texts, 1, i)}
  <2>1. 0 \in Right
    <3>1. got[0].value = <<>> /\ SubSeq(texts, 1, 0) = <<>>
      BY <1>2, <1>4, SubSeqEmpty DEF Got
    <3>2. QED BY <3>1
  <2>2. ASSUME NEW i \in Nat, i \in Right, i + 1 <= n
        PROVE  got[i + 1].value = SubSeq(texts, 1, i + 1)
    <3>1. i + 1 \in 1 .. n /\ (i + 1) - 1 = i /\ got[i].value = SubSeq(texts, 1, i)
      BY <1>2, <2>2
    <3>2. got[i + 1].value = Append(got[(i + 1) - 1].value, texts[i + 1])
      BY <1>20, <3>1
    <3>3. Append(SubSeq(texts, 1, i), texts[i + 1]) = SubSeq(texts, 1, i + 1)
      <4>1. 1 \in 1 .. Len(texts) /\ i + 1 \in 1 .. Len(texts)
        BY <1>14, <3>1
      <4>2. SubSeq(texts, 1, i + 1) = Append(SubSeq(texts, 1, (i + 1) - 1), texts[i + 1])
        BY <1>14, <4>1, SubSeqRecursiveSecond
      <4>3. QED BY <3>1, <4>2
    <3>4. QED BY <3>1, <3>2, <3>3
  <2>3. \A i \in Nat : i \in Right => i + 1 \in Right
    BY <2>2
  <2> HIDE DEF Right
  <2>4. Nat \subseteq Right
    BY <2>1, <2>3, Induction
  <2>5. QED BY <1>2, <2>4 DEF Right
<1>17. taken = Got(texts, file, ends[n])
  <2>1. got[n].value = texts
    BY <1>2, <1>14, <1>16, SubSeqFull
  <2>2. got[n] = [ok |-> TRUE, value |-> got[n].value, rest |-> got[n].rest]
    <3>1. CASE n = 0
      <4>1. 0 \in 0 .. n
        BY <1>2
      <4>2. got[0] = Got(<<>>, file, pos + 2)
        BY <1>4, <4>1
      <4>3. got[0] = [ok |-> TRUE, value |-> got[0].value, rest |-> got[0].rest]
        BY <4>2 DEF Got
      <4>4. QED BY <3>1, <4>3
    <3>2. CASE n # 0
      BY <1>2, <1>20, <3>2
    <3>3. QED BY <3>1, <3>2
  <2>3. QED BY <1>3, <1>15, <2>1, <2>2 DEF Got
<1>18. ASSUME IsUtf8(file), Len(file) < LengthMod
       PROVE  /\ Fits("Sn", texts)
              /\ Lies(WriteStrings(texts), file, pos)
              /\ ends[n] = pos + Len(WriteStrings(texts))
  <2>1. n < LengthMod
    <3>1. ends[n] \in pos + 2 + n .. Len(file)
      BY <1>2, <1>12 DEF Stands
    <3>2. n <= Len(file)
      BY <1>1, <1>2, <3>1
    <3>3. QED BY <1>1, <1>2, <1>18, <3>2, LengthAssumption
  <2>2. \A i \in 1 .. n : Len(texts[i]) < ByteMod
    BY <1>13, <1>18 DEF Step
  <2>3. Fits("Sn", texts)
    BY <1>14, <2>1, <2>2 DEF Fits
  <2>4. /\ Bytes2(n) \in Seq(Byte) /\ Len(Bytes2(n)) = 2
        /\ \E g : StringsStand(texts, g)
    BY <1>14, <2>1, <2>2, StringsDoStand
  <2>5. PICK g : StringsStand(texts, g)
    BY <2>4
  <2>6. /\ WriteStrings(texts) = g[n] /\ g[0] = Bytes2(n)
        /\ \A i \in 0 .. n : g[i] \in Seq(Byte)
        /\ \A i \in 1 .. n :
             /\ g[i] = g[i - 1] \o Counted(texts[i]) /\ Counted(texts[i]) \in Seq(Byte)
             /\ Len(g[i]) = Len(g[i - 1]) + Len(Counted(texts[i]))
    BY <1>14, <2>5 DEF StringsStand
  <2> DEFINE Lie == {i \in Nat : i <= n => Lies(g[i], file, pos) /\ ends[i] = pos + Len(g[i])}
  <2>7. 0 \in Lie
    <3>1. ends[0] = pos + 2
      <4>1. got[0].rest = Behind(file, pos + 2) /\ 0 \in 0 .. n /\ pos + 2 \in 0 .. Len(file)
        BY <1>1, <1>2, <1>4 DEF Got
      <4>2. QED BY <1>8, <4>1 DEF ends
    <3>2. Lies(Bytes2(n), file, pos)
      BY <1>1, <2>1, CountLies DEF n
    <3>3. QED BY <2>4, <2>6, <3>1, <3>2
  <2>8. ASSUME NEW i \in Nat, i \in Lie, i + 1 <= n
        PROVE  Lies(g[i + 1], file, pos) /\ ends[i + 1] = pos + Len(g[i + 1])
    <3> DEFINE j == i + 1
               part == Counted(texts[j])
    <3>1. j \in 1 .. n /\ j - 1 = i /\ i \in 0 .. n /\ j \in 0 .. n
      BY <1>2, <2>8
    <3>2. Lies(g[i], file, pos) /\ ends[i] = pos + Len(g[i])
      <4>1. i <= n
        BY <1>2, <2>8
      <4>2. QED BY <2>8, <4>1
    <3>3. /\ g[j] = g[i] \o part /\ part \in Seq(Byte) /\ Len(g[j]) = Len(g[i]) + Len(part)
          /\ g[i] \in Seq(Byte)
      BY <2>6, <3>1
    <3>4. ends[j] = ends[i] + 1 + Len(texts[j]) /\ Lies(part, file, ends[i])
      BY <1>13, <1>18, <3>1 DEF Step
    <3>5. Len(part) = 1 + Len(texts[j]) /\ Len(texts[j]) \in Nat
      <4>1. texts[j] \in Texts /\ Len(texts[j]) < ByteMod
        BY <1>13, <2>2, <3>1 DEF Step
      <4>2. QED BY <4>1, CountedIs, TextIsBytes
    <3> HIDE DEF part, j
    <3>6. Lies(g[j], file, pos)
      BY <1>1, <3>2, <3>3, <3>4, JoinLies
    <3>7. Len(g[i]) \in Nat
      BY <3>3
    <3>8. ends[j] = pos + Len(g[j])
      <4> DEFINE a == Len(g[i])
                 b == Len(texts[j])
                 c == Len(g[j])
      <4>1. c = a + (1 + b) /\ a \in Nat /\ b \in Nat /\ ends[j] = pos + a + 1 + b /\ pos \in Nat
        BY <1>1, <3>2, <3>3, <3>4, <3>5, <3>7
      <4> HIDE DEF a, b, c
      <4>2. ends[j] = pos + c
        BY <4>1
      <4>3. QED BY <4>2 DEF c
    <3>9. QED BY <3>6, <3>8 DEF j
  <2>9. \A i \in Nat : i \in Lie => i + 1 \in Lie
    BY <2>8
  <2> HIDE DEF Lie
  <2>10. Nat \subseteq Lie
    BY <2>7, <2>9, Induction
  <2>11. Lies(g[n], file, pos) /\ ends[n] = pos + Len(g[n])
    BY <1>2, <2>10 DEF Lie
  <2>12. QED BY <2>3, <2>6, <2>11
<1>19. QED BY <1>14, <1>15, <1>17, <1>18 DEF taken

\* Bytes behind their count of two bytes.
LEMMA TwoBytesMore ==
  ASSUME NEW value \in Seq(Byte)
  PROVE  /\ Bytes2(Len(value)) \o value \in Seq(Byte)
         /\ Len(Bytes2(Len(value)) \o value) = 2 + Len(value)
<1> DEFINE head == Bytes2(Len(value))
<1>1. head \in Seq(Byte) /\ Len(head) = 2
  BY Bytes2Count
<1> HIDE DEF head
<1>4. head \in Seq(Byte)
  BY <1>1
<1>2. head \o value \in Seq(Byte) /\ Len(head \o value) = Len(head) + Len(value)
  BY <1>4, LiesInJoined, Zenon
<1>5. Len(head \o value) = 2 + Len(value)
  BY <1>1, <1>2
<1>3. QED BY <1>2, <1>5 DEF head

\* What is read of a kind is a value of it, and it lies in a file without
\* foreign bytes just as it would be written.
LEMMA ReadsExactly ==
  ASSUME NEW kind \in Kinds, NEW file \in Seq(Byte), NEW pos \in 0 .. Len(file),
         Read(kind, Behind(file, pos)).ok
  PROVE  \E end \in pos .. Len(file), value \in Values(kind) :
           /\ Read(kind, Behind(file, pos)) = Got(value, file, end)
           /\ IsUtf8(file) /\ Len(file) < LengthMod =>
                /\ Fits(kind, value)
                /\ Lies(Write(kind, value), file, pos)
                /\ end = pos + Len(Write(kind, value))
<1> DEFINE read == Read(kind, Behind(file, pos))
           Exactly(end, value) ==
             /\ read = Got(value, file, end)
             /\ IsUtf8(file) /\ Len(file) < LengthMod =>
                  /\ Fits(kind, value)
                  /\ Lies(Write(kind, value), file, pos)
                  /\ end = pos + Len(Write(kind, value))
<1>1. pos \in Nat /\ Len(file) \in Nat /\ pos <= Len(file)
  OBVIOUS
<1>2. CASE kind = "Cn"
  <2>1. read = TakeText(Behind(file, pos), 1)
    BY <1>2 DEF Read
  <2>2. PICK end \in pos + 1 .. Len(file), text \in Texts :
          /\ TakeText(Behind(file, pos), 1) = Got(text, file, end)
          /\ IsUtf8(file) =>
               end = pos + 1 + Len(text) /\ Len(text) < ByteMod /\ Lies(Counted(text), file, pos)
    BY <2>1, TextExactly
  <2>3. end \in pos .. Len(file)
    BY <1>1
  <2>4. text \in Values(kind)
    BY <1>2 DEF Values, Texts
  <2>5. Write(kind, text) = Counted(text) /\ (Len(text) < ByteMod => Fits(kind, text))
    BY <1>2 DEF Write, Counted, Fits
  <2>6. ASSUME IsUtf8(file) PROVE end = pos + Len(Counted(text))
    <3>1. Len(Counted(text)) = 1 + Len(text) /\ Len(text) \in Nat /\ end = pos + 1 + Len(text)
      BY <2>2, <2>6, CountedIs, TextIsBytes
    <3>2. QED BY <1>1, <3>1
  <2>7. QED BY <2>1, <2>2, <2>3, <2>4, <2>5, <2>6
<1>3. CASE kind = "Nn"
  <2>1. read = TakeText(Behind(file, pos), 2)
    BY <1>3 DEF Read
  <2>2. PICK end \in pos + 2 .. Len(file), text \in Texts :
          /\ TakeText(Behind(file, pos), 2) = Got(text, file, end)
          /\ IsUtf8(file) =>
               /\ end = pos + 2 + Len(text)
               /\ Len(file) < LengthMod =>
                    Len(text) < LengthMod /\ Lies(Bytes2(Len(text)) \o text, file, pos)
    BY <2>1, TextExactly
  <2>3. end \in pos .. Len(file)
    BY <1>1
  <2>4. text \in Values(kind)
    BY <1>3 DEF Values, Texts
  <2>5. Write(kind, text) = Bytes2(Len(text)) \o text /\ Fits(kind, text)
    BY <1>3 DEF Write, Fits
  <2>6. Len(Bytes2(Len(text)) \o text) = 2 + Len(text) /\ Len(text) \in Nat
    <3>1. text \in Seq(Byte) /\ Len(text) \in Nat
      BY TextIsBytes
    <3>2. QED BY <3>1, TwoBytesMore
  <2>7. IsUtf8(file) => end = pos + Len(Bytes2(Len(text)) \o text)
    BY <1>1, <2>2, <2>6
  <2>8. QED BY <2>1, <2>2, <2>3, <2>4, <2>5, <2>7
<1>4. CASE kind = "Kn"
  <2>1. read = TakeCounted(Behind(file, pos), 2)
    BY <1>4 DEF Read
  <2>2. PICK end \in pos + 2 .. Len(file), value \in Seq(Byte) :
          /\ TakeCounted(Behind(file, pos), 2) = Got(value, file, end)
          /\ end = pos + 2 + Len(value)
          /\ Len(file) < LengthMod =>
               Len(value) < LengthMod /\ Lies(Bytes2(Len(value)) \o value, file, pos)
    BY <2>1, CountedExactly
  <2>3. end \in pos .. Len(file)
    BY <1>1
  <2>4. value \in Values(kind)
    BY <1>4 DEF Values
  <2>5. Write(kind, value) = Bytes2(Len(value)) \o value /\ (Len(value) < LengthMod => Fits(kind, value))
    BY <1>4 DEF Write, Fits
  <2>6. Len(Bytes2(Len(value)) \o value) = 2 + Len(value) /\ Len(value) \in Nat
    <3>1. value \in Seq(Byte) /\ Len(value) \in Nat
      OBVIOUS
    <3>2. QED BY <3>1, TwoBytesMore
  <2>7. end = pos + Len(Bytes2(Len(value)) \o value)
    BY <1>1, <2>2, <2>6
  <2>8. QED BY <2>1, <2>2, <2>3, <2>4, <2>5, <2>7
<1>5. CASE kind = "Sn"
  <2>1. read = TakeStrings(Behind(file, pos))
    BY <1>5 DEF Read
  <2>2. PICK end \in pos .. Len(file), strings \in Seq(Texts) :
          /\ TakeStrings(Behind(file, pos)) = Got(strings, file, end)
          /\ IsUtf8(file) /\ Len(file) < LengthMod =>
               /\ Fits("Sn", strings)
               /\ Lies(WriteStrings(strings), file, pos)
               /\ end = pos + Len(WriteStrings(strings))
    BY <2>1, StringsExactly
  <2>3. strings \in Values(kind) /\ Write(kind, strings) = WriteStrings(strings)
    BY <1>5 DEF Values, Texts, Write
  <2>4. QED BY <1>5, <2>1, <2>2, <2>3
<1>6. CASE kind \in Numeric \cup {"Rest"}
  <2> DEFINE n == IF kind = "Rest" THEN Len(Behind(file, pos)) ELSE Width(kind)
             value == Cut(file, pos, pos + n)
  <2>1. n \in Nat /\ read = Take(Behind(file, pos), n)
    <3>1. CASE kind = "Rest"
      <4>1. Len(Behind(file, pos)) \in Nat
        BY Slice DEF Behind
      <4>2. QED BY <3>1, <4>1 DEF Read
    <3>2. CASE kind \in Numeric
      <4>1. kind # "Rest"
        BY <3>2 DEF Numeric
      <4>2. QED BY <3>2, <4>1, NumberIs
    <3>3. QED BY <1>6, <3>1, <3>2
  <2>9. kind = "Rest" \/ (kind # "Rest" /\ kind \in Numeric /\ n = Width(kind))
    BY <1>6
  <2> HIDE DEF n
  <2>2. read = IF pos + n <= Len(file) THEN Got(value, file, pos + n) ELSE Eof
    BY <2>1, TakeIs
  <2>3. pos + n <= Len(file) /\ read = Got(value, file, pos + n)
    <3>1. read # Eof
      BY DEF Eof
    <3>2. QED BY <2>2, <3>1
  <2>4. pos + n \in pos .. Len(file)
    BY <1>1, <2>1, <2>3
  <2>5. value \in Seq(Byte) /\ Len(value) = n /\ Lies(value, file, pos)
    <3>1. value \in Seq(Byte) /\ Len(value) = (pos + n) - pos /\ Lies(value, file, pos)
      BY <1>1, <2>4, CutLies
    <3>2. QED BY <1>1, <2>1, <3>1
  <2> HIDE DEF value
  <2>6. value \in Values(kind) /\ Write(kind, value) = value /\ Fits(kind, value)
    <3>1. CASE kind = "Rest"
      BY <2>5, <3>1 DEF Values, Write, Fits
    <3>2. CASE kind \in Numeric /\ n = Width(kind)
      <4>1. value \in [1 .. Width(kind) -> Byte]
        BY <2>5, <3>2
      <4>2. QED BY <3>2, <4>1, NumberIs
    <3>3. QED BY <2>9, <3>1, <3>2
  <2>7. QED BY <2>3, <2>4, <2>5, <2>6
<1>7. QED BY <1>2, <1>3, <1>4, <1>5, <1>6 DEF Kinds

----------------------------------------------------------------------------
(* Layouts                                                                 *)

\* What holds of every layout: each field has a name of its own and a kind;
\* only texts may be missing at the end; bytes of no kind come last; and what
\* a body may end before is followed by such fields only.
NamesDiffer(L) == \A i, j \in 1 .. Len(L) : L[i].name = L[j].name => i = j

FieldsTyped(L) ==
  /\ Len(L) \in Nat /\ Len(L) < 257 /\ DOMAIN L = 1 .. Len(L)
  /\ \A i \in 1 .. Len(L) :
       /\ L[i].kind \in Kinds
       /\ L[i].when = "more" => L[i].kind = "Cn"
       /\ L[i].when = "flg2" => L[i].kind = "U1" /\ L[i].name = "opt_flg_2"
       /\ L[i].kind = "Rest" => L[i].when = "always" /\ i = Len(L)

MoreLast(L) ==
  \A i \in 1 .. Len(L) : \A j \in 1 .. i - 1 :
    L[j].when \in {"more", "flg2"} => L[i].when \in {"more", "ftr"}

PlainFields(L) == \A i \in 1 .. Len(L) : L[i].when \in {"always", "more"}

\* The three layouts with options.
LEMMA PmrFields ==
  LET L == Layout.Pmr
  IN /\ NamesDiffer(L) /\ FieldsTyped(L) /\ Len(L) = 7
     /\ \A i \in 1 .. 5 : L[i].when = "always"
     /\ L[6] = Field("head_num", "U1", "pair", 0) /\ L[7] = Field("site_num", "U1", "pair", 0)
<1>1. NamesDiffer(Layout.Pmr)
  BY DEF Layout, Fields, Field, NamesDiffer
<1>2. FieldsTyped(Layout.Pmr)
  BY DEF Layout, Fields, Field, FieldsTyped, Kinds, Numeric
<1>3. Len(Layout.Pmr) = 7
  BY DEF Layout, Fields, Field
<1>4. \A i \in 1 .. 5 : Layout.Pmr[i].when = "always"
  BY DEF Layout, Fields, Field
<1>5. Layout.Pmr[6] = Field("head_num", "U1", "pair", 0) /\ Layout.Pmr[7] = Field("site_num", "U1", "pair", 0)
  BY DEF Layout, Fields, Field
<1>6. QED BY <1>1, <1>2, <1>3, <1>4, <1>5

\* The names of the fields of a PTR.
PtrNames ==
  <<"test_num", "head_num", "site_num", "test_flg", "parm_flg", "result", "test_txt", "alarm_id",
    "opt_flg", "res_scal", "llm_scal", "hlm_scal", "lo_limit", "hi_limit", "units">>

\* The fields of a PTR.
LEMMA PtrFields ==
  LET L == Layout.Ptr
  IN /\ NamesDiffer(L) /\ FieldsTyped(L) /\ Len(L) = 15
     /\ \A i \in 1 .. 8 : L[i].when = "always"
     /\ L[5] = Field("parm_flg", "U1", "always", 0)
     /\ L[9] = Field("opt_flg", "U1", "parm", 16)
     /\ \A i \in 10 .. 14 : L[i] = PtrOptions[i - 9] /\ L[i].when = "unless"
     /\ L[15] = Field("units", "Cn", "more", 0)
<1>1. \A i \in 1 .. 15 : Layout.Ptr[i].name = PtrNames[i]
  BY DEF Layout, Fields, Field, PtrOptions, Trailing, PtrNames
<1>2. \A i, j \in 1 .. 15 : PtrNames[i] = PtrNames[j] => i = j
  BY DEF PtrNames
<1>3. Len(Layout.Ptr) = 15 /\ DOMAIN Layout.Ptr = 1 .. 15
  BY DEF Layout, Fields, Field, PtrOptions, Trailing
<1>4. NamesDiffer(Layout.Ptr)
  BY <1>1, <1>2, <1>3 DEF NamesDiffer
<1>5. \A i \in 1 .. 15 : Layout.Ptr[i].kind \in {"U1", "I1", "U4", "R4", "Cn"}
  BY DEF Layout, Fields, Field, PtrOptions, Trailing
<1>6. \A i \in 1 .. 8 : Layout.Ptr[i].when = "always"
  BY DEF Layout, Fields, Field, PtrOptions, Trailing
<1>7. \A i \in 10 .. 14 : Layout.Ptr[i] = PtrOptions[i - 9] /\ Layout.Ptr[i].when = "unless"
  BY DEF Layout, Fields, Field, PtrOptions, Trailing
<1>8. /\ Layout.Ptr[5] = Field("parm_flg", "U1", "always", 0)
      /\ Layout.Ptr[9] = Field("opt_flg", "U1", "parm", 16)
      /\ Layout.Ptr[15] = Field("units", "Cn", "more", 0)
  BY DEF Layout, Fields, Field, PtrOptions, Trailing
<1>9. \A i \in 1 .. 15 : Layout.Ptr[i].kind \in Kinds /\ Layout.Ptr[i].kind # "Rest"
  BY <1>5 DEF Kinds, Numeric
<1>10. \A i \in 1 .. 15 : Layout.Ptr[i].when = "more" => i = 15
  BY <1>6, <1>7, <1>8 DEF Field
<1>11. \A i \in 1 .. 15 : Layout.Ptr[i].when # "flg2"
  BY <1>6, <1>7, <1>8 DEF Field
<1>12. FieldsTyped(Layout.Ptr)
  BY <1>3, <1>8, <1>9, <1>10, <1>11 DEF FieldsTyped, Field
<1>13. QED BY <1>3, <1>4, <1>6, <1>7, <1>8, <1>12

\* The names of the fields of an FTR.
FtrNames ==
  <<"test_num", "head_num", "site_num", "test_flg", "opt_flg", "cycl_cnt", "rel_vpos", "rept_cnt",
    "num_fail", "x_fail_adj", "y_fail_adj", "vect_offset", "rtn_icq", "rtn_ilim", "pgm_icq",
    "pgm_ilim", "rtn_nam", "pgm_nam", "alarm_id", "opt_flg_2", "program", "test_label">>

\* The fields of an FTR.
LEMMA FtrFields ==
  LET L == Layout.Ftr
  IN /\ NamesDiffer(L) /\ FieldsTyped(L) /\ Len(L) = 22
     /\ \A i \in 1 .. 18 : L[i].when = "always"
     /\ L[5] = Field("opt_flg", "U1", "always", 0)
     /\ L[19] = Field("alarm_id", "Cn", "alarm", 1) /\ L[20] = Field("opt_flg_2", "U1", "flg2", 0)
     /\ L[21] = Field("program", "Nn", "ftr", 2) /\ L[22] = Field("test_label", "Nn", "ftr", 4)
<1>1. \A i \in 1 .. 22 : Layout.Ftr[i].name = FtrNames[i]
  BY DEF Layout, Fields, Field, FtrNames
<1>2. \A i, j \in 1 .. 22 : FtrNames[i] = FtrNames[j] => i = j
  BY DEF FtrNames
<1>3. Len(Layout.Ftr) = 22 /\ DOMAIN Layout.Ftr = 1 .. 22
  BY DEF Layout, Fields, Field
<1>4. NamesDiffer(Layout.Ftr)
  BY <1>1, <1>2, <1>3 DEF NamesDiffer
<1>5. \A i \in 1 .. 22 : Layout.Ftr[i].kind \in {"U1", "U2", "I2", "U4", "Sn", "Nn", "Cn"}
  BY DEF Layout, Fields, Field
<1>6. \A i \in 1 .. 18 : Layout.Ftr[i].when = "always"
  BY DEF Layout, Fields, Field
<1>7. /\ Layout.Ftr[5] = Field("opt_flg", "U1", "always", 0)
      /\ Layout.Ftr[19] = Field("alarm_id", "Cn", "alarm", 1)
      /\ Layout.Ftr[20] = Field("opt_flg_2", "U1", "flg2", 0)
      /\ Layout.Ftr[21] = Field("program", "Nn", "ftr", 2)
      /\ Layout.Ftr[22] = Field("test_label", "Nn", "ftr", 4)
  BY DEF Layout, Fields, Field
<1>8. \A i \in 1 .. 22 : Layout.Ftr[i].kind \in Kinds /\ Layout.Ftr[i].kind # "Rest"
  BY <1>5 DEF Kinds, Numeric
<1>9. \A i \in 1 .. 22 : Layout.Ftr[i].when # "more"
  BY <1>6, <1>7 DEF Field
<1>10. \A i \in 1 .. 22 : Layout.Ftr[i].when = "flg2" => i = 20
  BY <1>6, <1>7 DEF Field
<1>11. FieldsTyped(Layout.Ftr)
  BY <1>3, <1>7, <1>8, <1>9, <1>10 DEF FieldsTyped, Field
<1>12. QED BY <1>3, <1>4, <1>6, <1>7, <1>11

\* The elements of two sequences joined.
LEMMA JoinedAt ==
  ASSUME NEW S, NEW s \in Seq(S), NEW t \in Seq(S)
  PROVE  /\ \A i \in 1 .. Len(s) : (s \o t)[i] = s[i]
         /\ \A i \in 1 .. Len(t) : (s \o t)[Len(s) + i] = t[i]
OBVIOUS

\* The layouts without.
LEMMA MirFields ==
  LET L == Layout.Mir
  IN NamesDiffer(L) /\ FieldsTyped(L) /\ PlainFields(L) /\ MoreLast(L)
<1> DEFINE L == Layout.Mir
           Others == {"setup_t", "start_t", "stat_bin", "mode_cod", "rtn_cod", "prot_cod", "burn_day", "cmt_cnt"}
<1>1. Len(MirTexts) = 30 /\ DOMAIN MirTexts = 1 .. 30
  BY DEF MirTexts
<1>2. \A i, j \in 1 .. 30 : MirTexts[i] = MirTexts[j] => i = j
  BY SMTT(60) DEF MirTexts
<1>3. \A i \in 1 .. 30 : MirTexts[i] \notin Others
  BY DEF MirTexts
<1>4. MirTexts \in Seq(Range(MirTexts))
  <2>3. MirTexts = [i \in 1 .. 30 |-> MirTexts[i]]
    BY DEF MirTexts
  <2>4. MirTexts \in [1 .. 30 -> Range(MirTexts)]
    BY <1>1, <2>3 DEF Range
  <2>2. QED BY <2>4, SeqDef
<1>5. /\ Len(L) = 38 /\ DOMAIN L = 1 .. 38
      /\ L[1].name = "setup_t" /\ L[2].name = "start_t" /\ L[3].name = "stat_bin"
      /\ L[4].name = "mode_cod" /\ L[5].name = "rtn_cod" /\ L[6].name = "prot_cod"
      /\ L[7].name = "burn_day" /\ L[8].name = "cmt_cnt"
      /\ \A i \in 9 .. 38 : L[i].name = MirTexts[i - 8]
  BY <1>1, <1>4 DEF Layout, Fields, Field
<1> DEFINE head == Fields("U4", <<"setup_t", "start_t">>)
                      \o Fields("U1", <<"stat_bin", "mode_cod", "rtn_cod", "prot_cod">>)
                      \o Fields("U2", <<"burn_day">>) \o Fields("U1", <<"cmt_cnt">>)
           tail == Fields("Cn", MirTexts)
<1>6. L = head \o tail
  BY DEF Layout
<1>7. Len(head) = 8 /\ \A i \in 1 .. 8 : head[i].when = "always" /\ head[i].kind \in {"U1", "U2", "U4"}
  BY DEF Fields, Field
<1>8. Len(tail) = 30 /\ \A i \in 1 .. 30 : tail[i].when = "always" /\ tail[i].kind = "Cn"
  BY <1>1, <1>4 DEF Fields, Field
<1>9. DOMAIN head = 1 .. 8 /\ DOMAIN tail = 1 .. 30
  BY <1>1, <1>4 DEF Fields, Field
<1>10. head = [i \in 1 .. 8 |-> head[i]] /\ tail = [i \in 1 .. 30 |-> tail[i]]
  BY <1>1, <1>4 DEF Fields, Field
<1> HIDE DEF head, tail
<1> DEFINE S == Range(head) \cup Range(tail)
<1>11. head \in [1 .. 8 -> S] /\ tail \in [1 .. 30 -> S]
  BY <1>9, <1>10 DEF Range
<1>12. head \in Seq(S) /\ tail \in Seq(S)
  BY <1>11, SeqDef
<1> HIDE DEF S
<1>13. ASSUME NEW i \in 1 .. 8
       PROVE  L[i].when = "always" /\ L[i].kind \in {"U1", "U2", "U4"}
  <2>1. i \in 1 .. Len(head)
    BY <1>7
  <2>2. (head \o tail)[i] = head[i]
    BY <1>12, <2>1, JoinedAt
  <2>3. QED BY <1>6, <1>7, <2>2
<1>14. ASSUME NEW i \in 9 .. 38
       PROVE  L[i].when = "always" /\ L[i].kind = "Cn"
  <2>1. i - 8 \in 1 .. Len(tail) /\ Len(head) + (i - 8) = i /\ i - 8 \in 1 .. 30
    BY <1>7, <1>8
  <2>2. (head \o tail)[Len(head) + (i - 8)] = tail[i - 8]
    BY <1>12, <2>1, JoinedAt
  <2>3. QED BY <1>6, <1>8, <2>1, <2>2
<1> HIDE DEF L
<1>15. \A i \in 1 .. 38 : L[i].when = "always" /\ L[i].kind \in {"U1", "U2", "U4", "Cn"}
  <2>1. \A i \in 1 .. 38 : i \in 1 .. 8 \/ i \in 9 .. 38
    OBVIOUS
  <2>2. QED BY <1>13, <1>14, <2>1
<1>16. \A i \in 9 .. 38 : L[i].name \notin Others
  BY <1>3, <1>5
<1>17. \A i, j \in 1 .. 8 : L[i].name = L[j].name => i = j
  BY <1>5
<1>18. \A i \in 1 .. 8 : L[i].name \in Others
  BY <1>5
<1>19. \A i, j \in 9 .. 38 : L[i].name = L[j].name => i = j
  <2>1. ASSUME NEW i \in 9 .. 38, NEW j \in 9 .. 38, L[i].name = L[j].name
        PROVE  i = j
    <3>1. i - 8 \in 1 .. 30 /\ j - 8 \in 1 .. 30
      OBVIOUS
    <3>2. i - 8 = j - 8
      BY <1>2, <1>5, <2>1, <3>1
    <3>3. QED BY <3>2
  <2>2. QED BY <2>1
<1>20. NamesDiffer(L)
  <2>1. ASSUME NEW i \in 1 .. 38, NEW j \in 1 .. 38, L[i].name = L[j].name
        PROVE  i = j
    <3>1. (i \in 1 .. 8 \/ i \in 9 .. 38) /\ (j \in 1 .. 8 \/ j \in 9 .. 38)
      OBVIOUS
    <3> HIDE DEF Others
    <3>2. QED BY <1>16, <1>17, <1>18, <1>19, <2>1, <3>1
  <2>2. QED BY <1>5, <2>1 DEF NamesDiffer
<1>21. FieldsTyped(L)
  BY <1>5, <1>15 DEF FieldsTyped, Kinds, Numeric
<1>22. PlainFields(L)
  BY <1>5, <1>15 DEF PlainFields
<1>23. MoreLast(L)
  BY <1>5, <1>15 DEF MoreLast
<1>24. QED BY <1>20, <1>21, <1>22, <1>23 DEF L

\* The types without options, but for the MIR.
PlainTypeNames ==
  {"Far", "Atr", "Mrr", "Pcr", "Hbr", "Sbr", "Wir", "Wrr", "Wcr", "Tsr", "Gdr", "Dtr", "Bps", "Eps",
   "Unknown"}

\* Their fields have names of their own.
LEMMA PlainTypesDiffer ==
  \A typ \in PlainTypeNames :
    NamesDiffer(Layout[typ])
<1> USE DEF Layout, Fields, Field, Trailing, CountFields, BinFields, NamesDiffer
<1>1. NamesDiffer(Layout.Far)
  OBVIOUS
<1>2. NamesDiffer(Layout.Atr)
  OBVIOUS
<1>3. NamesDiffer(Layout.Mrr)
  OBVIOUS
<1>4. NamesDiffer(Layout.Pcr)
  OBVIOUS
<1>5. NamesDiffer(Layout.Hbr)
  OBVIOUS
<1>6. NamesDiffer(Layout.Sbr)
  OBVIOUS
<1>7. NamesDiffer(Layout.Wir)
  OBVIOUS
<1>8. NamesDiffer(Layout.Wrr)
  OBVIOUS
<1>9. NamesDiffer(Layout.Wcr)
  OBVIOUS
<1>10. NamesDiffer(Layout.Tsr)
  OBVIOUS
<1>11. NamesDiffer(Layout.Gdr)
  OBVIOUS
<1>12. NamesDiffer(Layout.Dtr)
  OBVIOUS
<1>13. NamesDiffer(Layout.Bps)
  OBVIOUS
<1>14. NamesDiffer(Layout.Eps)
  OBVIOUS
<1>15. NamesDiffer(Layout.Unknown)
  OBVIOUS
<1> HIDE DEF Layout, Fields, Field, Trailing, CountFields, BinFields, NamesDiffer
<1>16. QED BY <1>1, <1>2, <1>3, <1>4, <1>5, <1>6, <1>7, <1>8,
              <1>9, <1>10, <1>11, <1>12, <1>13, <1>14, <1>15 DEF PlainTypeNames

\* Their fields have kinds.
LEMMA PlainFieldsTyped ==
  \A typ \in PlainTypeNames :
    FieldsTyped(Layout[typ])
<1> USE DEF Layout, Fields, Field, Trailing, CountFields, BinFields, FieldsTyped, Kinds, Numeric
<1>1. FieldsTyped(Layout.Far)
  OBVIOUS
<1>2. FieldsTyped(Layout.Atr)
  OBVIOUS
<1>3. FieldsTyped(Layout.Mrr)
  OBVIOUS
<1>4. FieldsTyped(Layout.Pcr)
  OBVIOUS
<1>5. FieldsTyped(Layout.Hbr)
  OBVIOUS
<1>6. FieldsTyped(Layout.Sbr)
  OBVIOUS
<1>7. FieldsTyped(Layout.Wir)
  OBVIOUS
<1>8. FieldsTyped(Layout.Wrr)
  OBVIOUS
<1>9. FieldsTyped(Layout.Wcr)
  OBVIOUS
<1>10. FieldsTyped(Layout.Tsr)
  OBVIOUS
<1>11. FieldsTyped(Layout.Gdr)
  OBVIOUS
<1>12. FieldsTyped(Layout.Dtr)
  OBVIOUS
<1>13. FieldsTyped(Layout.Bps)
  OBVIOUS
<1>14. FieldsTyped(Layout.Eps)
  OBVIOUS
<1>15. FieldsTyped(Layout.Unknown)
  OBVIOUS
<1> HIDE DEF Layout, Fields, Field, Trailing, CountFields, BinFields, FieldsTyped, Kinds, Numeric
<1>16. QED BY <1>1, <1>2, <1>3, <1>4, <1>5, <1>6, <1>7, <1>8,
              <1>9, <1>10, <1>11, <1>12, <1>13, <1>14, <1>15 DEF PlainTypeNames

\* They have no options.
LEMMA PlainPlainFields ==
  \A typ \in PlainTypeNames :
    PlainFields(Layout[typ])
<1> USE DEF Layout, Fields, Field, Trailing, CountFields, BinFields, PlainFields
<1>1. PlainFields(Layout.Far)
  OBVIOUS
<1>2. PlainFields(Layout.Atr)
  OBVIOUS
<1>3. PlainFields(Layout.Mrr)
  OBVIOUS
<1>4. PlainFields(Layout.Pcr)
  OBVIOUS
<1>5. PlainFields(Layout.Hbr)
  OBVIOUS
<1>6. PlainFields(Layout.Sbr)
  OBVIOUS
<1>7. PlainFields(Layout.Wir)
  OBVIOUS
<1>8. PlainFields(Layout.Wrr)
  OBVIOUS
<1>9. PlainFields(Layout.Wcr)
  OBVIOUS
<1>10. PlainFields(Layout.Tsr)
  OBVIOUS
<1>11. PlainFields(Layout.Gdr)
  OBVIOUS
<1>12. PlainFields(Layout.Dtr)
  OBVIOUS
<1>13. PlainFields(Layout.Bps)
  OBVIOUS
<1>14. PlainFields(Layout.Eps)
  OBVIOUS
<1>15. PlainFields(Layout.Unknown)
  OBVIOUS
<1> HIDE DEF Layout, Fields, Field, Trailing, CountFields, BinFields, PlainFields
<1>16. QED BY <1>1, <1>2, <1>3, <1>4, <1>5, <1>6, <1>7, <1>8,
              <1>9, <1>10, <1>11, <1>12, <1>13, <1>14, <1>15 DEF PlainTypeNames

\* What a body may end before comes last in them.
LEMMA PlainMoreLast ==
  \A typ \in PlainTypeNames :
    MoreLast(Layout[typ])
<1> USE DEF Layout, Fields, Field, Trailing, CountFields, BinFields, MoreLast
<1>1. MoreLast(Layout.Far)
  OBVIOUS
<1>2. MoreLast(Layout.Atr)
  OBVIOUS
<1>3. MoreLast(Layout.Mrr)
  OBVIOUS
<1>4. MoreLast(Layout.Pcr)
  OBVIOUS
<1>5. MoreLast(Layout.Hbr)
  OBVIOUS
<1>6. MoreLast(Layout.Sbr)
  OBVIOUS
<1>7. MoreLast(Layout.Wir)
  OBVIOUS
<1>8. MoreLast(Layout.Wrr)
  OBVIOUS
<1>9. MoreLast(Layout.Wcr)
  OBVIOUS
<1>10. MoreLast(Layout.Tsr)
  OBVIOUS
<1>11. MoreLast(Layout.Gdr)
  OBVIOUS
<1>12. MoreLast(Layout.Dtr)
  OBVIOUS
<1>13. MoreLast(Layout.Bps)
  OBVIOUS
<1>14. MoreLast(Layout.Eps)
  OBVIOUS
<1>15. MoreLast(Layout.Unknown)
  OBVIOUS
<1> HIDE DEF Layout, Fields, Field, Trailing, CountFields, BinFields, MoreLast
<1>16. QED BY <1>1, <1>2, <1>3, <1>4, <1>5, <1>6, <1>7, <1>8,
              <1>9, <1>10, <1>11, <1>12, <1>13, <1>14, <1>15 DEF PlainTypeNames

\* The earlier fields that decide whether one is looked for.
Consults(field) ==
  CASE field.when = "pair" -> IF field.name = "site_num" THEN {"head_num"} ELSE {}
    [] field.when = "parm" -> {"parm_flg"}
    [] field.when \in {"unless", "alarm"} -> {"opt_flg"}
    [] field.when = "flg2" -> {"alarm_id"}
    [] field.when = "ftr" -> {"alarm_id", "opt_flg_2"}
    [] OTHER -> {}

\* They do come earlier.
ConsultsEarlier(L) ==
  \A i \in 1 .. Len(L) : \A name \in Consults(L[i]) : \E j \in 1 .. i - 1 : L[j].name = name

\* What holds of the layouts without options.
LEMMA PlainTypes ==
  \A typ \in Types \ {"Pmr", "Ptr", "Ftr"} :
    LET L == Layout[typ]
    IN NamesDiffer(L) /\ FieldsTyped(L) /\ PlainFields(L) /\ MoreLast(L) /\ ConsultsEarlier(L)
<1>1. Types \ {"Pmr", "Ptr", "Ftr"} =
        PlainTypeNames \cup {"Mir"}
  BY DEF Types, Layout, PlainTypeNames
<1>3. \A typ \in Types \ {"Pmr", "Ptr", "Ftr"} :
        LET L == Layout[typ] IN NamesDiffer(L) /\ FieldsTyped(L) /\ PlainFields(L) /\ MoreLast(L)
  BY <1>1, MirFields, PlainTypesDiffer, PlainFieldsTyped, PlainPlainFields, PlainMoreLast
<1>4. \A L : PlainFields(L) => ConsultsEarlier(L)
  BY DEF PlainFields, ConsultsEarlier, Consults
<1>5. QED BY <1>3, <1>4

\* What holds of every layout.
LEMMA LayoutsStand ==
  ASSUME NEW typ \in Types
  PROVE  LET L == Layout[typ]
         IN NamesDiffer(L) /\ FieldsTyped(L) /\ MoreLast(L) /\ ConsultsEarlier(L)
<1>1. CASE typ = "Pmr"
  <2> DEFINE L == Layout.Pmr
  <2>1. /\ NamesDiffer(L) /\ FieldsTyped(L) /\ Len(L) = 7
        /\ \A i \in 1 .. 5 : L[i].when = "always"
        /\ L[6] = Field("head_num", "U1", "pair", 0) /\ L[7] = Field("site_num", "U1", "pair", 0)
    BY PmrFields
  <2> HIDE DEF L
  <2>2. \A i \in 1 .. 7 : L[i].when \in {"always", "pair"}
    BY <2>1 DEF Field
  <2>3. MoreLast(L)
    BY <2>1, <2>2 DEF MoreLast
  <2>4. ASSUME NEW i \in 1 .. 7, NEW name \in Consults(L[i])
        PROVE  \E j \in 1 .. i - 1 : L[j].name = name
    <3>1. i \in 1 .. 5 \/ i = 6 \/ i = 7
      OBVIOUS
    <3>2. i = 7 /\ name = "head_num"
      BY <2>1, <2>4, <3>1 DEF Consults, Field
    <3>3. L[6].name = name /\ 6 \in 1 .. i - 1
      BY <2>1, <3>2 DEF Field
    <3>4. QED BY <3>3
  <2>5. ConsultsEarlier(L)
    BY <2>1, <2>4 DEF ConsultsEarlier
  <2>6. QED BY <1>1, <2>1, <2>3, <2>5 DEF L
<1>2. CASE typ = "Ptr"
  <2> DEFINE L == Layout.Ptr
  <2>1. /\ NamesDiffer(L) /\ FieldsTyped(L) /\ Len(L) = 15
        /\ \A i \in 1 .. 8 : L[i].when = "always"
        /\ L[5] = Field("parm_flg", "U1", "always", 0)
        /\ L[9] = Field("opt_flg", "U1", "parm", 16)
        /\ \A i \in 10 .. 14 : L[i].when = "unless"
        /\ L[15] = Field("units", "Cn", "more", 0)
    BY PtrFields
  <2> HIDE DEF L
  <2>2. \A i \in 1 .. 14 : L[i].when \in {"always", "parm", "unless"}
    BY <2>1 DEF Field
  <2>3. MoreLast(L)
    BY <2>1, <2>2 DEF MoreLast
  <2>4. ASSUME NEW i \in 1 .. 15, NEW name \in Consults(L[i])
        PROVE  \E j \in 1 .. i - 1 : L[j].name = name
    <3>1. i \in 1 .. 8 \/ i = 9 \/ i \in 10 .. 14 \/ i = 15
      OBVIOUS
    <3>2. (i = 9 /\ name = "parm_flg") \/ (i \in 10 .. 14 /\ name = "opt_flg")
      BY <2>1, <2>4, <3>1 DEF Consults, Field
    <3>3. (L[5].name = name /\ 5 \in 1 .. i - 1) \/ (L[9].name = name /\ 9 \in 1 .. i - 1)
      BY <2>1, <3>2 DEF Field
    <3>4. QED BY <3>3
  <2>5. ConsultsEarlier(L)
    BY <2>1, <2>4 DEF ConsultsEarlier
  <2>6. QED BY <1>2, <2>1, <2>3, <2>5 DEF L
<1>3. CASE typ = "Ftr"
  <2> DEFINE L == Layout.Ftr
  <2>1. /\ NamesDiffer(L) /\ FieldsTyped(L) /\ Len(L) = 22
        /\ \A i \in 1 .. 18 : L[i].when = "always"
        /\ L[5] = Field("opt_flg", "U1", "always", 0)
        /\ L[19] = Field("alarm_id", "Cn", "alarm", 1) /\ L[20] = Field("opt_flg_2", "U1", "flg2", 0)
        /\ L[21] = Field("program", "Nn", "ftr", 2) /\ L[22] = Field("test_label", "Nn", "ftr", 4)
    BY FtrFields
  <2> HIDE DEF L
  <2>2. \A i \in 1 .. 22 : i # 20 => L[i].when \notin {"more", "flg2"}
    BY <2>1 DEF Field
  <2>3. MoreLast(L)
    <3>1. ASSUME NEW i \in 1 .. 22, NEW j \in 1 .. i - 1, L[j].when \in {"more", "flg2"}
          PROVE  L[i].when \in {"more", "ftr"}
      <4>1. j = 20
        BY <2>2, <3>1
      <4>2. i = 21 \/ i = 22
        BY <4>1
      <4>3. QED BY <2>1, <4>2 DEF Field
    <3>2. QED BY <2>1, <3>1 DEF MoreLast
  <2>4. ASSUME NEW i \in 1 .. 22, NEW name \in Consults(L[i])
        PROVE  \E j \in 1 .. i - 1 : L[j].name = name
    <3>1. i \in 1 .. 18 \/ i = 19 \/ i = 20 \/ i = 21 \/ i = 22
      OBVIOUS
    <3>2. \/ i = 19 /\ name = "opt_flg"
          \/ i = 20 /\ name = "alarm_id"
          \/ i \in {21, 22} /\ name \in {"alarm_id", "opt_flg_2"}
      BY <2>1, <2>4, <3>1 DEF Consults, Field
    <3>3. \/ L[5].name = name /\ 5 \in 1 .. i - 1
          \/ L[19].name = name /\ 19 \in 1 .. i - 1
          \/ L[20].name = name /\ 20 \in 1 .. i - 1
      BY <2>1, <3>2 DEF Field
    <3>4. QED BY <3>3
  <2>5. ConsultsEarlier(L)
    BY <2>1, <2>4 DEF ConsultsEarlier
  <2>6. QED BY <1>3, <2>1, <2>3, <2>5 DEF L
<1>4. CASE typ \notin {"Pmr", "Ptr", "Ftr"}
  BY <1>4, PlainTypes
<1>5. QED BY <1>1, <1>2, <1>3, <1>4

\* What is sought and what is missing depends on those alone.
LEMMA SoughtFrom ==
  ASSUME NEW field, NEW r, NEW s, NEW rest, \A name \in Consults(field) : r[name] = s[name]
  PROVE  Sought(field, r, rest) = Sought(field, s, rest) /\ Missing(field, r) = Missing(field, s)
<1>1. CASE field.when = "pair"
  <2>1. field.name = "site_num" => r["head_num"] = s["head_num"]
    BY <1>1 DEF Consults
  <2>2. QED BY <1>1, <2>1 DEF Sought, Missing
<1>2. CASE field.when = "parm"
  <2>1. r["parm_flg"] = s["parm_flg"]
    BY <1>2 DEF Consults
  <2>2. QED BY <1>2, <2>1 DEF Sought, Missing
<1>3. CASE field.when \in {"unless", "alarm"}
  <2>1. r["opt_flg"] = s["opt_flg"]
    BY <1>3 DEF Consults
  <2>2. QED BY <1>3, <2>1 DEF Sought, Missing
<1>4. CASE field.when = "flg2"
  <2>1. r["alarm_id"] = s["alarm_id"]
    BY <1>4 DEF Consults
  <2>2. QED BY <1>4, <2>1 DEF Sought, Missing
<1>5. CASE field.when = "ftr"
  <2>1. r["alarm_id"] = s["alarm_id"] /\ r["opt_flg_2"] = s["opt_flg_2"]
    BY <1>5 DEF Consults
  <2>2. QED BY <1>5, <2>1 DEF Sought, Missing
<1>6. CASE field.when \notin {"pair", "parm", "unless", "alarm", "flg2", "ftr"}
  BY <1>6 DEF Sought, Missing
<1>7. QED BY <1>1, <1>2, <1>3, <1>4, <1>5, <1>6

----------------------------------------------------------------------------
(* Record::parse, field by field                                           *)

\* The states of Record::parse, field by field.
ParseStart(body) == [ok |-> TRUE, rest |-> body, value |-> [name \in {} |-> None]]

ParseStates(L, body, n, got) ==
  got = [i \in 0 .. n |-> IF i = 0 THEN ParseStart(body) ELSE AfterField(got[i - 1], L[i])]

\* There are such states for any number of fields.
LEMMA ParseStatesExist ==
  ASSUME NEW L, NEW body, NEW n \in Nat
  PROVE  \E got : ParseStates(L, body, n, got)
<1> DEFINE With == {k \in Nat : \E got : ParseStates(L, body, k, got)}
<1>1. 0 \in With
  <2>1. ParseStates(L, body, 0, [i \in 0 .. 0 |-> ParseStart(body)])
    BY DEF ParseStates
  <2>2. QED BY <2>1
<1>2. ASSUME NEW k \in Nat, k \in With
      PROVE  k + 1 \in With
  <2>1. PICK got : ParseStates(L, body, k, got)
    BY <1>2
  <2> DEFINE longer == [i \in 0 .. k + 1 |-> IF i <= k THEN got[i] ELSE AfterField(got[k], L[k + 1])]
  <2>2. ASSUME NEW i \in 0 .. k + 1
        PROVE  longer[i] = IF i = 0 THEN ParseStart(body) ELSE AfterField(longer[i - 1], L[i])
    <3>1. CASE i <= k
      <4>1. i \in 0 .. k /\ longer[i] = got[i]
        BY <3>1
      <4>2. got[i] = IF i = 0 THEN ParseStart(body) ELSE AfterField(got[i - 1], L[i])
        BY <2>1, <4>1 DEF ParseStates
      <4>3. i # 0 => longer[i - 1] = got[i - 1]
        BY <3>1
      <4> HIDE DEF longer
      <4>4. QED BY <4>1, <4>2, <4>3
    <3>2. CASE i = k + 1
      <4>1. longer[i] = AfterField(got[k], L[k + 1]) /\ longer[i - 1] = got[k] /\ i # 0
        BY <3>2
      <4> HIDE DEF longer
      <4>2. QED BY <3>2, <4>1
    <3>3. QED BY <3>1, <3>2
  <2>3. ParseStates(L, body, k + 1, longer)
    BY <2>2 DEF ParseStates
  <2>4. QED BY <2>3
<1> HIDE DEF With
<1>3. Nat \subseteq With
  BY <1>1, <1>2, Induction
<1>4. QED BY <1>3 DEF With

\* What is taken for a field in a state.
Takes(field, got) ==
  IF Sought(field, got.value, got.rest) THEN Read(field.kind, got.rest)
  ELSE [ok |-> TRUE, value |-> Missing(field, got.value), rest |-> got.rest]

\* A record with one field more.
WithField(r, name, value) ==
  [other \in DOMAIN r \cup {name} |-> IF other = name THEN value ELSE r[other]]

\* Record::parse goes through them.
LEMMA ParseIs ==
  ASSUME NEW typ \in Types, NEW body
  PROVE  \E got :
           /\ Parse(typ, body) = got[Len(Layout[typ])]
           /\ got[0] = ParseStart(body)
           /\ \A i \in 1 .. Len(Layout[typ]) :
                LET field == Layout[typ][i]
                    taken == Takes(field, got[i - 1])
                IN got[i] = IF ~got[i - 1].ok \/ ~taken.ok THEN Eof
                            ELSE [ok |-> TRUE, rest |-> taken.rest,
                                  value |-> WithField(got[i - 1].value, field.name, taken.value)]
<1> DEFINE L == Layout[typ]
           n == Len(L)
           state == CHOOSE got : ParseStates(L, body, n, got)
<1>1. n \in Nat
  BY LayoutsStand DEF FieldsTyped
<1>2. Parse(typ, body) = state[n]
  BY Zenon DEF Parse, ParseStates, ParseStart
<1>3. ParseStates(L, body, n, state)
  <2> HIDE DEF n, L
  <2>1. QED BY <1>1, ParseStatesExist, Zenon
<1> HIDE DEF state, n, L
<1>4. \A i \in 0 .. n : state[i] = IF i = 0 THEN ParseStart(body) ELSE AfterField(state[i - 1], L[i])
  BY <1>3, Zenon DEF ParseStates
<1>5. state[0] = ParseStart(body)
  BY <1>1, <1>4
<1>6. \A i \in 1 .. n :
        LET taken == Takes(L[i], state[i - 1])
        IN state[i] = IF ~state[i - 1].ok \/ ~taken.ok THEN Eof
                      ELSE [ok |-> TRUE, rest |-> taken.rest,
                            value |-> WithField(state[i - 1].value, L[i].name, taken.value)]
  <2>1. ASSUME NEW i \in 1 .. n
        PROVE  LET taken == Takes(L[i], state[i - 1])
               IN state[i] = IF ~state[i - 1].ok \/ ~taken.ok THEN Eof
                             ELSE [ok |-> TRUE, rest |-> taken.rest,
                                   value |-> WithField(state[i - 1].value, L[i].name, taken.value)]
    <3>1. state[i] = AfterField(state[i - 1], L[i])
      <4>1. i \in 0 .. n /\ i # 0
        OBVIOUS
      <4>2. QED BY <1>4, <4>1
    <3>2. QED BY <3>1, Zenon DEF AfterField, Takes, WithField
  <2>2. QED BY <2>1
<1>7. QED BY <1>2, <1>5, <1>6 DEF L, n

\* A record is parsed from a file, its i-th field ending at p[i].
Parses(typ, file, p, r) ==
  LET L == Layout[typ]
  IN /\ r = [name \in NamesOf(typ) |-> r[name]]
     /\ \A i \in 0 .. Len(L) : p[i] \in 0 .. Len(file)
     /\ p[0] = 0
     /\ \A i \in 1 .. Len(L) :
          IF Sought(L[i], r, Behind(file, p[i - 1]))
          THEN Read(L[i].kind, Behind(file, p[i - 1])) = Got(r[L[i].name], file, p[i])
          ELSE r[L[i].name] = Missing(L[i], r) /\ p[i] = p[i - 1]

\* The names of the first fields.
FirstNames(L, i) == {L[j].name : j \in 1 .. i}

\* What is left behind a position tells the position.
LEMMA BehindEnds ==
  ASSUME NEW S, NEW file \in Seq(S), NEW end \in 0 .. Len(file)
  PROVE  Behind(file, end) \in Seq(S) /\ Len(file) - Len(Behind(file, end)) = end
<1>1. end \in Nat /\ Len(file) \in end .. Len(file) /\ Len(file) \in Nat
  OBVIOUS
<1>2. Behind(file, end) \in Seq(S) /\ Len(Behind(file, end)) = Len(file) - end
  BY <1>1, Slice DEF Behind
<1>3. QED BY <1>1, <1>2

\* What a reader gets has one end.
LEMMA GotOnce ==
  ASSUME NEW S, NEW file \in Seq(S), NEW v, NEW w, NEW a \in 0 .. Len(file), NEW b \in 0 .. Len(file),
         Got(v, file, a) = Got(w, file, b)
  PROVE  v = w /\ a = b
<1>1. v = w /\ Behind(file, a) = Behind(file, b)
  BY DEF Got
<1>2. QED BY <1>1, BehindEnds

\* What Record::parse accepts is parsed.
LEMMA ParsesIfOk ==
  ASSUME NEW typ \in Types, NEW file \in Seq(Byte), Parse(typ, file).ok
  PROVE  \E p : Parses(typ, file, p, Parse(typ, file).value)
<1> DEFINE L == Layout[typ]
           n == Len(L)
           r == Parse(typ, file).value
<1>1. n \in Nat /\ NamesDiffer(L) /\ FieldsTyped(L) /\ ConsultsEarlier(L)
  BY LayoutsStand DEF FieldsTyped
<1>2. PICK got :
        /\ Parse(typ, file) = got[n]
        /\ got[0] = ParseStart(file)
        /\ \A i \in 1 .. n :
             LET taken == Takes(L[i], got[i - 1])
             IN got[i] = IF ~got[i - 1].ok \/ ~taken.ok THEN Eof
                         ELSE [ok |-> TRUE, rest |-> taken.rest,
                               value |-> WithField(got[i - 1].value, L[i].name, taken.value)]
  BY ParseIs, Zenon
<1> DEFINE taken == [i \in 1 .. n |-> Takes(L[i], got[i - 1])]
<1>3. \A i \in 1 .. n :
        got[i] = IF ~got[i - 1].ok \/ ~taken[i].ok THEN Eof
                 ELSE [ok |-> TRUE, rest |-> taken[i].rest,
                       value |-> WithField(got[i - 1].value, L[i].name, taken[i].value)]
  <2>1. ASSUME NEW i \in 1 .. n
        PROVE  got[i] = IF ~got[i - 1].ok \/ ~taken[i].ok THEN Eof
                        ELSE [ok |-> TRUE, rest |-> taken[i].rest,
                              value |-> WithField(got[i - 1].value, L[i].name, taken[i].value)]
    <3>1. taken[i] = Takes(L[i], got[i - 1])
      OBVIOUS
    <3> HIDE DEF taken, L, n
    <3>2. QED BY <1>2, <3>1, Zenon
  <2>2. QED BY <2>1
<1> HIDE DEF taken, n, L, r
\* Every field has been read.
<1>4. \A i \in 0 .. n : got[i].ok
  <2> DEFINE Kept == {k \in Nat : k <= n => got[n - k].ok}
  <2>1. 0 \in Kept
    BY <1>1, <1>2
  <2>2. ASSUME NEW k \in Nat, k \in Kept, k + 1 <= n
        PROVE  got[n - (k + 1)].ok
    <3> DEFINE i == n - k
    <3>1. i \in 1 .. n /\ got[i].ok /\ i - 1 = n - (k + 1)
      BY <1>1, <2>2
    <3> HIDE DEF i
    <3>2. got[i] # Eof
      BY <3>1 DEF Eof
    <3>3. got[i - 1].ok
      BY <1>3, <3>1, <3>2
    <3>4. QED BY <3>1, <3>3
  <2>3. \A k \in Nat : k \in Kept => k + 1 \in Kept
    BY <2>2
  <2> HIDE DEF Kept
  <2>4. Nat \subseteq Kept
    BY <2>1, <2>3, Induction
  <2>5. ASSUME NEW i \in 0 .. n PROVE got[i].ok
    <3>1. n - i \in Nat /\ n - i <= n /\ n - (n - i) = i
      BY <1>1
    <3>2. got[n - (n - i)].ok
      BY <2>4, <3>1 DEF Kept
    <3>3. QED BY <3>1, <3>2
  <2>6. QED BY <2>5
<1>5. \A i \in 1 .. n :
        /\ taken[i].ok /\ taken[i] = Takes(L[i], got[i - 1])
        /\ got[i].rest = taken[i].rest
        /\ got[i].value = WithField(got[i - 1].value, L[i].name, taken[i].value)
  <2>1. ASSUME NEW i \in 1 .. n
        PROVE  /\ taken[i].ok
               /\ got[i] = [ok |-> TRUE, rest |-> taken[i].rest,
                            value |-> WithField(got[i - 1].value, L[i].name, taken[i].value)]
    <3>1. i \in 0 .. n
      OBVIOUS
    <3>2. got[i] # Eof
      BY <1>4, <3>1 DEF Eof
    <3>3. QED BY <1>3, <3>2
  <2>2. \A i \in 1 .. n : taken[i] = Takes(L[i], got[i - 1])
    BY DEF taken
  <2>3. ASSUME NEW i \in 1 .. n
        PROVE  /\ got[i].rest = taken[i].rest
               /\ got[i].value = WithField(got[i - 1].value, L[i].name, taken[i].value)
    <3> DEFINE w == WithField(got[i - 1].value, L[i].name, taken[i].value)
    <3>1. got[i] = [ok |-> TRUE, rest |-> taken[i].rest, value |-> w]
      BY <2>1
    <3> HIDE DEF w
    <3>2. got[i].rest = taken[i].rest /\ got[i].value = w
      BY <3>1
    <3>3. QED BY <3>2 DEF w
  <2>4. QED BY <2>1, <2>2, <2>3
\* The values of the fields so far.
<1> DEFINE Holds(i) == /\ DOMAIN got[i].value = FirstNames(L, i)
                       /\ got[i].value = [name \in FirstNames(L, i) |-> got[i].value[name]]
                       /\ \A j \in 1 .. i : got[i].value[L[j].name] = taken[j].value
<1>6. \A i \in 0 .. n : Holds(i)
  <2> DEFINE Held == {i \in Nat : i <= n => Holds(i)}
  <2>1. 0 \in Held
    <3>1. got[0].value = [name \in {} |-> None] /\ FirstNames(L, 0) = {}
      BY <1>2 DEF ParseStart, FirstNames
    <3>2. QED BY <3>1
  <2>2. ASSUME NEW i \in Nat, i \in Held, i + 1 <= n
        PROVE  Holds(i + 1)
    <3> DEFINE v == got[i].value
               w == got[i + 1].value
               x == taken[i + 1].value
               name == L[i + 1].name
    <3>1. i + 1 \in 1 .. n /\ (i + 1) - 1 = i
      BY <1>1, <2>2
    <3>2. w = WithField(v, name, x)
      BY <1>5, <3>1
    <3>3. DOMAIN v = FirstNames(L, i) /\ \A j \in 1 .. i : v[L[j].name] = taken[j].value
      <4>1. i <= n
        BY <1>1, <2>2
      <4>2. Holds(i)
        BY <2>2, <4>1
      <4>3. QED BY <4>2
    <3>4. FirstNames(L, i + 1) = FirstNames(L, i) \cup {name}
      <4>1. \A j : j \in 1 .. i + 1 <=> j \in 1 .. i \/ j = i + 1
        BY <2>2
      <4>2. QED BY <4>1 DEF FirstNames
    <3>5. \A j \in 1 .. i : L[j].name # name /\ L[j].name \in FirstNames(L, i)
      <4>1. \A j \in 1 .. i : j \in 1 .. n /\ j # i + 1
        BY <1>1, <3>1
      <4>2. QED BY <1>1, <3>1, <4>1 DEF NamesDiffer, FirstNames, n
    <3> HIDE DEF v, w, x, name
    <3>6. w = [other \in FirstNames(L, i + 1) |-> IF other = name THEN x ELSE v[other]]
      BY <3>2, <3>3, <3>4 DEF WithField
    <3>7. \A j \in 1 .. i : w[L[j].name] = taken[j].value
      BY <3>3, <3>4, <3>5, <3>6
    <3>8. w[name] = x
      BY <3>4, <3>6
    <3>9. \A j \in 1 .. i + 1 : w[L[j].name] = taken[j].value
      <4>1. \A j : j \in 1 .. i + 1 <=> j \in 1 .. i \/ j = i + 1
        BY <2>2
      <4>2. QED BY <3>7, <3>8, <4>1 DEF name, x
    <3>10. DOMAIN w = FirstNames(L, i + 1) /\ w = [other \in FirstNames(L, i + 1) |-> w[other]]
      BY <3>6
    <3>11. QED BY <3>9, <3>10 DEF w
  <2>3. \A i \in Nat : i \in Held => i + 1 \in Held
    BY <2>2
  <2> HIDE DEF Held
  <2>4. Nat \subseteq Held
    BY <2>1, <2>3, Induction
  <2> HIDE DEF Holds
  <2>5. QED BY <1>1, <2>4 DEF Held
<1>7. /\ r = [name \in NamesOf(typ) |-> r[name]]
      /\ \A j \in 1 .. n : r[L[j].name] = taken[j].value
  <2>1. Holds(n) /\ r = got[n].value
    BY <1>1, <1>2, <1>6 DEF r
  <2>2. NamesOf(typ) = FirstNames(L, n)
    BY <1>1 DEF NamesOf, FirstNames, FieldsTyped, L, n
  <2>3. QED BY <2>1, <2>2
\* What is looked for is the same by the values in the end.
<1>8. ASSUME NEW i \in 1 .. n
      PROVE  /\ \A rest : Sought(L[i], got[i - 1].value, rest) = Sought(L[i], r, rest)
             /\ Missing(L[i], got[i - 1].value) = Missing(L[i], r)
  <2>1. ASSUME NEW name \in Consults(L[i])
        PROVE  got[i - 1].value[name] = r[name]
    <3>1. PICK j \in 1 .. i - 1 : L[j].name = name
      BY <1>1, <2>1 DEF ConsultsEarlier, n
    <3>2. j \in 1 .. n /\ i - 1 \in 0 .. n
      BY <1>1
    <3>3. got[i - 1].value[L[j].name] = taken[j].value
      BY <1>6, <3>2
    <3>4. QED BY <1>7, <3>1, <3>2, <3>3
  <2>2. \A name \in Consults(L[i]) : got[i - 1].value[name] = r[name]
    BY <2>1
  <2> DEFINE field == L[i]
             s == got[i - 1].value
  <2>3. \A name \in Consults(field) : s[name] = r[name]
    BY <2>2
  <2> HIDE DEF field, s
  <2>4. \A rest : Sought(field, s, rest) = Sought(field, r, rest) /\ Missing(field, s) = Missing(field, r)
    BY <2>3, SoughtFrom
  <2>5. QED BY <2>4 DEF field, s
<1> HIDE DEF Holds
<1> DEFINE p == [i \in 0 .. n |-> Len(file) - Len(got[i].rest)]
           At(i) == p[i] \in 0 .. Len(file) /\ got[i].rest = Behind(file, p[i])
<1>9. ASSUME NEW i \in 0 .. n, NEW end \in 0 .. Len(file), got[i].rest = Behind(file, end)
      PROVE  At(i) /\ p[i] = end
  BY <1>9, BehindEnds
<1>10. At(0) /\ p[0] = 0
  <2>1. got[0].rest = file /\ Behind(file, 0) = file /\ 0 \in 0 .. Len(file) /\ 0 \in 0 .. n
    BY <1>1, <1>2, SubSeqFull DEF ParseStart, Behind
  <2> HIDE DEF p
  <2>2. QED BY <1>9, <2>1
<1>11. ASSUME NEW i \in 1 .. n, At(i - 1)
       PROVE  /\ At(i)
              /\ IF Sought(L[i], r, Behind(file, p[i - 1]))
                 THEN Read(L[i].kind, Behind(file, p[i - 1])) = Got(r[L[i].name], file, p[i])
                 ELSE r[L[i].name] = Missing(L[i], r) /\ p[i] = p[i - 1]
  <2> DEFINE at == p[i - 1]
             rest == Behind(file, at)
             field == L[i]
  <2>1. at \in 0 .. Len(file) /\ got[i - 1].rest = rest /\ i \in 0 .. n
    BY <1>11
  <2>2. Sought(field, got[i - 1].value, rest) = Sought(field, r, rest)
        /\ Missing(field, got[i - 1].value) = Missing(field, r)
    BY <1>8
  <2>3. field.kind \in Kinds
    BY <1>1 DEF FieldsTyped, n
  <2> HIDE DEF p, At, at, rest, field
  <2>4. taken[i].ok /\ taken[i] = Takes(field, got[i - 1]) /\ got[i].rest = taken[i].rest
        /\ r[field.name] = taken[i].value
    BY <1>5, <1>7 DEF field
  <2>5. CASE Sought(field, r, rest)
    <3>1. taken[i] = Read(field.kind, rest)
      BY <2>1, <2>2, <2>4, <2>5 DEF Takes
    <3>2. Read(field.kind, Behind(file, at)).ok
      BY <2>4, <3>1 DEF rest
    <3>3. PICK end \in at .. Len(file), value \in Values(field.kind) :
            Read(field.kind, Behind(file, at)) = Got(value, file, end)
      BY <2>1, <2>3, <3>2, ReadsExactly
    <3>4. taken[i].value = value /\ taken[i].rest = Behind(file, end)
      BY <3>1, <3>3 DEF Got, rest
    <3>5. end \in 0 .. Len(file)
      BY <2>1
    <3>6. At(i) /\ p[i] = end
      BY <1>9, <2>1, <2>4, <3>4, <3>5
    <3>7. QED BY <2>4, <2>5, <3>3, <3>4, <3>6 DEF rest, at, field
  <2>6. CASE ~Sought(field, r, rest)
    <3>1. taken[i] = [ok |-> TRUE, value |-> Missing(field, r), rest |-> rest]
      BY <2>1, <2>2, <2>4, <2>6 DEF Takes
    <3>2. taken[i].value = Missing(field, r) /\ taken[i].rest = Behind(file, at)
      BY <3>1 DEF rest
    <3>3. At(i) /\ p[i] = at
      BY <1>9, <2>1, <2>4, <3>2
    <3>4. QED BY <2>4, <2>6, <3>2, <3>3 DEF rest, at, field
  <2>7. QED BY <2>5, <2>6
<1> HIDE DEF p, At
<1>12. \A i \in 0 .. n : At(i)
  <2> DEFINE Ats == {i \in Nat : i <= n => At(i)}
  <2>1. 0 \in Ats
    BY <1>10
  <2>2. ASSUME NEW i \in Nat, i \in Ats, i + 1 <= n
        PROVE  At(i + 1)
    <3>1. i + 1 \in 1 .. n /\ (i + 1) - 1 = i /\ At(i)
      BY <1>1, <2>2
    <3>2. QED BY <1>11, <3>1
  <2>3. \A i \in Nat : i \in Ats => i + 1 \in Ats
    BY <2>2
  <2> HIDE DEF Ats
  <2>4. Nat \subseteq Ats
    BY <2>1, <2>3, Induction
  <2>5. QED BY <1>1, <2>4 DEF Ats
<1>13. \A i \in 0 .. n : p[i] \in 0 .. Len(file)
  BY <1>12 DEF At
<1>14. \A i \in 1 .. n :
         IF Sought(L[i], r, Behind(file, p[i - 1]))
         THEN Read(L[i].kind, Behind(file, p[i - 1])) = Got(r[L[i].name], file, p[i])
         ELSE r[L[i].name] = Missing(L[i], r) /\ p[i] = p[i - 1]
  <2>1. \A i \in 1 .. n : i - 1 \in 0 .. n
    BY <1>1
  <2>2. QED BY <1>11, <1>12, <2>1
<1>15. Parses(typ, file, p, r)
  BY <1>7, <1>10, <1>13, <1>14 DEF Parses, L, n
<1>16. QED BY <1>15 DEF r

\* What is parsed Record::parse accepts.
LEMMA OkIfParses ==
  ASSUME NEW typ \in Types, NEW file \in Seq(Byte), NEW p, NEW r, Parses(typ, file, p, r)
  PROVE  Parse(typ, file).ok /\ Parse(typ, file).value = r
<1> DEFINE L == Layout[typ]
           n == Len(L)
<1>1. n \in Nat /\ NamesDiffer(L) /\ FieldsTyped(L) /\ ConsultsEarlier(L)
  BY LayoutsStand DEF FieldsTyped
<1>2. PICK got :
        /\ Parse(typ, file) = got[n]
        /\ got[0] = ParseStart(file)
        /\ \A i \in 1 .. n :
             LET taken == Takes(L[i], got[i - 1])
             IN got[i] = IF ~got[i - 1].ok \/ ~taken.ok THEN Eof
                         ELSE [ok |-> TRUE, rest |-> taken.rest,
                               value |-> WithField(got[i - 1].value, L[i].name, taken.value)]
  BY ParseIs, Zenon
<1>3. /\ r = [name \in NamesOf(typ) |-> r[name]]
      /\ p[0] = 0
      /\ \A i \in 1 .. n :
           IF Sought(L[i], r, Behind(file, p[i - 1]))
           THEN Read(L[i].kind, Behind(file, p[i - 1])) = Got(r[L[i].name], file, p[i])
           ELSE r[L[i].name] = Missing(L[i], r) /\ p[i] = p[i - 1]
  BY Zenon DEF Parses
<1>4. NamesOf(typ) = FirstNames(L, n)
  BY <1>1 DEF NamesOf, FirstNames, FieldsTyped
<1> HIDE DEF n, L
<1> DEFINE Right(i) == /\ got[i].ok /\ got[i].rest = Behind(file, p[i])
                       /\ got[i].value = [name \in FirstNames(L, i) |-> r[name]]
           Done == {i \in Nat : i <= n => Right(i)}
<1>5. 0 \in Done
  <2>1. FirstNames(L, 0) = {}
    BY DEF FirstNames
  <2>2. Behind(file, 0) = file
    BY SubSeqFull DEF Behind
  <2>3. got[0].ok /\ got[0].rest = file /\ got[0].value = [name \in {} |-> None]
    BY <1>2 DEF ParseStart
  <2>4. [name \in {} |-> None] = [name \in {} |-> r[name]]
    OBVIOUS
  <2>5. Right(0)
    BY <1>3, <2>1, <2>2, <2>3, <2>4
  <2>6. QED BY <2>5
<1>6. ASSUME NEW k \in Nat, k \in Done, k + 1 <= n
      PROVE  Right(k + 1)
  <2> DEFINE i == k + 1
             field == L[i]
             rest == Behind(file, p[k])
             v == got[k].value
             taken == Takes(field, got[k])
  <2>1. i \in 1 .. n /\ i - 1 = k /\ k <= n
    BY <1>1, <1>6
  <2>2. Right(k)
    BY <1>6, <2>1
  <2>3. got[k].ok /\ got[k].rest = rest /\ v = [name \in FirstNames(L, k) |-> r[name]]
    BY <2>2
  <2>4. ASSUME NEW name \in Consults(field)
        PROVE  v[name] = r[name]
    <3>1. PICK j \in 1 .. i - 1 : L[j].name = name
      BY <1>1, <2>1, <2>4 DEF ConsultsEarlier, n
    <3>2. name \in FirstNames(L, k)
      BY <2>1, <3>1 DEF FirstNames
    <3> HIDE DEF v
    <3>3. QED BY <2>3, <3>2
  <2>5. IF Sought(field, r, rest) THEN Read(field.kind, rest) = Got(r[field.name], file, p[i])
        ELSE r[field.name] = Missing(field, r) /\ p[i] = p[k]
    <3>1. IF Sought(L[i], r, Behind(file, p[i - 1]))
          THEN Read(L[i].kind, Behind(file, p[i - 1])) = Got(r[L[i].name], file, p[i])
          ELSE r[L[i].name] = Missing(L[i], r) /\ p[i] = p[i - 1]
      BY <1>3, <2>1
    <3>2. QED BY <2>1, <3>1
  <2>6. got[i] = IF ~got[k].ok \/ ~taken.ok THEN Eof
                 ELSE [ok |-> TRUE, rest |-> taken.rest, value |-> WithField(v, field.name, taken.value)]
    <3>1. got[i] = IF ~got[i - 1].ok \/ ~Takes(L[i], got[i - 1]).ok THEN Eof
                   ELSE [ok |-> TRUE, rest |-> Takes(L[i], got[i - 1]).rest,
                         value |-> WithField(got[i - 1].value, L[i].name, Takes(L[i], got[i - 1]).value)]
      BY <1>2, <2>1, Zenon
    <3>2. QED BY <2>1, <3>1
  <2>7. taken = IF Sought(field, v, rest) THEN Read(field.kind, rest)
                ELSE [ok |-> TRUE, value |-> Missing(field, v), rest |-> rest]
    BY <2>3 DEF Takes
  <2> HIDE DEF i, v, field, taken
  <2>8. Sought(field, v, rest) = Sought(field, r, rest) /\ Missing(field, v) = Missing(field, r)
    BY <2>4, SoughtFrom
  <2>9. taken.ok /\ taken.value = r[field.name] /\ taken.rest = Behind(file, p[i])
    <3>1. CASE Sought(field, r, rest)
      BY <2>5, <2>7, <2>8, <3>1 DEF Got
    <3>2. CASE ~Sought(field, r, rest)
      <4>1. taken = [ok |-> TRUE, value |-> r[field.name], rest |-> Behind(file, p[i])]
        BY <2>5, <2>7, <2>8, <3>2
      <4>2. QED BY <4>1
    <3>3. QED BY <3>1, <3>2
  <2>10. WithField(v, field.name, r[field.name]) = [name \in FirstNames(L, i) |-> r[name]]
    <3>1. DOMAIN v = FirstNames(L, k)
      BY <2>3
    <3>2. FirstNames(L, i) = FirstNames(L, k) \cup {field.name}
      <4>1. \A j : j \in 1 .. k + 1 <=> j \in 1 .. k \/ j = k + 1
        BY <1>6
      <4>2. QED BY <4>1 DEF FirstNames, i, field
    <3>3. QED BY <2>3, <3>1, <3>2 DEF WithField
  <2>11. got[i] = [ok |-> TRUE, rest |-> Behind(file, p[i]), value |-> [name \in FirstNames(L, i) |-> r[name]]]
    BY <2>3, <2>6, <2>9, <2>10
  <2>12. got[i].ok /\ got[i].rest = Behind(file, p[i]) /\ got[i].value = [name \in FirstNames(L, i) |-> r[name]]
    BY <2>11
  <2>13. QED BY <2>12 DEF i
<1>7. \A i \in Nat : i \in Done => i + 1 \in Done
  BY <1>6
<1> HIDE DEF Done
<1>8. Nat \subseteq Done
  BY <1>5, <1>7, Induction
<1>9. Right(n)
  BY <1>1, <1>8 DEF Done
<1>10. QED BY <1>2, <1>3, <1>4, <1>9

----------------------------------------------------------------------------
(* What has been parsed                                                    *)

\* What has been parsed for one field.
LEMMA ParsesField ==
  ASSUME NEW typ \in Types, NEW file, NEW p, NEW r, Parses(typ, file, p, r),
         NEW i \in 1 .. Len(Layout[typ])
  PROVE  LET field == Layout[typ][i]
             rest == Behind(file, p[i - 1])
         IN /\ p[i] \in 0 .. Len(file) /\ p[i - 1] \in 0 .. Len(file)
            /\ Sought(field, r, rest) => Read(field.kind, rest) = Got(r[field.name], file, p[i])
            /\ ~Sought(field, r, rest) => r[field.name] = Missing(field, r) /\ p[i] = p[i - 1]
            /\ field.kind \in Kinds
<1>1. Len(Layout[typ]) \in Nat /\ FieldsTyped(Layout[typ])
  BY LayoutsStand DEF FieldsTyped
<1>2. i \in 0 .. Len(Layout[typ]) /\ i - 1 \in 0 .. Len(Layout[typ])
  BY <1>1
<1>3. \A j \in 0 .. Len(Layout[typ]) : p[j] \in 0 .. Len(file)
  BY Zenon DEF Parses
<1>4. IF Sought(Layout[typ][i], r, Behind(file, p[i - 1]))
      THEN Read(Layout[typ][i].kind, Behind(file, p[i - 1])) = Got(r[Layout[typ][i].name], file, p[i])
      ELSE r[Layout[typ][i].name] = Missing(Layout[typ][i], r) /\ p[i] = p[i - 1]
  BY Zenon DEF Parses
<1>5. QED BY <1>1, <1>2, <1>3, <1>4 DEF FieldsTyped

\* What has been looked for is a value of its kind, and lies in a body without
\* foreign bytes as it would be written.
LEMMA SoughtTyped ==
  ASSUME NEW typ \in Types, NEW file \in Seq(Byte), NEW p, NEW r, Parses(typ, file, p, r),
         NEW i \in 1 .. Len(Layout[typ]), Sought(Layout[typ][i], r, Behind(file, p[i - 1]))
  PROVE  LET field == Layout[typ][i]
             value == r[field.name]
         IN /\ value \in Values(field.kind)
            /\ p[i] \in p[i - 1] .. Len(file)
            /\ IsUtf8(file) /\ Len(file) < LengthMod =>
                 /\ Fits(field.kind, value)
                 /\ Lies(Write(field.kind, value), file, p[i - 1])
                 /\ p[i] = p[i - 1] + Len(Write(field.kind, value))
<1> DEFINE field == Layout[typ][i]
           value == r[field.name]
           at == p[i - 1]
<1>1. /\ p[i] \in 0 .. Len(file) /\ at \in 0 .. Len(file) /\ field.kind \in Kinds
      /\ Read(field.kind, Behind(file, at)) = Got(value, file, p[i])
  BY ParsesField
<1>2. Read(field.kind, Behind(file, at)).ok
  BY <1>1 DEF Got
<1> HIDE DEF field, value, at
<1>3. PICK end \in at .. Len(file), v \in Values(field.kind) :
        /\ Read(field.kind, Behind(file, at)) = Got(v, file, end)
        /\ IsUtf8(file) /\ Len(file) < LengthMod =>
             /\ Fits(field.kind, v)
             /\ Lies(Write(field.kind, v), file, at)
             /\ end = at + Len(Write(field.kind, v))
  BY <1>1, <1>2, ReadsExactly
<1>4. end \in 0 .. Len(file)
  BY <1>1
<1>5. v = value /\ end = p[i]
  BY <1>1, <1>3, <1>4, GotOnce
<1>6. QED BY <1>3, <1>5 DEF field, value, at

\* A value of an option is not None.
LEMMA OptionsAreSome ==
  ASSUME NEW kind \in {"U1", "I1", "R4", "Cn", "Nn"}
  PROVE  None \notin Values(kind)
<1>1. CASE kind \in {"U1", "I1", "R4"}
  <2>1. Values(kind) = [1 .. Width(kind) -> Byte] /\ Width(kind) \in Nat
    BY <1>1, NumberIs DEF Numeric
  <2>2. [1 .. Width(kind) -> Byte] \subseteq Seq(Byte)
    BY <2>1, SeqDef
  <2>3. QED BY <2>1, <2>2, NoneAssumption
<1>2. CASE kind \in {"Cn", "Nn"}
  <2>1. Values(kind) = Texts
    BY <1>2 DEF Values, Texts
  <2>2. QED BY <2>1, TextIsBytes, NoneAssumption
<1>3. QED BY <1>1, <1>2

\* The i-th field is looked for.
Looks(typ, file, p, r, i) == Sought(Layout[typ][i], r, Behind(file, p[i - 1]))

\* When one is.
LEMMA SoughtIs ==
  ASSUME NEW field, NEW r, NEW rest
  PROVE  /\ field.when = "always" => Sought(field, r, rest)
         /\ field.when = "pair" /\ field.name = "site_num" =>
              (Sought(field, r, rest) <=> r.head_num # None)
         /\ field.when = "pair" /\ field.name # "site_num" => (Sought(field, r, rest) <=> rest # <<>>)
         /\ field.when = "more" => (Sought(field, r, rest) <=> rest # <<>>)
         /\ field.when = "parm" =>
              (Sought(field, r, rest) <=> rest # <<>> /\ Bit(r.parm_flg, field.bit))
         /\ field.when = "unless" =>
              (Sought(field, r, rest) <=>
                 rest # <<>> /\ r.opt_flg # None /\ ~Bit(r.opt_flg, field.bit))
         /\ field.when = "alarm" =>
              (Sought(field, r, rest) <=> rest # <<>> /\ Bit(r.opt_flg, field.bit))
         /\ field.when = "flg2" => (Sought(field, r, rest) <=> rest # <<>> /\ r.alarm_id # None)
         /\ field.when = "ftr" =>
              (Sought(field, r, rest) <=>
                 rest # <<>> /\ r.alarm_id # None /\ ~Bit(r.opt_flg_2, field.bit))
<1>1. field.when = "always" => Sought(field, r, rest)
  BY DEF Sought
<1>2. field.when = "pair" /\ field.name = "site_num" =>
              (Sought(field, r, rest) <=> r.head_num # None)
  BY DEF Sought
<1>3. field.when = "pair" /\ field.name # "site_num" => (Sought(field, r, rest) <=> rest # <<>>)
  BY DEF Sought
<1>4. field.when = "more" => (Sought(field, r, rest) <=> rest # <<>>)
  BY DEF Sought
<1>5. field.when = "parm" =>
              (Sought(field, r, rest) <=> rest # <<>> /\ Bit(r.parm_flg, field.bit))
  BY DEF Sought
<1>6. field.when = "unless" =>
              (Sought(field, r, rest) <=>
                 rest # <<>> /\ r.opt_flg # None /\ ~Bit(r.opt_flg, field.bit))
  BY DEF Sought
<1>7. field.when = "alarm" =>
              (Sought(field, r, rest) <=> rest # <<>> /\ Bit(r.opt_flg, field.bit))
  BY DEF Sought
<1>8. field.when = "flg2" => (Sought(field, r, rest) <=> rest # <<>> /\ r.alarm_id # None)
  BY DEF Sought
<1>9. field.when = "ftr" =>
              (Sought(field, r, rest) <=>
                 rest # <<>> /\ r.alarm_id # None /\ ~Bit(r.opt_flg_2, field.bit))
  BY DEF Sought
<1>10. QED BY <1>1, <1>2, <1>3, <1>4, <1>5, <1>6, <1>7, <1>8, <1>9

\* The options that have been parsed.
LEMMA PmrParsed ==
  ASSUME NEW file \in Seq(Byte), NEW p, NEW r, Parses("Pmr", file, p, r)
  PROVE  /\ Looks("Pmr", file, p, r, 6) <=> r.head_num # None
         /\ Looks("Pmr", file, p, r, 7) <=> r.site_num # None
         /\ r.head_num = None <=> r.site_num = None
<1>1. /\ Len(Layout.Pmr) = 7
      /\ Layout.Pmr[6] = Field("head_num", "U1", "pair", 0)
      /\ Layout.Pmr[7] = Field("site_num", "U1", "pair", 0)
  BY PmrFields
<1>2. "Pmr" \in Types
  BY DEF Types, Layout
<1>3. Looks("Pmr", file, p, r, 6) <=> r.head_num # None
  <2>1. ASSUME Looks("Pmr", file, p, r, 6) PROVE r.head_num # None
    <3>1. r[Layout.Pmr[6].name] \in Values(Layout.Pmr[6].kind)
      BY <1>1, <1>2, <2>1, SoughtTyped DEF Looks
    <3>2. QED BY <1>1, <3>1, OptionsAreSome DEF Field
  <2>2. ASSUME ~Looks("Pmr", file, p, r, 6) PROVE r.head_num = None
    <3>1. r[Layout.Pmr[6].name] = Missing(Layout.Pmr[6], r)
      BY <1>1, <1>2, <2>2, ParsesField DEF Looks
    <3>2. QED BY <1>1, <3>1 DEF Field, Missing
  <2>3. QED BY <2>1, <2>2
<1>4. Looks("Pmr", file, p, r, 7) <=> r.site_num # None
  <2>1. ASSUME Looks("Pmr", file, p, r, 7) PROVE r.site_num # None
    <3>1. r[Layout.Pmr[7].name] \in Values(Layout.Pmr[7].kind)
      BY <1>1, <1>2, <2>1, SoughtTyped DEF Looks
    <3>2. QED BY <1>1, <3>1, OptionsAreSome DEF Field
  <2>2. ASSUME ~Looks("Pmr", file, p, r, 7) PROVE r.site_num = None
    <3>1. r[Layout.Pmr[7].name] = Missing(Layout.Pmr[7], r)
      BY <1>1, <1>2, <2>2, ParsesField DEF Looks
    <3>2. QED BY <1>1, <3>1 DEF Field, Missing
  <2>3. QED BY <2>1, <2>2
<1>5. Looks("Pmr", file, p, r, 7) <=> r.head_num # None
  BY <1>1, SoughtIs DEF Looks, Field
<1>6. QED BY <1>3, <1>4, <1>5

\* The options of a PTR that has been parsed.
LEMMA PtrParsed ==
  ASSUME NEW file \in Seq(Byte), NEW p, NEW r, Parses("Ptr", file, p, r)
  PROVE  /\ Looks("Ptr", file, p, r, 9) <=> r.opt_flg # None
         /\ Looks("Ptr", file, p, r, 9) <=> Behind(file, p[8]) # <<>> /\ Bit(r.parm_flg, 16)
         /\ \A i \in 10 .. 14 :
              LET field == Layout.Ptr[i]
              IN /\ Looks("Ptr", file, p, r, i) <=> r[field.name] # None
                 /\ Looks("Ptr", file, p, r, i) <=>
                      Behind(file, p[i - 1]) # <<>> /\ r.opt_flg # None /\ ~Bit(r.opt_flg, field.bit)
<1>1. Len(Layout.Ptr) = 15 /\ Layout.Ptr[9] = Field("opt_flg", "U1", "parm", 16)
  BY PtrFields
<1>7. \A i \in 10 .. 14 : Layout.Ptr[i] = PtrOptions[i - 9] /\ Layout.Ptr[i].when = "unless"
  BY PtrFields
<1>2. "Ptr" \in Types
  BY DEF Types, Layout
<1>3. Looks("Ptr", file, p, r, 9) <=> r.opt_flg # None
  <2>1. ASSUME Looks("Ptr", file, p, r, 9) PROVE r.opt_flg # None
    <3>1. r[Layout.Ptr[9].name] \in Values(Layout.Ptr[9].kind)
      BY <1>1, <1>2, <2>1, SoughtTyped DEF Looks
    <3>2. QED BY <1>1, <3>1, OptionsAreSome DEF Field
  <2>2. ASSUME ~Looks("Ptr", file, p, r, 9) PROVE r.opt_flg = None
    <3>1. r[Layout.Ptr[9].name] = Missing(Layout.Ptr[9], r)
      BY <1>1, <1>2, <2>2, ParsesField DEF Looks
    <3>2. QED BY <1>1, <3>1 DEF Field, Missing
  <2>3. QED BY <2>1, <2>2
<1>4. Looks("Ptr", file, p, r, 9) <=> Behind(file, p[8]) # <<>> /\ Bit(r.parm_flg, 16)
  BY <1>1, SoughtIs DEF Looks, Field
<1>5. ASSUME NEW i \in 10 .. 14
      PROVE  LET field == Layout.Ptr[i]
             IN /\ Looks("Ptr", file, p, r, i) <=> r[field.name] # None
                /\ Looks("Ptr", file, p, r, i) <=>
                     Behind(file, p[i - 1]) # <<>> /\ r.opt_flg # None /\ ~Bit(r.opt_flg, field.bit)
  <2> DEFINE field == Layout.Ptr[i]
  <2>1. i \in 1 .. Len(Layout.Ptr) /\ field.when = "unless" /\ field = PtrOptions[i - 9]
    BY <1>1, <1>7
  <2>2. field.kind \in {"I1", "R4"}
    <3>1. \A x \in 1 .. 5 : PtrOptions[x].kind \in {"I1", "R4"}
      BY DEF PtrOptions, Field
    <3>2. i - 9 \in 1 .. 5
      OBVIOUS
    <3>3. QED BY <2>1, <3>1, <3>2
  <2>3. ASSUME Looks("Ptr", file, p, r, i) PROVE r[field.name] # None
    <3>1. r[field.name] \in Values(field.kind)
      BY <1>2, <2>1, <2>3, SoughtTyped DEF Looks
    <3>2. QED BY <2>2, <3>1, OptionsAreSome
  <2>4. ASSUME ~Looks("Ptr", file, p, r, i) PROVE r[field.name] = None
    <3>1. r[field.name] = Missing(field, r)
      BY <1>2, <2>1, <2>4, ParsesField DEF Looks
    <3>2. QED BY <2>1, <3>1 DEF Missing
  <2>5. Looks("Ptr", file, p, r, i) <=>
          Behind(file, p[i - 1]) # <<>> /\ r.opt_flg # None /\ ~Bit(r.opt_flg, field.bit)
    BY <2>1, SoughtIs DEF Looks
  <2>6. QED BY <2>3, <2>4, <2>5
<1>6. QED BY <1>3, <1>4, <1>5

\* The options of an FTR that has been parsed.
LEMMA FtrParsed ==
  ASSUME NEW file \in Seq(Byte), NEW p, NEW r, Parses("Ftr", file, p, r)
  PROVE  /\ Looks("Ftr", file, p, r, 19) <=> r.alarm_id # None
         /\ Looks("Ftr", file, p, r, 19) <=> Behind(file, p[18]) # <<>> /\ Bit(r.opt_flg, 1)
         /\ Looks("Ftr", file, p, r, 20) <=> Behind(file, p[19]) # <<>> /\ r.alarm_id # None
         /\ r.opt_flg_2 = None <=> r.alarm_id = None
         /\ ~Looks("Ftr", file, p, r, 20) /\ r.alarm_id # None => r.opt_flg_2 = <<0>>
         /\ Looks("Ftr", file, p, r, 21) <=> r.program # None
         /\ Looks("Ftr", file, p, r, 21) <=>
              Behind(file, p[20]) # <<>> /\ r.alarm_id # None /\ ~Bit(r.opt_flg_2, 2)
         /\ Looks("Ftr", file, p, r, 22) <=> r.test_label # None
         /\ Looks("Ftr", file, p, r, 22) <=>
              Behind(file, p[21]) # <<>> /\ r.alarm_id # None /\ ~Bit(r.opt_flg_2, 4)
<1> DEFINE L == Layout.Ftr
<1>1. /\ Len(L) = 22
      /\ L[19] = Field("alarm_id", "Cn", "alarm", 1) /\ L[20] = Field("opt_flg_2", "U1", "flg2", 0)
      /\ L[21] = Field("program", "Nn", "ftr", 2) /\ L[22] = Field("test_label", "Nn", "ftr", 4)
  BY FtrFields
<1>2. "Ftr" \in Types
  BY DEF Types, Layout
<1>3. \A i \in 19 .. 22 : L[i].kind \in {"U1", "Cn", "Nn"} /\ i \in 1 .. Len(L)
  BY <1>1 DEF Field
<1>4. ASSUME NEW i \in 19 .. 22, Looks("Ftr", file, p, r, i)
      PROVE  r[L[i].name] # None
  <2>1. r[L[i].name] \in Values(L[i].kind)
    BY <1>2, <1>3, <1>4, SoughtTyped DEF Looks
  <2>2. QED BY <1>3, <2>1, OptionsAreSome
<1>5. ASSUME NEW i \in 19 .. 22, ~Looks("Ftr", file, p, r, i)
      PROVE  r[L[i].name] = Missing(L[i], r)
  <2>1. i \in 1 .. Len(Layout["Ftr"]) /\ ~Sought(Layout["Ftr"][i], r, Behind(file, p[i - 1]))
    BY <1>3, <1>5 DEF Looks
  <2>2. r[Layout["Ftr"][i].name] = Missing(Layout["Ftr"][i], r)
    BY <1>2, <2>1, ParsesField
  <2>3. QED BY <2>2
<1>6. Looks("Ftr", file, p, r, 19) <=> r.alarm_id # None
  BY <1>1, <1>4, <1>5 DEF Field, Missing
<1>7. Looks("Ftr", file, p, r, 21) <=> r.program # None
  BY <1>1, <1>4, <1>5 DEF Field, Missing
<1>8. Looks("Ftr", file, p, r, 22) <=> r.test_label # None
  BY <1>1, <1>4, <1>5 DEF Field, Missing
<1>9. Looks("Ftr", file, p, r, 20) <=> Behind(file, p[19]) # <<>> /\ r.alarm_id # None
  BY <1>1, SoughtIs DEF Looks, Field
<1>10. /\ Looks("Ftr", file, p, r, 20) => r.opt_flg_2 # None
       /\ ~Looks("Ftr", file, p, r, 20) =>
            r.opt_flg_2 = IF r.alarm_id # None THEN <<0>> ELSE None
  BY <1>1, <1>4, <1>5 DEF Field, Missing
<1>11. <<0>> # None
  <2>1. <<0>> \in Seq(Byte)
    BY ByteIs
  <2>2. QED BY <2>1, NoneAssumption
<1>12. Looks("Ftr", file, p, r, 19) <=> Behind(file, p[18]) # <<>> /\ Bit(r.opt_flg, 1)
  BY <1>1, SoughtIs DEF Looks, Field
<1>13. Looks("Ftr", file, p, r, 21) <=>
         Behind(file, p[20]) # <<>> /\ r.alarm_id # None /\ ~Bit(r.opt_flg_2, 2)
  BY <1>1, SoughtIs DEF Looks, Field
<1>14. Looks("Ftr", file, p, r, 22) <=>
         Behind(file, p[21]) # <<>> /\ r.alarm_id # None /\ ~Bit(r.opt_flg_2, 4)
  BY <1>1, SoughtIs DEF Looks, Field
<1>15. r.opt_flg_2 = None <=> r.alarm_id = None
  BY <1>9, <1>10, <1>11
<1>16. QED BY <1>6, <1>7, <1>8, <1>9, <1>10, <1>12, <1>13, <1>14, <1>15

----------------------------------------------------------------------------
(* What is written                                                         *)

\* When a field is written, and as what.
LEMMA WrittenIs ==
  ASSUME NEW field, NEW r
  PROVE  /\ field.when \in {"always", "more"} => Written(field, r)
         /\ field.when = "pair" => (Written(field, r) <=> r.head_num # None /\ r.site_num # None)
         /\ field.when = "parm" => (Written(field, r) <=> r.opt_flg # None)
         /\ field.when = "unless" =>
              (Written(field, r) <=>
                 r.opt_flg # None /\ ~Bit(r.opt_flg, field.bit) /\ r[field.name] # None)
         /\ field.when \in {"alarm", "flg2"} => (Written(field, r) <=> r.alarm_id # None)
         /\ field.when = "ftr" =>
              (Written(field, r) <=>
                 /\ r.alarm_id # None /\ r[field.name] # None
                 /\ (r.opt_flg_2 = None \/ ~Bit(r.opt_flg_2, field.bit)))
         /\ field.when # "flg2" => ValueWritten(field, r) = r[field.name]
<1>1. field.when \in {"always", "more"} => Written(field, r)
  BY DEF Written
<1>2. field.when = "pair" => (Written(field, r) <=> r.head_num # None /\ r.site_num # None)
  BY DEF Written, OptionWritten
<1>3. field.when = "parm" => (Written(field, r) <=> r.opt_flg # None)
  BY DEF Written, OptionWritten
<1>4. field.when = "unless" =>
        (Written(field, r) <=>
           r.opt_flg # None /\ ~Bit(r.opt_flg, field.bit) /\ r[field.name] # None)
  BY DEF Written, OptionWritten
<1>5. field.when \in {"alarm", "flg2"} => (Written(field, r) <=> r.alarm_id # None)
  BY DEF Written, OptionWritten
<1>6. field.when = "ftr" =>
        (Written(field, r) <=>
           /\ r.alarm_id # None /\ r[field.name] # None
           /\ (r.opt_flg_2 = None \/ ~Bit(r.opt_flg_2, field.bit)))
  BY DEF Written, OptionWritten
<1>7. field.when # "flg2" => ValueWritten(field, r) = r[field.name]
  BY DEF ValueWritten
<1>8. QED BY <1>1, <1>2, <1>3, <1>4, <1>5, <1>6, <1>7

\* Where the options stand.
LEMMA PmrPlaces ==
  ASSUME NEW i \in 1 .. Len(Layout["Pmr"])
  PROVE  LET field == Layout["Pmr"][i]
         IN \/ i \in 1 .. 5 /\ field.when = "always"
            \/ i \in 6 .. 7 /\ field.when = "pair" /\ field.name \in {"head_num", "site_num"}
<1> DEFINE L == Layout.Pmr
<1>1. Len(L) = 7
  BY PmrFields
<1>2. \A j \in 1 .. 5 : L[j].when = "always"
  BY PmrFields
<1>3. L[6] = Field("head_num", "U1", "pair", 0) /\ L[7] = Field("site_num", "U1", "pair", 0)
  BY PmrFields
<1>4. i \in 1 .. 7
  BY <1>1
<1> HIDE DEF L
<1>5. QED BY <1>2, <1>3, <1>4 DEF Field, L

\* Where those of a PTR stand.
LEMMA PtrPlaces ==
  ASSUME NEW i \in 1 .. Len(Layout["Ptr"])
  PROVE  LET field == Layout["Ptr"][i]
         IN \/ i \in 1 .. 8 /\ field.when = "always"
            \/ i = 9 /\ field.when = "parm" /\ field.name = "opt_flg"
            \/ i \in 10 .. 14 /\ field.when = "unless"
            \/ i = 15 /\ field.when = "more"
<1> DEFINE L == Layout.Ptr
<1>1. Len(L) = 15
  BY PtrFields
<1>2. \A j \in 1 .. 8 : L[j].when = "always"
  BY PtrFields
<1>3. L[9] = Field("opt_flg", "U1", "parm", 16) /\ L[15] = Field("units", "Cn", "more", 0)
  BY PtrFields
<1>4. \A j \in 10 .. 14 : L[j].when = "unless"
  BY PtrFields
<1>5. i \in 1 .. 15
  BY <1>1
<1>6. i \in 1 .. 8 \/ i = 9 \/ i \in 10 .. 14 \/ i = 15
  BY <1>5
<1> HIDE DEF L
<1>7. i \in 1 .. 8 => L[i].when = "always"
  BY <1>2, <1>3, <1>4 DEF Field
<1>8. i = 9 => L[i].when = "parm" /\ L[i].name = "opt_flg"
  BY <1>2, <1>3, <1>4 DEF Field
<1>9. i \in 10 .. 14 => L[i].when = "unless"
  BY <1>2, <1>3, <1>4 DEF Field
<1>10. i = 15 => L[i].when = "more"
  BY <1>2, <1>3, <1>4 DEF Field
<1>11. QED BY <1>6, <1>7, <1>8, <1>9, <1>10 DEF L

\* Where those of an FTR stand.
LEMMA FtrPlaces ==
  ASSUME NEW i \in 1 .. Len(Layout["Ftr"])
  PROVE  LET field == Layout["Ftr"][i]
         IN \/ i \in 1 .. 18 /\ field.when = "always"
            \/ i = 19 /\ field.when = "alarm" /\ field.name = "alarm_id"
            \/ i = 20 /\ field.when = "flg2" /\ field.name = "opt_flg_2" /\ field.kind = "U1"
            \/ i = 21 /\ field.when = "ftr" /\ field.name = "program" /\ field.bit = 2
            \/ i = 22 /\ field.when = "ftr" /\ field.name = "test_label" /\ field.bit = 4
<1> DEFINE L == Layout.Ftr
<1>1. Len(L) = 22
  BY FtrFields
<1>2. \A j \in 1 .. 18 : L[j].when = "always"
  BY FtrFields
<1>3. L[19] = Field("alarm_id", "Cn", "alarm", 1) /\ L[20] = Field("opt_flg_2", "U1", "flg2", 0)
  BY FtrFields
<1>4. L[21] = Field("program", "Nn", "ftr", 2) /\ L[22] = Field("test_label", "Nn", "ftr", 4)
  BY FtrFields
<1>5. i \in 1 .. 22
  BY <1>1
<1>6. i \in 1 .. 18 \/ i = 19 \/ i = 20 \/ i = 21 \/ i = 22
  BY <1>5
<1> HIDE DEF L
<1>7. i \in 1 .. 18 => L[i].when = "always"
  BY <1>2, <1>3, <1>4 DEF Field
<1>8. i = 19 => L[i].when = "alarm" /\ L[i].name = "alarm_id"
  BY <1>2, <1>3, <1>4 DEF Field
<1>9. i = 20 => L[i].when = "flg2" /\ L[i].name = "opt_flg_2" /\ L[i].kind = "U1"
  BY <1>2, <1>3, <1>4 DEF Field
<1>10. i = 21 => L[i].when = "ftr" /\ L[i].name = "program" /\ L[i].bit = 2
  BY <1>2, <1>3, <1>4 DEF Field
<1>11. i = 22 => L[i].when = "ftr" /\ L[i].name = "test_label" /\ L[i].bit = 4
  BY <1>2, <1>3, <1>4 DEF Field
<1>12. QED BY <1>6, <1>7, <1>8, <1>9, <1>10, <1>11 DEF L

\* What has been looked for is written, with the value it has.
LEMMA SoughtWritten ==
  ASSUME NEW typ \in Types, NEW file \in Seq(Byte), NEW p, NEW r, Parses(typ, file, p, r),
         NEW i \in 1 .. Len(Layout[typ]), Looks(typ, file, p, r, i)
  PROVE  /\ Written(Layout[typ][i], r)
         /\ ValueWritten(Layout[typ][i], r) = r[Layout[typ][i].name]
<1> DEFINE field == Layout[typ][i]
           Goal == Written(field, r) /\ ValueWritten(field, r) = r[field.name]
<1>1. CASE field.when \in {"always", "more"}
  BY <1>1, WrittenIs
<1>2. CASE typ = "Pmr"
  <2>1. \/ i \in 1 .. 5 /\ field.when = "always"
        \/ i \in 6 .. 7 /\ field.when = "pair"
    BY <1>2, PmrPlaces
  <2> HIDE DEF field
  <2>2. CASE i \in 6 .. 7
    <3>1. i = 6 \/ i = 7
      BY <2>2
    <3>2. r.head_num # None /\ r.site_num # None
      BY <1>2, <3>1, PmrParsed
    <3>3. field.when = "pair"
      BY <2>1, <2>2
    <3>4. QED BY <3>2, <3>3, WrittenIs DEF field
  <2>3. QED BY <1>1, <2>1, <2>2
<1>3. CASE typ = "Ptr"
  <2>1. \/ i \in 1 .. 8 /\ field.when = "always"
        \/ i = 9 /\ field.when = "parm"
        \/ i \in 10 .. 14 /\ field.when = "unless"
        \/ i = 15 /\ field.when = "more"
    BY <1>3, PtrPlaces
  <2>2. i = 9 => r.opt_flg # None
    BY <1>3, PtrParsed
  <2>3. i \in 10 .. 14 => r.opt_flg # None /\ ~Bit(r.opt_flg, field.bit) /\ r[field.name] # None
    BY <1>3, PtrParsed
  <2> HIDE DEF field
  <2>4. CASE i = 9 /\ field.when = "parm"
    BY <2>2, <2>4, WrittenIs DEF field
  <2>5. CASE i \in 10 .. 14 /\ field.when = "unless"
    BY <2>3, <2>5, WrittenIs DEF field
  <2>6. QED BY <1>1, <2>1, <2>4, <2>5
<1>4. CASE typ = "Ftr"
  <2>1. \/ i \in 1 .. 18 /\ field.when = "always"
        \/ i = 19 /\ field.when = "alarm"
        \/ i = 20 /\ field.when = "flg2" /\ field.name = "opt_flg_2" /\ field.kind = "U1"
        \/ i = 21 /\ field.when = "ftr" /\ field.name = "program" /\ field.bit = 2
        \/ i = 22 /\ field.when = "ftr" /\ field.name = "test_label" /\ field.bit = 4
    BY <1>4, FtrPlaces
  <2>2. /\ i = 19 => r.alarm_id # None
        /\ i = 20 => r.alarm_id # None /\ r.opt_flg_2 # None
        /\ i = 21 => r.alarm_id # None /\ r.program # None /\ ~Bit(r.opt_flg_2, 2)
        /\ i = 22 => r.alarm_id # None /\ r.test_label # None /\ ~Bit(r.opt_flg_2, 4)
    BY <1>4, FtrParsed
  <2> HIDE DEF field
  <2>3. CASE i = 19 /\ field.when = "alarm"
    BY <2>2, <2>3, WrittenIs DEF field
  <2>4. CASE i = 20 /\ field.when = "flg2" /\ field.name = "opt_flg_2"
    <3>1. Written(field, r)
      BY <2>2, <2>4, WrittenIs
    <3>2. ValueWritten(field, r) = r[field.name]
      BY <2>2, <2>4 DEF ValueWritten
    <3>3. QED BY <3>1, <3>2 DEF field
  <2>5. CASE i = 21 /\ field.when = "ftr" /\ field.name = "program" /\ field.bit = 2
    BY <2>2, <2>5, WrittenIs DEF field
  <2>6. CASE i = 22 /\ field.when = "ftr" /\ field.name = "test_label" /\ field.bit = 4
    BY <2>2, <2>6, WrittenIs DEF field
  <2>7. QED BY <1>1, <2>1, <2>3, <2>4, <2>5, <2>6
<1>5. CASE typ \notin {"Pmr", "Ptr", "Ftr"}
  BY <1>1, <1>5, PlainTypes DEF PlainFields
<1>6. QED BY <1>2, <1>3, <1>4, <1>5

\* What has not been looked for is not written, or a body ends before it and
\* it is a zero.
LEMMA UnsoughtWritten ==
  ASSUME NEW typ \in Types, NEW file \in Seq(Byte), NEW p, NEW r, Parses(typ, file, p, r),
         NEW i \in 1 .. Len(Layout[typ]), ~Looks(typ, file, p, r, i), Written(Layout[typ][i], r)
  PROVE  /\ Layout[typ][i].when \in {"more", "flg2"}
         /\ Behind(file, p[i - 1]) = <<>>
         /\ FieldBytes(Layout[typ][i], r) = <<0>>
         /\ Fits(Layout[typ][i].kind, ValueWritten(Layout[typ][i], r))
<1> DEFINE field == Layout[typ][i]
           rest == Behind(file, p[i - 1])
           Goal == /\ field.when \in {"more", "flg2"} /\ rest = <<>> /\ FieldBytes(field, r) = <<0>>
                   /\ Fits(field.kind, ValueWritten(field, r))
<1>1. field.when # "always"
  BY SoughtIs DEF Looks
<1>2. CASE field.when = "more"
  <2>1. rest = <<>>
    BY <1>2, SoughtIs DEF Looks
  <2>2. field.kind = "Cn"
    BY <1>2, LayoutsStand DEF FieldsTyped
  <2>3. r[field.name] = <<>>
    <3>1. r[field.name] = Missing(field, r)
      BY ParsesField DEF Looks
    <3>2. QED BY <1>2, <3>1 DEF Missing
  <2>4. ValueWritten(field, r) = <<>>
    BY <1>2, <2>3, WrittenIs
  <2>5. Write("Cn", <<>>) = <<0>> /\ Fits("Cn", <<>>)
    BY DEF Write, Fits, ByteMod
  <2>6. QED BY <1>2, <2>1, <2>2, <2>4, <2>5 DEF FieldBytes
<1>3. CASE typ = "Pmr"
  <2>1. \/ i \in 1 .. 5 /\ field.when = "always"
        \/ i \in 6 .. 7 /\ field.when = "pair"
    BY <1>3, PmrPlaces
  <2> HIDE DEF field
  <2>2. CASE i \in 6 .. 7
    <3>1. i = 6 \/ i = 7
      BY <2>2
    <3>2. r.head_num = None
      BY <1>3, <3>1, PmrParsed
    <3>3. field.when = "pair"
      BY <2>1, <2>2
    <3>4. ~Written(field, r)
      BY <3>2, <3>3, WrittenIs
    <3>5. QED BY <3>4 DEF field
  <2>3. QED BY <1>1, <2>1, <2>2 DEF field
<1>4. CASE typ = "Ptr"
  <2>1. \/ i \in 1 .. 8 /\ field.when = "always"
        \/ i = 9 /\ field.when = "parm"
        \/ i \in 10 .. 14 /\ field.when = "unless"
        \/ i = 15 /\ field.when = "more"
    BY <1>4, PtrPlaces
  <2>2. i = 9 => r.opt_flg = None
    BY <1>4, PtrParsed
  <2>3. i \in 10 .. 14 => r[field.name] = None
    BY <1>4, PtrParsed
  <2>4. Written(field, r)
    OBVIOUS
  <2> HIDE DEF field
  <2>5. ~(i = 9 /\ field.when = "parm")
    BY <2>2, <2>4, WrittenIs
  <2>6. ~(i \in 10 .. 14 /\ field.when = "unless")
    BY <2>3, <2>4, WrittenIs
  <2>7. field.when = "always" \/ field.when = "more"
    BY <2>1, <2>5, <2>6
  <2>8. QED BY <1>1, <1>2, <2>7 DEF field
<1>5. CASE typ = "Ftr"
  <2>1. \/ i \in 1 .. 18 /\ field.when = "always"
        \/ i = 19 /\ field.when = "alarm"
        \/ i = 20 /\ field.when = "flg2" /\ field.name = "opt_flg_2" /\ field.kind = "U1"
        \/ i = 21 /\ field.when = "ftr" /\ field.name = "program" /\ field.bit = 2
        \/ i = 22 /\ field.when = "ftr" /\ field.name = "test_label" /\ field.bit = 4
    BY <1>5, FtrPlaces
  <2>2. /\ i = 19 => r.alarm_id = None
        /\ i = 20 => (r.alarm_id # None => r.opt_flg_2 = <<0>>)
        /\ i = 21 => r.program = None
        /\ i = 22 => r.test_label = None
    BY <1>5, FtrParsed
  <2>3. Written(field, r) /\ field.when # "always" /\ ~Sought(field, r, rest)
    BY <1>1 DEF Looks
  <2> HIDE DEF field, rest
  <2>4. ~(i = 19 /\ field.when = "alarm")
    BY <2>2, <2>3, WrittenIs
  <2>5. ~(i = 21 /\ field.when = "ftr" /\ field.name = "program")
    BY <2>2, <2>3, WrittenIs
  <2>6. ~(i = 22 /\ field.when = "ftr" /\ field.name = "test_label")
    BY <2>2, <2>3, WrittenIs
  <2>7. i = 20 /\ field.when = "flg2" /\ field.name = "opt_flg_2" /\ field.kind = "U1"
    BY <2>1, <2>3, <2>4, <2>5, <2>6
  <2>8. r.alarm_id # None
    BY <2>3, <2>7, WrittenIs
  <2>9. rest = <<>>
    BY <2>3, <2>7, <2>8, SoughtIs
  <2>10. ValueWritten(field, r) = <<0>>
    BY <2>2, <2>7, <2>8 DEF ValueWritten
  <2>11. Write("U1", <<0>>) = <<0>> /\ Fits("U1", <<0>>)
    BY DEF Write, Fits
  <2>12. FieldBytes(field, r) = <<0>> /\ Fits(field.kind, ValueWritten(field, r))
    BY <2>3, <2>7, <2>10, <2>11 DEF FieldBytes
  <2>13. QED BY <2>7, <2>9, <2>12 DEF field, rest
<1>6. CASE typ \notin {"Pmr", "Ptr", "Ftr"}
  BY <1>1, <1>2, <1>6, PlainTypes DEF PlainFields
<1>7. QED BY <1>3, <1>4, <1>5, <1>6

\* What has been parsed is a record.
LEMMA ParsedIsRecord ==
  ASSUME NEW typ \in Types, NEW file \in Seq(Byte), NEW p, NEW r, Parses(typ, file, p, r)
  PROVE  IsRecord(typ, r)
<1>1. r = [name \in NamesOf(typ) |-> r[name]]
  BY Zenon DEF Parses
<1>2. DOMAIN Layout[typ] = 1 .. Len(Layout[typ]) /\ FieldsTyped(Layout[typ])
  BY LayoutsStand DEF FieldsTyped
<1>3. ASSUME NEW i \in 1 .. Len(Layout[typ])
      PROVE  LET field == Layout[typ][i]
             IN r[field.name] \in Values(field.kind) \/ (IsOption(field) /\ r[field.name] = None)
  <2> DEFINE field == Layout[typ][i]
  <2>1. CASE Looks(typ, file, p, r, i)
    BY <2>1, SoughtTyped DEF Looks
  <2>2. CASE ~Looks(typ, file, p, r, i)
    <3>1. r[field.name] = Missing(field, r) /\ field.when # "always"
      BY <2>2, ParsesField, SoughtIs DEF Looks
    <3>2. CASE field.when = "more"
      <4>1. field.kind = "Cn" /\ r[field.name] = <<>>
        BY <1>2, <3>1, <3>2 DEF FieldsTyped, Missing
      <4>2. <<>> \in Values("Cn")
        BY DEF Values
      <4>3. QED BY <4>1, <4>2
    <3>3. CASE field.when = "flg2" /\ r.alarm_id # None
      <4>1. field.kind = "U1" /\ r[field.name] = <<0>>
        BY <1>2, <3>1, <3>3 DEF FieldsTyped, Missing
      <4>2. Values("U1") = [1 .. 1 -> Byte] /\ 0 \in Byte
        BY ByteIs DEF Values, Width
      <4>3. <<0>> \in [1 .. 1 -> Byte]
        BY <4>2
      <4>4. QED BY <4>1, <4>2, <4>3
    <3>4. CASE field.when # "more" /\ ~(field.when = "flg2" /\ r.alarm_id # None)
      BY <3>1, <3>4 DEF Missing, IsOption
    <3>5. QED BY <3>2, <3>3, <3>4
  <2>3. QED BY <2>1, <2>2
<1>4. QED BY <1>1, <1>2, <1>3 DEF IsRecord

----------------------------------------------------------------------------
(* Record::encode, field by field                                          *)

\* What is written is a value of the field's kind.
LEMMA WrittenTyped ==
  ASSUME NEW typ \in Types, NEW r, IsRecord(typ, r),
         NEW i \in 1 .. Len(Layout[typ]), Written(Layout[typ][i], r)
  PROVE  ValueWritten(Layout[typ][i], r) \in Values(Layout[typ][i].kind)
<1> DEFINE field == Layout[typ][i]
<1>1. r[field.name] \in Values(field.kind) \/ (IsOption(field) /\ r[field.name] = None)
  BY LayoutsStand DEF IsRecord, FieldsTyped
<1>2. field.when = "flg2" => field.kind = "U1" /\ field.name = "opt_flg_2"
  BY LayoutsStand DEF FieldsTyped
<1>3. Written(field, r)
  OBVIOUS
<1>4. CASE field.when = "flg2"
  <2>1. Values("U1") = [1 .. 1 -> Byte] /\ 0 \in Byte
    BY ByteIs DEF Values, Width
  <2>2. <<0>> \in Values("U1")
    BY <2>1
  <2> HIDE DEF field
  <2>3. field.kind = "U1" /\ (r.opt_flg_2 \in Values("U1") \/ r.opt_flg_2 = None)
    BY <1>1, <1>2, <1>4
  <2>4. ValueWritten(field, r) = IF r.opt_flg_2 = None THEN <<0>> ELSE r.opt_flg_2
    BY <1>2, <1>4 DEF ValueWritten
  <2>5. QED BY <2>2, <2>3, <2>4 DEF field
<1>5. CASE field.when # "flg2" /\ r[field.name] # None
  BY <1>1, <1>5, WrittenIs
<1>6. CASE field.when # "flg2" /\ r[field.name] = None
  <2>1. CASE field.when \in {"always", "more"}
    BY <1>1, <1>6, <2>1, WrittenIs DEF IsOption
  <2>2. CASE typ = "Pmr"
    <3>1. \/ field.when = "always"
          \/ field.when = "pair" /\ field.name \in {"head_num", "site_num"}
      BY <2>2, PmrPlaces
    <3> HIDE DEF field
    <3>2. field.when # "pair"
      BY <1>3, <1>6, <3>1, WrittenIs
    <3>3. QED BY <2>1, <3>1, <3>2
  <2>3. CASE typ = "Ptr"
    <3>1. \/ field.when \in {"always", "more"}
          \/ field.when = "parm" /\ field.name = "opt_flg"
          \/ field.when = "unless"
      BY <2>3, PtrPlaces
    <3> HIDE DEF field
    <3>2. field.when # "parm" /\ field.when # "unless"
      BY <1>3, <1>6, <3>1, WrittenIs
    <3>3. QED BY <2>1, <3>1, <3>2
  <2>4. CASE typ = "Ftr"
    <3>1. \/ field.when = "always"
          \/ field.when = "alarm" /\ field.name = "alarm_id"
          \/ field.when = "flg2"
          \/ field.when = "ftr"
      BY <2>4, FtrPlaces
    <3> HIDE DEF field
    <3>2. field.when # "alarm" /\ field.when # "ftr"
      BY <1>3, <1>6, <3>1, WrittenIs
    <3>3. QED BY <1>6, <2>1, <3>1, <3>2
  <2>5. CASE typ \notin {"Pmr", "Ptr", "Ftr"}
    BY <2>1, <2>5, PlainTypes DEF PlainFields
  <2>6. QED BY <2>2, <2>3, <2>4, <2>5
<1>7. QED BY <1>4, <1>5, <1>6

\* What is written of a field is bytes, none exactly if it is not written or is
\* all that is left.
LEMMA FieldBytesTyped ==
  ASSUME NEW typ \in Types, NEW r, IsRecord(typ, r), Encodes(typ, r), NEW i \in 1 .. Len(Layout[typ])
  PROVE  /\ FieldBytes(Layout[typ][i], r) \in Seq(Byte)
         /\ Written(Layout[typ][i], r) /\ Layout[typ][i].kind # "Rest" =>
              Len(FieldBytes(Layout[typ][i], r)) > 0
         /\ Written(Layout[typ][i], r) =>
              /\ Fits(Layout[typ][i].kind, ValueWritten(Layout[typ][i], r))
              /\ FieldBytes(Layout[typ][i], r) =
                   Write(Layout[typ][i].kind, ValueWritten(Layout[typ][i], r))
         /\ ~Written(Layout[typ][i], r) => FieldBytes(Layout[typ][i], r) = <<>>
<1> DEFINE field == Layout[typ][i]
           value == ValueWritten(field, r)
<1>1. field.kind \in Kinds
  BY LayoutsStand DEF FieldsTyped
<1>2. Written(field, r) => Fits(field.kind, value)
  BY LayoutsStand DEF Encodes, FieldsTyped
<1>3. Written(field, r) => value \in Values(field.kind)
  BY WrittenTyped
<1> HIDE DEF field, value
<1>4. ASSUME Written(field, r)
      PROVE  Write(field.kind, value) \in Seq(Byte) /\ (field.kind # "Rest" => Len(Write(field.kind, value)) > 0)
  BY <1>1, <1>2, <1>3, <1>4, WriteTyped
<1>5. FieldBytes(field, r) = IF Written(field, r) THEN Write(field.kind, value) ELSE <<>>
  BY DEF FieldBytes, value
<1>6. <<>> \in Seq(Byte)
  OBVIOUS
<1>7. QED BY <1>2, <1>4, <1>5, <1>6 DEF field, value

\* The body, field by field.
BodyStands(typ, r, g) ==
  LET L == Layout[typ]
      n == Len(L)
  IN /\ Body(typ, r) = g[n]
     /\ g[0] = <<>>
     /\ \A i \in 0 .. n : g[i] \in Seq(Byte) /\ Lies(g[i], g[n], 0)
     /\ \A i \in 1 .. n :
          /\ FieldBytes(L[i], r) \in Seq(Byte)
          /\ g[i] = g[i - 1] \o FieldBytes(L[i], r)
          /\ Len(g[i]) = Len(g[i - 1]) + Len(FieldBytes(L[i], r))
          /\ Lies(FieldBytes(L[i], r), g[n], Len(g[i - 1]))

\* Every body that can be encoded stands so.
LEMMA BodyDoesStand ==
  ASSUME NEW typ \in Types, NEW r, IsRecord(typ, r), Encodes(typ, r)
  PROVE  \E g : BodyStands(typ, r, g)
<1> DEFINE L == Layout[typ]
           n == Len(L)
           parts == [i \in 1 .. n |-> FieldBytes(L[i], r)]
           Is(g) == g = [i \in 0 .. n |-> IF i = 0 THEN <<>> ELSE g[i - 1] \o FieldBytes(L[i], r)]
           state == CHOOSE g : Is(g)
<1>1. n \in Nat
  BY LayoutsStand DEF FieldsTyped
<1>2. Body(typ, r) = state[n]
  BY Zenon DEF Body
<1>3. \A i \in 1 .. n : parts[i] = FieldBytes(L[i], r) /\ parts[i] \in Seq(Byte)
  BY FieldBytesTyped
<1> HIDE DEF parts, n, L
<1>4. PICK g : Growth(<<>>, parts, n, g)
  BY <1>1, GrowthExists, Zenon
<1>5. ASSUME NEW h
      PROVE  Is(h) <=> Growth(<<>>, parts, n, h)
  <2>1. ASSUME NEW i \in 0 .. n
        PROVE  (IF i = 0 THEN <<>> ELSE h[i - 1] \o FieldBytes(L[i], r))
                 = (IF i = 0 THEN <<>> ELSE h[i - 1] \o parts[i])
    <3>1. CASE i = 0
      BY <3>1
    <3>2. CASE i # 0
      <4>1. i \in 1 .. n
        BY <1>1, <3>2
      <4>2. parts[i] = FieldBytes(L[i], r)
        BY <1>3, <4>1
      <4>3. QED BY <3>2, <4>2
    <3>3. QED BY <3>1, <3>2
  <2>2. [i \in 0 .. n |-> IF i = 0 THEN <<>> ELSE h[i - 1] \o FieldBytes(L[i], r)]
          = [i \in 0 .. n |-> IF i = 0 THEN <<>> ELSE h[i - 1] \o parts[i]]
    BY <2>1
  <2>3. QED BY <2>2, Zenon DEF Growth
<1>6. Is(state)
  <2>1. Is(g)
    BY <1>4, <1>5
  <2> HIDE DEF Is
  <2>2. QED BY <2>1, Zenon
<1> HIDE DEF Is, state
<1>7. Growth(<<>>, parts, n, state)
  BY <1>5, <1>6
<1>8. \A i \in 1 .. n : state[i] = state[i - 1] \o parts[i]
  <2>1. \A i \in 0 .. n : state[i] = IF i = 0 THEN <<>> ELSE state[i - 1] \o parts[i]
    BY <1>7, Zenon DEF Growth
  <2>2. \A i \in 1 .. n : i \in 0 .. n /\ i # 0
    BY <1>1
  <2>3. QED BY <2>1, <2>2
<1>9. <<>> \in Seq(Byte) /\ \A i \in 1 .. n : parts[i] \in Seq(Byte)
  BY <1>3
<1>10. /\ state[0] = <<>>
       /\ \A i \in 0 .. n : state[i] \in Seq(Byte)
       /\ \A i \in 1 .. n : Len(state[i]) = Len(state[i - 1]) + Len(parts[i])
       /\ \A j \in 0 .. n : \A i \in 0 .. j :
            /\ Lies(state[i], state[j], 0)
            /\ i # 0 => Lies(parts[i], state[j], Len(state[i - 1]))
  BY <1>1, <1>7, <1>9, PartsLie
<1>11. n \in 0 .. n /\ \A i \in 1 .. n : i \in 0 .. n /\ i # 0
  BY <1>1
<1>12. \A i \in 1 .. n : Lies(parts[i], state[n], Len(state[i - 1]))
  BY <1>10, <1>11
<1>13. \A i \in 0 .. n : Lies(state[i], state[n], 0)
  BY <1>10, <1>11
<1>14. BodyStands(typ, r, state)
  BY <1>2, <1>3, <1>8, <1>10, <1>12, <1>13 DEF BodyStands, n, L
<1>15. QED BY <1>14

----------------------------------------------------------------------------
(* What was read and what is written side by side                          *)

\* A body is completed by zeros.
Completes(s, file) ==
  Lies(file, s, 0) /\ \A x \in Len(file) + 1 .. Len(s) : s[x] = 0

\* One zero more completes as well.
LEMMA ZeroCompletes ==
  ASSUME NEW file \in Seq(Byte), NEW s \in Seq(Byte), Completes(s, file)
  PROVE  Completes(s \o <<0>>, file) /\ Len(s \o <<0>>) = Len(s) + 1
<1> DEFINE t == s \o <<0>>
<1>1. Len(t) = Len(s) + 1 /\ (\A x \in 1 .. Len(s) : t[x] = s[x]) /\ t[Len(s) + 1] = 0
      /\ Len(s) \in Nat /\ Len(file) \in Nat
  OBVIOUS
<1> HIDE DEF t
<1>2. Len(file) <= Len(s) /\ \A x \in 1 .. Len(file) : s[x] = file[x]
  <2>1. 0 + Len(file) <= Len(s) /\ \A x \in 1 .. Len(file) : s[0 + x] = file[x]
    BY DEF Completes, Lies
  <2>2. \A x \in 1 .. Len(file) : 0 + x = x
    BY <1>1
  <2>3. QED BY <1>1, <2>1, <2>2
<1>3. \A x \in 1 .. Len(file) : t[0 + x] = file[x]
  <2>1. ASSUME NEW x \in 1 .. Len(file) PROVE t[0 + x] = file[x]
    <3>1. x \in 1 .. Len(s) /\ 0 + x = x
      BY <1>1, <1>2
    <3>2. QED BY <1>1, <1>2, <3>1
  <2>2. QED BY <2>1
<1>4. \A x \in Len(file) + 1 .. Len(t) : t[x] = 0
  <2>1. ASSUME NEW x \in Len(file) + 1 .. Len(t) PROVE t[x] = 0
    <3>1. CASE x = Len(s) + 1
      BY <1>1, <3>1
    <3>2. CASE x # Len(s) + 1
      <4>1. x \in 1 .. Len(s) /\ x \in Len(file) + 1 .. Len(s)
        BY <1>1, <3>2
      <4>2. QED BY <1>1, <4>1 DEF Completes
    <3>3. QED BY <3>1, <3>2
  <2>2. QED BY <2>1
<1>5. 0 + Len(file) <= Len(t)
  BY <1>1, <1>2
<1>6. QED BY <1>1, <1>3, <1>4, <1>5 DEF Completes, Lies, t

\* What lies in a file and is as long completes it.
LEMMA WholeCompletes ==
  ASSUME NEW file \in Seq(Byte), NEW s \in Seq(Byte), Lies(s, file, 0), Len(s) = Len(file)
  PROVE  s = file /\ Completes(s, file)
<1>1. \A x \in 1 .. Len(s) : file[x] = s[x]
  <2>1. \A x \in 1 .. Len(s) : file[0 + x] = s[x]
    BY DEF Lies
  <2>2. \A x \in 1 .. Len(s) : 0 + x = x
    OBVIOUS
  <2>3. QED BY <2>1, <2>2
<1>2. s = file
  BY <1>1, SeqEqual
<1>3. Completes(file, file)
  <2>1. 0 + Len(file) <= Len(file) /\ \A x \in 1 .. Len(file) : 0 + x = x
    OBVIOUS
  <2>2. \A x \in Len(file) + 1 .. Len(file) : FALSE
    OBVIOUS
  <2>3. QED BY <2>1, <2>2 DEF Completes, Lies
<1>4. QED BY <1>2, <1>3

\* Nothing is left exactly at the end.
LEMMA NothingBehind ==
  ASSUME NEW file \in Seq(Byte), NEW pos \in 0 .. Len(file)
  PROVE  Behind(file, pos) = <<>> <=> pos = Len(file)
<1>1. Behind(file, pos) \in Seq(Byte) /\ Len(file) - Len(Behind(file, pos)) = pos
  BY BehindEnds
<1>2. Behind(file, pos) = <<>> <=> Len(Behind(file, pos)) = 0
  BY <1>1
<1>3. QED BY <1>1, <1>2

\* A body so far, and the place in a file up to which it has been read.
Aligned(p, g, file, i) == p[i] = Len(g[i]) /\ Lies(g[i], file, 0)

\* The file has ended, before a field that is written all the same; what has been
\* written since is zeros, no more than one for each field.
Past(L, p, g, file, i) ==
  /\ p[i] = Len(file) /\ Completes(g[i], file) /\ Len(g[i]) <= Len(file) + i
  /\ \E j \in 1 .. i : L[j].when \in {"more", "flg2"}

\* A field that is read and written alike keeps the two together; one that is
\* only written shows that the file has ended.
LEMMA AlignedStep ==
  ASSUME NEW typ \in Types, NEW file \in Seq(Byte), NEW p, NEW r, Parses(typ, file, p, r),
         NEW g, BodyStands(typ, r, g), NEW i \in 1 .. Len(Layout[typ]),
         Aligned(p, g, file, i - 1),
         Looks(typ, file, p, r, i) =>
           /\ p[i] = p[i - 1] + Len(FieldBytes(Layout[typ][i], r))
           /\ Lies(FieldBytes(Layout[typ][i], r), file, p[i - 1])
  PROVE  Aligned(p, g, file, i) \/ Past(Layout[typ], p, g, file, i)
<1> DEFINE L == Layout[typ]
           field == L[i]
           part == FieldBytes(field, r)
<1>1. Len(L) \in Nat /\ i \in Nat /\ i - 1 \in 0 .. Len(L) /\ i \in 0 .. Len(L) /\ i \in 1 .. i
  BY LayoutsStand DEF FieldsTyped
<1>2. /\ g[i - 1] \in Seq(Byte) /\ g[i] \in Seq(Byte) /\ part \in Seq(Byte)
      /\ g[i] = g[i - 1] \o part
      /\ Len(g[i]) = Len(g[i - 1]) + Len(part)
  BY <1>1 DEF BodyStands
<1>3. p[i - 1] \in 0 .. Len(file) /\ p[i - 1] = Len(g[i - 1]) /\ Lies(g[i - 1], file, 0)
  BY ParsesField DEF Aligned
<1>4. ~Looks(typ, file, p, r, i) => p[i] = p[i - 1]
  BY ParsesField DEF Looks
<1>5. CASE Looks(typ, file, p, r, i)
  <2>1. p[i] = p[i - 1] + Len(part) /\ Lies(part, file, p[i - 1])
    BY <1>5
  <2>2. 0 + Len(g[i - 1]) = p[i - 1]
    BY <1>3
  <2> HIDE DEF part
  <2>3. Lies(g[i - 1] \o part, file, 0)
    BY <1>2, <1>3, <2>1, <2>2, JoinLies
  <2>4. QED BY <1>2, <1>3, <2>1, <2>3 DEF Aligned
<1>6. CASE ~Looks(typ, file, p, r, i) /\ ~Written(field, r)
  <2>1. part = <<>>
    BY <1>6 DEF FieldBytes
  <2> HIDE DEF part
  <2>2. g[i] = g[i - 1]
    BY <1>2, <2>1
  <2>3. QED BY <1>3, <1>4, <1>6, <2>2 DEF Aligned
<1>7. CASE ~Looks(typ, file, p, r, i) /\ Written(field, r)
  <2>1. field.when \in {"more", "flg2"} /\ Behind(file, p[i - 1]) = <<>> /\ part = <<0>>
    BY <1>7, UnsoughtWritten
  <2>2. p[i - 1] = Len(file)
    BY <1>3, <2>1, NothingBehind
  <2>3. Completes(g[i - 1], file)
    BY <1>2, <1>3, <2>2, WholeCompletes
  <2> HIDE DEF part
  <2>4. Completes(g[i - 1] \o <<0>>, file) /\ Len(g[i - 1] \o <<0>>) = Len(g[i - 1]) + 1
    BY <1>2, <2>3, ZeroCompletes
  <2>5. g[i] = g[i - 1] \o <<0>>
    BY <1>2, <2>1
  <2>6. Len(g[i]) <= Len(file) + i
    <3>1. Len(g[i]) = Len(file) + 1
      BY <1>3, <2>2, <2>4, <2>5
    <3> DEFINE a == Len(file)
               b == Len(g[i])
    <3>2. b = a + 1 /\ a \in Nat /\ i >= 1
      BY <3>1
    <3> HIDE DEF a, b
    <3>3. b <= a + i
      BY <1>1, <3>2
    <3>4. QED BY <3>3 DEF a, b
  <2>7. p[i] = Len(file)
    BY <1>4, <1>7, <2>2
  <2>8. \E j \in 1 .. i : L[j].when \in {"more", "flg2"}
    BY <1>1, <2>1
  <2>9. QED BY <2>4, <2>5, <2>6, <2>7, <2>8 DEF Past
<1>8. QED BY <1>5, <1>6, <1>7

\* Behind the end of the file only zeros are written.
LEMMA PastStep ==
  ASSUME NEW typ \in Types, NEW file \in Seq(Byte), NEW p, NEW r, Parses(typ, file, p, r),
         NEW g, BodyStands(typ, r, g), NEW i \in 1 .. Len(Layout[typ]),
         Past(Layout[typ], p, g, file, i - 1)
  PROVE  Past(Layout[typ], p, g, file, i)
<1> DEFINE L == Layout[typ]
           field == L[i]
           part == FieldBytes(field, r)
<1>1. Len(L) \in Nat /\ i \in Nat /\ i - 1 \in 0 .. Len(L) /\ i \in 0 .. Len(L) /\ 1 .. i - 1 \subseteq 1 .. i
  BY LayoutsStand DEF FieldsTyped
<1>2. /\ g[i - 1] \in Seq(Byte) /\ g[i] \in Seq(Byte) /\ part \in Seq(Byte)
      /\ g[i] = g[i - 1] \o part
  BY <1>1 DEF BodyStands
<1>3. /\ p[i - 1] \in 0 .. Len(file) /\ p[i - 1] = Len(file)
      /\ Completes(g[i - 1], file) /\ Len(g[i - 1]) <= Len(file) + (i - 1)
  BY ParsesField DEF Past
<1>4. PICK j \in 1 .. i - 1 : L[j].when \in {"more", "flg2"}
  BY DEF Past
<1>5. field.when \in {"more", "ftr"}
  BY <1>4, LayoutsStand DEF MoreLast
<1>6. Behind(file, p[i - 1]) = <<>>
  BY <1>3, NothingBehind
<1>7. ~Looks(typ, file, p, r, i)
  BY <1>5, <1>6, SoughtIs DEF Looks
<1>8. p[i] = Len(file)
  BY <1>3, <1>7, ParsesField DEF Looks
<1>9. \E k \in 1 .. i : L[k].when \in {"more", "flg2"}
  BY <1>1, <1>4
<1> DEFINE a == Len(file)
           b == Len(g[i - 1])
           c == Len(g[i])
<1>10. a \in Nat /\ b \in Nat /\ b <= a + (i - 1)
  BY <1>2, <1>3
<1>11. CASE ~Written(field, r)
  <2>1. part = <<>>
    BY <1>11 DEF FieldBytes
  <2> HIDE DEF part
  <2>2. g[i] = g[i - 1]
    BY <1>2, <2>1
  <2>3. c = b
    BY <2>2
  <2> HIDE DEF a, b, c
  <2>4. c <= a + i
    BY <1>1, <1>10, <2>3
  <2>5. QED BY <1>3, <1>8, <1>9, <2>2, <2>4 DEF Past, a, c
<1>12. CASE Written(field, r)
  <2>1. part = <<0>>
    BY <1>7, <1>12, UnsoughtWritten
  <2>2. Completes(g[i - 1] \o <<0>>, file) /\ Len(g[i - 1] \o <<0>>) = b + 1
    BY <1>2, <1>3, ZeroCompletes
  <2> HIDE DEF part
  <2>3. g[i] = g[i - 1] \o <<0>> /\ c = b + 1
    BY <1>2, <2>1, <2>2
  <2> HIDE DEF a, b, c
  <2>4. c <= a + i
    BY <1>1, <1>10, <2>3
  <2>5. QED BY <1>8, <1>9, <2>2, <2>3, <2>4 DEF Past, a, c
<1>13. QED BY <1>11, <1>12

\* Field by field the body that is written and the one that is read agree.
LEMMA Alignment ==
  ASSUME NEW typ \in Types, NEW file \in Seq(Byte), NEW p, NEW r, Parses(typ, file, p, r),
         NEW g, BodyStands(typ, r, g),
         \A i \in 1 .. Len(Layout[typ]) :
           Looks(typ, file, p, r, i) /\ Aligned(p, g, file, i - 1) =>
             /\ p[i] = p[i - 1] + Len(FieldBytes(Layout[typ][i], r))
             /\ Lies(FieldBytes(Layout[typ][i], r), file, p[i - 1])
  PROVE  \A i \in 0 .. Len(Layout[typ]) :
           Aligned(p, g, file, i) \/ Past(Layout[typ], p, g, file, i)
<1> DEFINE n == Len(Layout[typ])
           Agree(i) == Aligned(p, g, file, i) \/ Past(Layout[typ], p, g, file, i)
           Done == {i \in Nat : i <= n => Agree(i)}
<1>1. n \in Nat
  BY LayoutsStand DEF FieldsTyped
<1>2. Agree(0)
  <2>1. p[0] = 0
    BY Zenon DEF Parses
  <2>2. g[0] = <<>>
    BY DEF BodyStands
  <2>3. Lies(<<>>, file, 0)
    BY DEF Lies
  <2>4. QED BY <2>1, <2>2, <2>3 DEF Aligned
<1>3. ASSUME NEW i \in Nat, i \in Done, i + 1 <= n
      PROVE  Agree(i + 1)
  <2>1. i + 1 \in 1 .. n /\ (i + 1) - 1 = i /\ Agree(i)
    BY <1>1, <1>3
  <2>2. CASE Aligned(p, g, file, i)
    <3>1. Aligned(p, g, file, (i + 1) - 1)
      BY <2>1, <2>2
    <3>2. QED BY <2>1, <3>1, AlignedStep
  <2>3. CASE Past(Layout[typ], p, g, file, i)
    <3>1. Past(Layout[typ], p, g, file, (i + 1) - 1)
      BY <2>1, <2>3
    <3>2. QED BY <2>1, <3>1, PastStep
  <2>4. QED BY <2>1, <2>2, <2>3
<1>4. \A i \in Nat : i \in Done => i + 1 \in Done
  BY <1>3
<1>5. 0 \in Done
  BY <1>2
<1> HIDE DEF Done
<1>6. Nat \subseteq Done
  BY <1>4, <1>5, Induction
<1> HIDE DEF Agree
<1>7. \A i \in 0 .. n : Agree(i)
  BY <1>1, <1>6 DEF Done
<1>8. QED BY <1>7 DEF Agree

----------------------------------------------------------------------------
(* A canonical record is read as it was written                            *)

\* More lengths than a layout has fields, and more than a byte.
LEMMA LengthIs == LengthMod \in Nat /\ LengthMod >= 257
BY LengthAssumption

\* What is left of a body before a field, and whether the field is written.
Rests(typ, r, g, i) ==
  LET n == Len(Layout[typ])
      field == Layout[typ][i]
      rest == Behind(g[n], Len(g[i - 1]))
  IN /\ g[n] \in Seq(Byte)
     /\ Len(g[i - 1]) \in 0 .. Len(g[n]) /\ Len(g[i]) \in 0 .. Len(g[n])
     /\ Written(field, r) /\ field.kind # "Rest" => rest # <<>>
     /\ ~Written(field, r) => Len(g[i]) = Len(g[i - 1])
     /\ rest = <<>> <=> Len(g[i - 1]) = Len(g[n])

\* What holds of it.
LEMMA BodyRests ==
  ASSUME NEW typ \in Types, NEW r, IsRecord(typ, r), Encodes(typ, r),
         NEW g, BodyStands(typ, r, g), NEW i \in 1 .. Len(Layout[typ])
  PROVE  Rests(typ, r, g, i)
<1> DEFINE n == Len(Layout[typ])
           field == Layout[typ][i]
           part == FieldBytes(field, r)
           a == Len(g[i - 1])
           b == Len(g[i])
           c == Len(g[n])
           d == Len(part)
<1>1. n \in Nat /\ i - 1 \in 0 .. n /\ i \in 0 .. n /\ n \in 0 .. n
  BY LayoutsStand DEF FieldsTyped
<1>2. g[i - 1] \in Seq(Byte) /\ g[i] \in Seq(Byte) /\ g[n] \in Seq(Byte) /\ part \in Seq(Byte)
  BY <1>1 DEF BodyStands
<1>3. Lies(g[i - 1], g[n], 0) /\ Lies(g[i], g[n], 0)
  BY <1>1 DEF BodyStands
<1>4. a \in Nat /\ b \in Nat /\ c \in Nat /\ d \in Nat /\ 0 + a <= c /\ 0 + b <= c
  BY <1>2, <1>3 DEF Lies
<1>5. b = a + d
  BY <1>1 DEF BodyStands
<1>6. Written(field, r) /\ field.kind # "Rest" => d > 0
  BY FieldBytesTyped
<1>7. ~Written(field, r) => d = 0
  BY DEF FieldBytes
<1>8. Behind(g[n], a) = <<>> <=> a = c
  <2> HIDE DEF n
  <2>1. a \in 0 .. c
    BY <1>4
  <2>2. QED BY <1>2, <2>1, NothingBehind
<1> HIDE DEF a, b, c, d, part, field, n
<1>9. a \in 0 .. c /\ b \in 0 .. c
  BY <1>4
<1>10. Written(field, r) /\ field.kind # "Rest" => a # c
  BY <1>4, <1>5, <1>6
<1>11. ~Written(field, r) => b = a
  BY <1>4, <1>5, <1>7
<1>12. QED BY <1>2, <1>8, <1>9, <1>10, <1>11 DEF a, b, c, field, n, Rests

\* A field that is written is read as it was.
LEMMA ReadsField ==
  ASSUME NEW typ \in Types, NEW r, IsRecord(typ, r), Encodes(typ, r),
         NEW g, BodyStands(typ, r, g), Len(Body(typ, r)) < LengthMod,
         NEW i \in 1 .. Len(Layout[typ]), Written(Layout[typ][i], r)
  PROVE  LET n == Len(Layout[typ])
             field == Layout[typ][i]
         IN Read(field.kind, Behind(g[n], Len(g[i - 1]))) =
              Got(ValueWritten(field, r), g[n], Len(g[i]))
<1> DEFINE n == Len(Layout[typ])
           field == Layout[typ][i]
           kind == field.kind
           value == ValueWritten(field, r)
           part == Write(kind, value)
           pos == Len(g[i - 1])
           end == Len(g[i])
           file == g[n]
<1>1. n \in Nat /\ i - 1 \in 0 .. n /\ i \in 0 .. n /\ kind \in Kinds /\ (kind = "Rest" => i = n)
  BY LayoutsStand DEF FieldsTyped
<1>2. value \in Values(kind)
  BY WrittenTyped
<1>3. Fits(kind, value) /\ FieldBytes(field, r) = part
  BY FieldBytesTyped
<1>4. pos \in 0 .. Len(file) /\ end \in 0 .. Len(file) /\ file \in Seq(Byte)
  <2>1. Rests(typ, r, g, i)
    BY BodyRests
  <2>2. QED BY <2>1 DEF Rests
<1>5. end = pos + Len(part) /\ Lies(part, file, pos) /\ part \in Seq(Byte)
  BY <1>3 DEF BodyStands
<1>6. Len(file) < LengthMod
  BY DEF BodyStands
<1>7. kind = "Rest" => end = Len(file)
  BY <1>1
<1> HIDE DEF n, field, kind, value, part, pos, end, file
<1>8. Agrees(part, file, pos)
  BY <1>5 DEF Lies, Agrees
<1>9. CASE kind # "Rest"
  <2>1. ASSUME kind = "Nn" PROVE Len(value) < LengthMod
    <3> DEFINE x == Len(value)
               y == Len(part)
               z == Len(file)
    <3>1. x \in Nat /\ y > x /\ y \in Nat /\ z \in Nat
      BY <1>1, <1>2, <1>3, <1>4, <1>5, <2>1, WriteTyped DEF part
    <3>2. pos \in Nat /\ pos + y <= z /\ z < LengthMod /\ LengthMod \in Nat
      <4>1. LengthMod \in Nat
        BY LengthIs
      <4>2. pos + y <= z
        BY <1>5 DEF Lies
      <4>3. QED BY <1>4, <1>6, <4>1, <4>2
    <3> HIDE DEF x, y, z
    <3>3. x < LengthMod
      BY <3>1, <3>2
    <3>4. QED BY <3>3 DEF x
  <2>2. Read(kind, Behind(file, pos)) =
          IF pos + Len(part) <= Len(file) THEN Got(value, file, pos + Len(part)) ELSE Eof
    BY <1>1, <1>2, <1>3, <1>4, <1>8, <1>9, <2>1, ReadsKind DEF part
  <2>3. pos + Len(part) <= Len(file)
    BY <1>5 DEF Lies
  <2>4. Read(kind, Behind(file, pos)) = Got(value, file, end)
    BY <1>5, <2>2, <2>3
  <2>5. QED BY <2>4 DEF n, field, kind, value, pos, end, file
<1>10. CASE kind = "Rest"
  <2>1. part = value
    BY <1>10 DEF part, Write
  <2>2. Read(kind, Behind(file, pos)) = Take(Behind(file, pos), Len(Behind(file, pos)))
    BY <1>10 DEF Read
  <2>3. Len(Behind(file, pos)) = Len(part)
    <3>1. Behind(file, pos) \in Seq(Byte) /\ Len(file) - Len(Behind(file, pos)) = pos
      BY <1>4, BehindEnds
    <3> DEFINE x == Len(Behind(file, pos))
               y == Len(part)
               z == Len(file)
    <3>2. x \in Nat /\ z - x = pos /\ z = pos + y /\ y \in Nat /\ z \in Nat /\ pos \in Nat
      BY <1>4, <1>5, <1>7, <1>10, <3>1
    <3> HIDE DEF x, y, z
    <3>3. x = y
      BY <3>2
    <3>4. QED BY <3>3 DEF x, y
  <2>4. Len(part) \in Nat /\ pos \in Nat /\ pos + Len(part) = Len(file) /\ Len(file) <= Len(file)
    BY <1>4, <1>5, <1>7, <1>10
  <2>5. Take(Behind(file, pos), Len(part)) =
          IF pos + Len(part) <= Len(file)
          THEN Got(Cut(file, pos, pos + Len(part)), file, pos + Len(part)) ELSE Eof
    BY <1>4, <2>4, TakeIs
  <2>6. pos + Len(part) <= Len(file)
    BY <2>4
  <2>7. Cut(file, pos, pos + Len(part)) = part
    BY <1>4, <1>5, <1>8, <2>4, <2>6, CutIs
  <2>8. Read(kind, Behind(file, pos)) = Got(value, file, end)
    BY <1>5, <2>1, <2>2, <2>3, <2>5, <2>6, <2>7
  <2>9. QED BY <2>8 DEF n, field, kind, value, pos, end, file
<1>11. QED BY <1>9, <1>10

\* A field of a canonical record is looked for if it is written, and what is
\* missing is what the record has.
Expected(typ, r, g, i) ==
  LET field == Layout[typ][i]
      rest == Behind(g[Len(Layout[typ])], Len(g[i - 1]))
  IN /\ Sought(field, r, rest) <=> Written(field, r)
     /\ Written(field, r) => ValueWritten(field, r) = r[field.name]
     /\ ~Written(field, r) => r[field.name] = Missing(field, r)

\* A field that is no option is expected.
LEMMA PlainExpected ==
  ASSUME NEW typ \in Types, NEW r, IsRecord(typ, r), Encodes(typ, r),
         NEW g, BodyStands(typ, r, g), NEW i \in 1 .. Len(Layout[typ]),
         Layout[typ][i].when \in {"always", "more"}
  PROVE  Expected(typ, r, g, i)
<1> DEFINE field == Layout[typ][i]
           rest == Behind(g[Len(Layout[typ])], Len(g[i - 1]))
<1>1. Written(field, r) /\ ValueWritten(field, r) = r[field.name]
  BY WrittenIs
<1>2. field.when = "more" => field.kind = "Cn"
  BY LayoutsStand DEF FieldsTyped
<1>3. field.kind # "Rest" => rest # <<>>
  <2>1. Written(field, r) /\ field.kind # "Rest" => rest # <<>>
    <3>1. Rests(typ, r, g, i)
      BY BodyRests
    <3>2. QED BY <3>1 DEF Rests
  <2> HIDE DEF field, rest
  <2>2. QED BY <1>1, <2>1
<1>4. Sought(field, r, rest)
  BY <1>2, <1>3, SoughtIs
<1>5. QED BY <1>1, <1>4 DEF Expected

\* So are the options of a canonical PMR,
LEMMA PmrExpected ==
  ASSUME NEW r, IsRecord("Pmr", r), Encodes("Pmr", r), Canonical("Pmr", r),
         NEW g, BodyStands("Pmr", r, g), NEW i \in 1 .. Len(Layout["Pmr"])
  PROVE  Expected("Pmr", r, g, i)
<1> DEFINE L == Layout["Pmr"]
           Rest(k) == Behind(g[Len(L)], Len(g[k - 1]))
<1>1. "Pmr" \in Types
  BY DEF Types, Layout
<1>2. /\ Len(L) = 7
      /\ L[6] = Field("head_num", "U1", "pair", 0) /\ L[7] = Field("site_num", "U1", "pair", 0)
  BY PmrFields
<1>3. r.head_num = None <=> r.site_num = None
  BY DEF Canonical
<1>4. /\ L[6].when = "pair" /\ L[6].name = "head_num" /\ L[6].kind = "U1"
      /\ L[7].when = "pair" /\ L[7].name = "site_num" /\ L[7].kind = "U1"
  BY <1>2 DEF Field
<1>5. /\ Written(L[6], r) => Rest(6) # <<>>
      /\ ~Written(L[6], r) => Len(g[6]) = Len(g[5])
      /\ ~Written(L[7], r) => Len(g[7]) = Len(g[6])
      /\ Rest(6) = <<>> <=> Len(g[5]) = Len(g[7])
  <2>1. 6 \in 1 .. Len(L) /\ 7 \in 1 .. Len(L) /\ 6 - 1 = 5 /\ 7 - 1 = 6
    BY <1>2
  <2>2. /\ Written(L[6], r) /\ L[6].kind # "Rest" => Rest(6) # <<>>
        /\ ~Written(L[6], r) => Len(g[6]) = Len(g[6 - 1])
        /\ Rest(6) = <<>> <=> Len(g[6 - 1]) = Len(g[Len(L)])
    <3>1. Rests("Pmr", r, g, 6)
      BY <1>1, <2>1, BodyRests
    <3>2. QED BY <3>1 DEF Rests
  <2>3. ~Written(L[7], r) => Len(g[7]) = Len(g[7 - 1])
    <3>1. Rests("Pmr", r, g, 7)
      BY <1>1, <2>1, BodyRests
    <3>2. QED BY <3>1 DEF Rests
  <2> HIDE DEF Rest, L
  <2>4. QED BY <1>2, <1>4, <2>1, <2>2, <2>3
<1>6. Written(L[6], r) <=> r.head_num # None
  BY <1>3, <1>4, WrittenIs
<1>7. Written(L[7], r) <=> r.head_num # None
  BY <1>3, <1>4, WrittenIs
<1>8. CASE i = 6
  <2> HIDE DEF L, Rest
  <2>1. Sought(L[6], r, Rest(6)) <=> Rest(6) # <<>>
    BY <1>4, SoughtIs
  <2>2. Rest(6) # <<>> <=> r.head_num # None
    BY <1>5, <1>6, <1>7
  <2>3. ValueWritten(L[6], r) = r.head_num /\ Missing(L[6], r) = None
    BY <1>4, WrittenIs DEF Missing
  <2>4. QED BY <1>4, <1>6, <1>8, <2>1, <2>2, <2>3 DEF Expected, L, Rest
<1>9. CASE i = 7
  <2> HIDE DEF L, Rest
  <2>1. Sought(L[7], r, Rest(7)) <=> r.head_num # None
    BY <1>4, SoughtIs
  <2>3. ValueWritten(L[7], r) = r.site_num /\ Missing(L[7], r) = None
    BY <1>4, WrittenIs DEF Missing
  <2>4. QED BY <1>3, <1>4, <1>7, <1>9, <2>1, <2>3 DEF Expected, L, Rest
<1>10. CASE L[i].when = "always"
  BY <1>1, <1>10, PlainExpected
<1>11. (i \in 1 .. 5 /\ L[i].when = "always") \/ i = 6 \/ i = 7
  <2>1. (i \in 1 .. 5 /\ L[i].when = "always") \/ i \in 6 .. 7
    BY PmrPlaces
  <2>2. QED BY <2>1
<1>12. QED BY <1>8, <1>9, <1>10, <1>11

\* of a canonical PTR,
LEMMA PtrExpected ==
  ASSUME NEW r, IsRecord("Ptr", r), Encodes("Ptr", r), Canonical("Ptr", r),
         NEW g, BodyStands("Ptr", r, g), NEW i \in 1 .. Len(Layout["Ptr"])
  PROVE  Expected("Ptr", r, g, i)
<1> DEFINE L == Layout["Ptr"]
           field == L[i]
           rest == Behind(g[Len(L)], Len(g[i - 1]))
<1>1. "Ptr" \in Types
  BY DEF Types, Layout
<1>2. /\ L[9].kind = "U1" /\ L[9].bit = 16
      /\ \A k \in 10 .. 14 : L[k] = PtrOptions[k - 9]
  <2>1. L[9] = Field("opt_flg", "U1", "parm", 16)
    BY PtrFields
  <2>2. \A k \in 10 .. 14 : L[k] = PtrOptions[k - 9]
    BY PtrFields
  <2>3. L[9].kind = "U1" /\ L[9].bit = 16
    BY <2>1 DEF Field
  <2>4. QED BY <2>2, <2>3
<1>3. /\ r.opt_flg # None <=> Bit(r.parm_flg, 16)
      /\ \A k \in DOMAIN PtrOptions :
           r[PtrOptions[k].name] # None <=> (r.opt_flg # None /\ ~Bit(r.opt_flg, PtrOptions[k].bit))
  BY DEF Canonical
<1>4. Written(field, r) /\ field.kind # "Rest" => rest # <<>>
  <2>1. Rests("Ptr", r, g, i)
    BY <1>1, BodyRests
  <2>2. QED BY <2>1 DEF Rests
<1>5. \/ i \in 1 .. 8 /\ field.when = "always"
      \/ i = 9 /\ field.when = "parm" /\ field.name = "opt_flg"
      \/ i \in 10 .. 14 /\ field.when = "unless"
      \/ i = 15 /\ field.when = "more"
  BY PtrPlaces
<1>6. CASE field.when = "always" \/ field.when = "more"
  BY <1>1, <1>6, PlainExpected
<1>7. CASE i = 9 /\ field.when = "parm" /\ field.name = "opt_flg"
  <2>1. field.kind = "U1" /\ field.bit = 16
    BY <1>2, <1>7
  <2> HIDE DEF field, rest
  <2>2. Written(field, r) <=> r.opt_flg # None
    BY <1>7, WrittenIs
  <2>3. Sought(field, r, rest) <=> rest # <<>> /\ Bit(r.parm_flg, 16)
    BY <1>7, <2>1, SoughtIs
  <2>4. Missing(field, r) = None /\ ValueWritten(field, r) = r[field.name]
    BY <1>7, WrittenIs DEF Missing
  <2>5. /\ Sought(field, r, rest) <=> Written(field, r)
        /\ ~Written(field, r) => r[field.name] = Missing(field, r)
    BY <1>3, <1>4, <1>7, <2>1, <2>2, <2>3, <2>4
  <2>6. QED BY <2>4, <2>5 DEF Expected, field, rest
<1>8. CASE i \in 10 .. 14 /\ field.when = "unless"
  <2>1. field = PtrOptions[i - 9]
    BY <1>2, <1>8
  <2>2. i - 9 \in DOMAIN PtrOptions /\ field.kind # "Rest"
    <3>1. DOMAIN PtrOptions = 1 .. 5 /\ \A x \in 1 .. 5 : PtrOptions[x].kind # "Rest"
      BY DEF PtrOptions, Field
    <3>2. i - 9 \in 1 .. 5
      BY <1>8
    <3> HIDE DEF field
    <3>3. QED BY <2>1, <3>1, <3>2
  <2> HIDE DEF field, rest
  <2>3. r[field.name] # None <=> (r.opt_flg # None /\ ~Bit(r.opt_flg, field.bit))
    BY <1>3, <2>1, <2>2
  <2>4. Written(field, r) <=> r.opt_flg # None /\ ~Bit(r.opt_flg, field.bit) /\ r[field.name] # None
    BY <1>8, WrittenIs
  <2>5. Sought(field, r, rest) <=> rest # <<>> /\ r.opt_flg # None /\ ~Bit(r.opt_flg, field.bit)
    BY <1>8, SoughtIs
  <2>6. Missing(field, r) = None /\ ValueWritten(field, r) = r[field.name]
    BY <1>8, WrittenIs DEF Missing
  <2>7. /\ Sought(field, r, rest) <=> Written(field, r)
        /\ ~Written(field, r) => r[field.name] = Missing(field, r)
    BY <1>4, <2>2, <2>3, <2>4, <2>5, <2>6
  <2>8. QED BY <2>6, <2>7 DEF Expected, field, rest
<1>9. QED BY <1>5, <1>6, <1>7, <1>8

\* and of a canonical FTR.
LEMMA FtrExpected ==
  ASSUME NEW r, IsRecord("Ftr", r), Encodes("Ftr", r), Canonical("Ftr", r),
         NEW g, BodyStands("Ftr", r, g), NEW i \in 1 .. Len(Layout["Ftr"])
  PROVE  Expected("Ftr", r, g, i)
<1> DEFINE L == Layout["Ftr"]
           field == L[i]
           rest == Behind(g[Len(L)], Len(g[i - 1]))
<1>1. "Ftr" \in Types
  BY DEF Types, Layout
<1>2. /\ Len(L) = 22
      /\ L[19] = Field("alarm_id", "Cn", "alarm", 1) /\ L[20] = Field("opt_flg_2", "U1", "flg2", 0)
      /\ L[21] = Field("program", "Nn", "ftr", 2) /\ L[22] = Field("test_label", "Nn", "ftr", 4)
  BY FtrFields
<1>3. /\ L[19].when = "alarm" /\ L[19].name = "alarm_id" /\ L[19].kind = "Cn" /\ L[19].bit = 1
      /\ L[20].when = "flg2" /\ L[20].name = "opt_flg_2" /\ L[20].kind = "U1"
      /\ L[21].when = "ftr" /\ L[21].name = "program" /\ L[21].kind = "Nn" /\ L[21].bit = 2
      /\ L[22].when = "ftr" /\ L[22].name = "test_label" /\ L[22].kind = "Nn" /\ L[22].bit = 4
  BY <1>2 DEF Field
<1>4. /\ r.alarm_id = None => r.opt_flg_2 = None /\ r.program = None /\ r.test_label = None
      /\ r.alarm_id # None =>
           /\ Bit(r.opt_flg, 1)
           /\ r.opt_flg_2 # None
           /\ r.program # None => ~Bit(r.opt_flg_2, 2)
           /\ r.test_label # None =>
                ~Bit(r.opt_flg_2, 4) /\ (r.program # None \/ Bit(r.opt_flg_2, 2))
  BY DEF Canonical
\* What is written, and what is left.
<1>5. /\ Written(L[19], r) <=> r.alarm_id # None
      /\ Written(L[20], r) <=> r.alarm_id # None
      /\ Written(L[21], r) <=> r.program # None
      /\ Written(L[22], r) <=> r.test_label # None
  <2>1. Written(L[19], r) <=> r.alarm_id # None
    BY <1>3, WrittenIs
  <2>2. Written(L[20], r) <=> r.alarm_id # None
    BY <1>3, WrittenIs
  <2>3. Written(L[21], r) <=> r.alarm_id # None /\ r.program # None
                               /\ (r.opt_flg_2 = None \/ ~Bit(r.opt_flg_2, 2))
    BY <1>3, WrittenIs
  <2>4. Written(L[22], r) <=> r.alarm_id # None /\ r.test_label # None
                               /\ (r.opt_flg_2 = None \/ ~Bit(r.opt_flg_2, 4))
    BY <1>3, WrittenIs
  <2> HIDE DEF L
  <2>5. QED BY <1>4, <2>1, <2>2, <2>3, <2>4
<1> DEFINE Rest(k) == Behind(g[Len(L)], Len(g[k - 1]))
<1>6. ASSUME NEW k \in 19 .. 22
      PROVE  /\ Written(L[k], r) => Rest(k) # <<>>
             /\ ~Written(L[k], r) => Len(g[k]) = Len(g[k - 1])
             /\ Rest(k) = <<>> <=> Len(g[k - 1]) = Len(g[22])
  <2>1. k \in 1 .. Len(L)
    BY <1>2
  <2>2. L[k].kind # "Rest"
    <3>1. k = 19 \/ k = 20 \/ k = 21 \/ k = 22
      OBVIOUS
    <3>2. QED BY <1>3, <3>1
  <2>3. /\ Written(L[k], r) /\ L[k].kind # "Rest" => Rest(k) # <<>>
        /\ ~Written(L[k], r) => Len(g[k]) = Len(g[k - 1])
        /\ Rest(k) = <<>> <=> Len(g[k - 1]) = Len(g[Len(L)])
    <3>1. Rests("Ftr", r, g, k)
      BY <1>1, <2>1, BodyRests
    <3>2. QED BY <3>1 DEF Rests
  <2> HIDE DEF L, Rest
  <2>4. QED BY <1>2, <2>2, <2>3
<1> HIDE DEF Rest
<1>7. /\ r.alarm_id # None => Rest(19) # <<>> /\ Rest(20) # <<>>
      /\ r.alarm_id = None => Rest(19) = <<>>
      /\ r.program # None => Rest(21) # <<>>
      /\ r.program = None /\ r.test_label = None => Rest(21) = <<>>
      /\ Rest(22) # <<>> <=> r.test_label # None
  <2> HIDE DEF L
  <2>1. /\ Written(L[19], r) => Rest(19) # <<>>
        /\ ~Written(L[19], r) => Len(g[19]) = Len(g[18])
        /\ Rest(19) = <<>> <=> Len(g[18]) = Len(g[22])
    <3>1. 19 \in 19 .. 22 /\ 19 - 1 = 18
      OBVIOUS
    <3>2. QED BY <1>6, <3>1
  <2>2. /\ Written(L[20], r) => Rest(20) # <<>>
        /\ ~Written(L[20], r) => Len(g[20]) = Len(g[19])
    <3>1. 20 \in 19 .. 22 /\ 20 - 1 = 19
      OBVIOUS
    <3>2. QED BY <1>6, <3>1
  <2>3. /\ Written(L[21], r) => Rest(21) # <<>>
        /\ ~Written(L[21], r) => Len(g[21]) = Len(g[20])
        /\ Rest(21) = <<>> <=> Len(g[20]) = Len(g[22])
    <3>1. 21 \in 19 .. 22 /\ 21 - 1 = 20
      OBVIOUS
    <3>2. QED BY <1>6, <3>1
  <2>4. /\ Written(L[22], r) => Rest(22) # <<>>
        /\ ~Written(L[22], r) => Len(g[22]) = Len(g[21])
        /\ Rest(22) = <<>> <=> Len(g[21]) = Len(g[22])
    <3>1. 22 \in 19 .. 22 /\ 22 - 1 = 21
      OBVIOUS
    <3>2. QED BY <1>6, <3>1
  <2>5. QED BY <1>4, <1>5, <2>1, <2>2, <2>3, <2>4
<1>8. CASE i = 19
  <2> HIDE DEF L
  <2>1. Sought(L[19], r, Rest(19)) <=> Rest(19) # <<>> /\ Bit(r.opt_flg, 1)
    BY <1>3, SoughtIs
  <2>2. ValueWritten(L[19], r) = r.alarm_id /\ Missing(L[19], r) = None
    BY <1>3, WrittenIs DEF Missing
  <2>3. QED BY <1>3, <1>4, <1>5, <1>7, <1>8, <2>1, <2>2 DEF Expected, L, Rest
<1>9. CASE i = 20
  <2> HIDE DEF L
  <2>1. Sought(L[20], r, Rest(20)) <=> Rest(20) # <<>> /\ r.alarm_id # None
    BY <1>3, SoughtIs
  <2>2. r.alarm_id # None => ValueWritten(L[20], r) = r.opt_flg_2
    BY <1>3, <1>4 DEF ValueWritten
  <2>3. r.alarm_id = None => Missing(L[20], r) = None
    BY <1>3 DEF Missing
  <2>4. QED BY <1>3, <1>4, <1>5, <1>7, <1>9, <2>1, <2>2, <2>3 DEF Expected, L, Rest
<1>10. CASE i = 21
  <2> HIDE DEF L
  <2>1. Sought(L[21], r, Rest(21)) <=>
          Rest(21) # <<>> /\ r.alarm_id # None /\ ~Bit(r.opt_flg_2, 2)
    BY <1>3, SoughtIs
  <2>2. ValueWritten(L[21], r) = r.program /\ Missing(L[21], r) = None
    BY <1>3, WrittenIs DEF Missing
  <2>3. Sought(L[21], r, Rest(21)) <=> r.program # None
    BY <1>4, <1>7, <2>1
  <2>4. QED BY <1>3, <1>5, <1>10, <2>2, <2>3 DEF Expected, L, Rest
<1>11. CASE i = 22
  <2> HIDE DEF L
  <2>1. Sought(L[22], r, Rest(22)) <=>
          Rest(22) # <<>> /\ r.alarm_id # None /\ ~Bit(r.opt_flg_2, 4)
    BY <1>3, SoughtIs
  <2>2. ValueWritten(L[22], r) = r.test_label /\ Missing(L[22], r) = None
    BY <1>3, WrittenIs DEF Missing
  <2>3. Sought(L[22], r, Rest(22)) <=> r.test_label # None
    BY <1>4, <1>7, <2>1
  <2>4. QED BY <1>3, <1>5, <1>11, <2>2, <2>3 DEF Expected, L, Rest
<1>12. CASE field.when = "always"
  BY <1>1, <1>12, PlainExpected
<1>13. field.when = "always" \/ i = 19 \/ i = 20 \/ i = 21 \/ i = 22
  BY FtrPlaces
<1>14. QED BY <1>8, <1>9, <1>10, <1>11, <1>12, <1>13

\* Every field of a canonical record is expected.
LEMMA IsExpected ==
  ASSUME NEW typ \in Types, NEW r, IsRecord(typ, r), Encodes(typ, r), Canonical(typ, r),
         NEW g, BodyStands(typ, r, g), NEW i \in 1 .. Len(Layout[typ])
  PROVE  Expected(typ, r, g, i)
<1>1. CASE typ = "Pmr"
  <2>1. IsRecord("Pmr", r) /\ Encodes("Pmr", r) /\ Canonical("Pmr", r) /\ BodyStands("Pmr", r, g)
        /\ i \in 1 .. Len(Layout["Pmr"])
    BY <1>1
  <2>2. QED BY <1>1, <2>1, PmrExpected
<1>2. CASE typ = "Ptr"
  <2>1. IsRecord("Ptr", r) /\ Encodes("Ptr", r) /\ Canonical("Ptr", r) /\ BodyStands("Ptr", r, g)
        /\ i \in 1 .. Len(Layout["Ptr"])
    BY <1>2
  <2>2. QED BY <1>2, <2>1, PtrExpected
<1>3. CASE typ = "Ftr"
  <2>1. IsRecord("Ftr", r) /\ Encodes("Ftr", r) /\ Canonical("Ftr", r) /\ BodyStands("Ftr", r, g)
        /\ i \in 1 .. Len(Layout["Ftr"])
    BY <1>3
  <2>2. QED BY <1>3, <2>1, FtrExpected
<1>4. CASE typ \notin {"Pmr", "Ptr", "Ftr"}
  <2>1. Layout[typ][i].when \in {"always", "more"}
    BY <1>4, PlainTypes DEF PlainFields
  <2>2. QED BY <2>1, PlainExpected
<1>5. QED BY <1>1, <1>2, <1>3, <1>4

\* A canonical record is read from its body, if REC_LEN can hold its length.
LEMMA CanonicalIsRead ==
  ASSUME NEW typ \in Types, NEW r, IsRecord(typ, r), Encodes(typ, r), Canonical(typ, r),
         Len(Body(typ, r)) < LengthMod
  PROVE  Parse(typ, Body(typ, r)).ok /\ Parse(typ, Body(typ, r)).value = r
<1> DEFINE L == Layout[typ]
           n == Len(L)
<1>1. PICK g : BodyStands(typ, r, g)
  BY BodyDoesStand
<1> DEFINE p == [i \in 0 .. n |-> Len(g[i])]
           file == g[n]
<1>2. n \in Nat
  BY LayoutsStand DEF FieldsTyped
<1>3. file = Body(typ, r) /\ file \in Seq(Byte) /\ g[0] = <<>>
  BY <1>1, <1>2 DEF BodyStands
<1>4. \A i \in 0 .. n : p[i] = Len(g[i]) /\ p[i] \in 0 .. Len(file)
  <2>1. ASSUME NEW i \in 0 .. n
        PROVE  p[i] = Len(g[i]) /\ p[i] \in 0 .. Len(file)
    <3>1. g[i] \in Seq(Byte) /\ Lies(g[i], file, 0)
      BY <1>1 DEF BodyStands
    <3>2. p[i] = Len(g[i])
      OBVIOUS
    <3> HIDE DEF p, file
    <3>3. Len(g[i]) \in Nat /\ 0 + Len(g[i]) <= Len(file) /\ Len(file) \in Nat
      BY <1>3, <3>1 DEF Lies
    <3>4. QED BY <3>2, <3>3
  <2>2. QED BY <2>1
<1>5. p[0] = 0
  BY <1>2, <1>3
<1>6. ASSUME NEW i \in 1 .. n
      PROVE  IF Sought(L[i], r, Behind(file, p[i - 1]))
             THEN Read(L[i].kind, Behind(file, p[i - 1])) = Got(r[L[i].name], file, p[i])
             ELSE r[L[i].name] = Missing(L[i], r) /\ p[i] = p[i - 1]
  <2>1. i \in 0 .. n /\ i - 1 \in 0 .. n
    BY <1>2
  <2>2. p[i] = Len(g[i]) /\ p[i - 1] = Len(g[i - 1])
    BY <2>1
  <2>3. Expected(typ, r, g, i)
    BY <1>1, IsExpected
  <2>4. Rests(typ, r, g, i)
    BY <1>1, BodyRests
  <2>5. /\ Sought(L[i], r, Behind(file, Len(g[i - 1]))) <=> Written(L[i], r)
        /\ Written(L[i], r) => ValueWritten(L[i], r) = r[L[i].name]
        /\ ~Written(L[i], r) => r[L[i].name] = Missing(L[i], r)
    BY <2>3 DEF Expected
  <2>6. ~Written(L[i], r) => Len(g[i]) = Len(g[i - 1])
    BY <2>4 DEF Rests
  <2>7. Written(L[i], r) =>
          Read(L[i].kind, Behind(file, Len(g[i - 1]))) = Got(ValueWritten(L[i], r), file, Len(g[i]))
    BY <1>1, ReadsField
  <2> HIDE DEF p, file, L, n
  <2>8. QED BY <2>2, <2>5, <2>6, <2>7
<1>7. r = [name \in NamesOf(typ) |-> r[name]]
  BY DEF IsRecord
<1>8. Parses(typ, file, p, r)
  <2> HIDE DEF p, file
  <2>1. QED BY <1>4, <1>5, <1>6, <1>7 DEF Parses
<1> HIDE DEF p, file
<1>9. QED BY <1>3, <1>8, OkIfParses

----------------------------------------------------------------------------
(* What is read is canonical                                               *)

\* A reader goes on.
LEMMA EndsGrow ==
  ASSUME NEW typ \in Types, NEW file \in Seq(Byte), NEW p, NEW r, Parses(typ, file, p, r),
         NEW i \in 1 .. Len(Layout[typ])
  PROVE  p[i] \in 0 .. Len(file) /\ p[i - 1] \in 0 .. Len(file) /\ p[i - 1] <= p[i]
<1>1. p[i] \in 0 .. Len(file) /\ p[i - 1] \in 0 .. Len(file)
  BY ParsesField
<1>2. CASE Looks(typ, file, p, r, i)
  <2>1. p[i] \in p[i - 1] .. Len(file)
    BY <1>2, SoughtTyped DEF Looks
  <2>2. QED BY <1>1, <2>1
<1>3. CASE ~Looks(typ, file, p, r, i)
  <2>1. p[i] = p[i - 1]
    BY <1>3, ParsesField DEF Looks
  <2>2. QED BY <1>1, <2>1
<1>4. QED BY <1>2, <1>3

\* An FTR that has been parsed is canonical.
LEMMA FtrCanonical ==
  ASSUME NEW file \in Seq(Byte), NEW p, NEW r, Parses("Ftr", file, p, r)
  PROVE  Canonical("Ftr", r)
<1>1. p[21] = p[20] \/ Looks("Ftr", file, p, r, 21)
  <2>1. "Ftr" \in Types
    BY DEF Types, Layout
  <2>2. 21 \in 1 .. Len(Layout["Ftr"]) /\ 21 - 1 = 20
    <3>1. Len(Layout["Ftr"]) = 22
      BY FtrFields
    <3>2. QED BY <3>1
  <2>3. ~Sought(Layout["Ftr"][21], r, Behind(file, p[21 - 1])) => p[21] = p[21 - 1]
    BY <2>1, <2>2, ParsesField
  <2>4. QED BY <2>2, <2>3 DEF Looks
<1>2. /\ r.alarm_id # None => Bit(r.opt_flg, 1)
      /\ r.opt_flg_2 = None <=> r.alarm_id = None
      /\ r.program # None => r.alarm_id # None /\ ~Bit(r.opt_flg_2, 2)
      /\ r.test_label # None => r.alarm_id # None /\ ~Bit(r.opt_flg_2, 4)
      /\ r.test_label # None => Behind(file, p[21]) # <<>>
      /\ r.program = None => ~Looks("Ftr", file, p, r, 21)
      /\ r.program = None /\ r.alarm_id # None /\ ~Bit(r.opt_flg_2, 2) => Behind(file, p[20]) = <<>>
  BY FtrParsed
<1>3. QED BY <1>1, <1>2 DEF Canonical

\* A PTR that goes on behind HI_LIMIT is canonical.
LEMMA PtrCanonical ==
  ASSUME NEW file \in Seq(Byte), NEW p, NEW r, Parses("Ptr", file, p, r), p[14] < Len(file)
  PROVE  Canonical("Ptr", r)
<1> DEFINE L == Layout["Ptr"]
<1>1. "Ptr" \in Types /\ Len(L) = 15
  BY PtrFields DEF Types, Layout
<1>2. \A i \in 1 .. 15 :
        p[i] \in 0 .. Len(file) /\ p[i - 1] \in 0 .. Len(file) /\ p[i - 1] <= p[i]
  BY <1>1, EndsGrow
<1>3. \A i \in 8 .. 14 : p[i] \in 0 .. Len(file) /\ p[i] < Len(file)
  <2> DEFINE m == Len(file)
  <2>1. m \in Nat
    OBVIOUS
  <2> HIDE DEF m
  <2>2. p[13] \in 0 .. m /\ p[13] < m
    <3>1. 14 \in 1 .. 15 /\ 14 - 1 = 13
      OBVIOUS
    <3>2. p[14] \in 0 .. m /\ p[13] \in 0 .. m /\ p[13] <= p[14]
      BY <1>2, <3>1 DEF m
    <3>3. p[14] < m
      BY DEF m
    <3>4. QED BY <2>1, <3>2, <3>3
  <2>3. p[12] \in 0 .. m /\ p[12] < m
    <3>1. 13 \in 1 .. 15 /\ 13 - 1 = 12
      OBVIOUS
    <3>2. p[13] \in 0 .. m /\ p[12] \in 0 .. m /\ p[12] <= p[13]
      BY <1>2, <3>1 DEF m
    <3>3. p[13] < m
      BY <2>2
    <3>4. QED BY <2>1, <3>2, <3>3
  <2>4. p[11] \in 0 .. m /\ p[11] < m
    <3>1. 12 \in 1 .. 15 /\ 12 - 1 = 11
      OBVIOUS
    <3>2. p[12] \in 0 .. m /\ p[11] \in 0 .. m /\ p[11] <= p[12]
      BY <1>2, <3>1 DEF m
    <3>3. p[12] < m
      BY <2>3
    <3>4. QED BY <2>1, <3>2, <3>3
  <2>5. p[10] \in 0 .. m /\ p[10] < m
    <3>1. 11 \in 1 .. 15 /\ 11 - 1 = 10
      OBVIOUS
    <3>2. p[11] \in 0 .. m /\ p[10] \in 0 .. m /\ p[10] <= p[11]
      BY <1>2, <3>1 DEF m
    <3>3. p[11] < m
      BY <2>4
    <3>4. QED BY <2>1, <3>2, <3>3
  <2>6. p[9] \in 0 .. m /\ p[9] < m
    <3>1. 10 \in 1 .. 15 /\ 10 - 1 = 9
      OBVIOUS
    <3>2. p[10] \in 0 .. m /\ p[9] \in 0 .. m /\ p[9] <= p[10]
      BY <1>2, <3>1 DEF m
    <3>3. p[10] < m
      BY <2>5
    <3>4. QED BY <2>1, <3>2, <3>3
  <2>7. p[8] \in 0 .. m /\ p[8] < m
    <3>1. 9 \in 1 .. 15 /\ 9 - 1 = 8
      OBVIOUS
    <3>2. p[9] \in 0 .. m /\ p[8] \in 0 .. m /\ p[8] <= p[9]
      BY <1>2, <3>1 DEF m
    <3>3. p[9] < m
      BY <2>6
    <3>4. QED BY <2>1, <3>2, <3>3
  <2>8. /\ p[13] < m /\ p[12] < m /\ p[11] < m /\ p[10] < m
        /\ p[9] < m /\ p[8] < m /\ p[14] < m
    BY <2>2, <2>3, <2>4, <2>5, <2>6, <2>7 DEF m
  <2>9. ASSUME NEW i \in 8 .. 14 PROVE p[i] < Len(file)
    <3>1. i = 8 \/ i = 9 \/ i = 10 \/ i = 11 \/ i = 12 \/ i = 13 \/ i = 14
      OBVIOUS
    <3>2. QED BY <2>8, <3>1 DEF m
  <2>10. ASSUME NEW i \in 8 .. 14 PROVE p[i] \in 0 .. Len(file)
    <3>1. i \in 1 .. 15
      OBVIOUS
    <3>2. QED BY <1>2, <3>1
  <2>11. QED BY <2>9, <2>10
<1>4. \A i \in 8 .. 14 : Behind(file, p[i]) # <<>>
  <2>1. ASSUME NEW i \in 8 .. 14 PROVE Behind(file, p[i]) # <<>>
    <3>1. p[i] \in 0 .. Len(file) /\ p[i] # Len(file)
      BY <1>3
    <3>2. QED BY <3>1, NothingBehind
  <2>2. QED BY <2>1
<1>5. r.opt_flg # None <=> Bit(r.parm_flg, 16)
  <2>1. r.opt_flg # None <=> Behind(file, p[8]) # <<>> /\ Bit(r.parm_flg, 16)
    BY PtrParsed
  <2>2. 8 \in 8 .. 14
    OBVIOUS
  <2>3. QED BY <1>4, <2>1, <2>2
<1>6. \A i \in DOMAIN PtrOptions :
        r[PtrOptions[i].name] # None <=> (r.opt_flg # None /\ ~Bit(r.opt_flg, PtrOptions[i].bit))
  <2>1. ASSUME NEW i \in DOMAIN PtrOptions
        PROVE  r[PtrOptions[i].name] # None <=>
                 (r.opt_flg # None /\ ~Bit(r.opt_flg, PtrOptions[i].bit))
    <3> DEFINE k == i + 9
    <3>1. i \in 1 .. 5
      BY DEF PtrOptions
    <3>2. k \in 10 .. 14 /\ k - 9 = i /\ k - 1 \in 8 .. 14
      BY <3>1
    <3> HIDE DEF k
    <3>3. L[k] = PtrOptions[i]
      <4>1. L[k] = PtrOptions[k - 9]
        BY <3>2, PtrFields
      <4>2. QED BY <3>2, <4>1
    <3>4. r[L[k].name] # None <=>
            Behind(file, p[k - 1]) # <<>> /\ r.opt_flg # None /\ ~Bit(r.opt_flg, L[k].bit)
      BY <3>2, PtrParsed
    <3> HIDE DEF L
    <3>5. QED BY <1>4, <3>2, <3>3, <3>4
  <2>2. QED BY <2>1
<1>7. QED BY <1>5, <1>6 DEF Canonical

\* A record that has been parsed is canonical, but for a PTR that ends early.
LEMMA ParsedIsCanonical ==
  ASSUME NEW typ \in Types, NEW file \in Seq(Byte), NEW p, NEW r, Parses(typ, file, p, r),
         typ = "Ptr" => p[14] < Len(file)
  PROVE  Canonical(typ, r)
<1>1. CASE typ = "Pmr"
  <2>1. Parses("Pmr", file, p, r)
    BY <1>1
  <2>2. r.head_num = None <=> r.site_num = None
    BY <2>1, PmrParsed
  <2>3. QED BY <1>1, <2>2 DEF Canonical
<1>2. CASE typ = "Ptr"
  BY <1>2, PtrCanonical
<1>3. CASE typ = "Ftr"
  BY <1>3, FtrCanonical
<1>4. QED BY <1>1, <1>2, <1>3 DEF Canonical

----------------------------------------------------------------------------
(* A record that is read back                                              *)

\* A number that exceeds its remainder by less than the modulus is its remainder.
LEMMA RemainderNear ==
  ASSUME NEW a \in Nat, a < (a % LengthMod) + LengthMod
  PROVE  a < LengthMod /\ a % LengthMod = a
<1>1. LengthMod \in Nat /\ LengthMod > 0
  BY LengthIs
<1> DEFINE d == a \div LengthMod
           m == a % LengthMod
<1>2. d \in Int /\ m \in Nat /\ m < LengthMod /\ a = LengthMod * d + m
  BY <1>1
<1> HIDE DEF d, m
<1>3. LengthMod * d < LengthMod
  BY <1>1, <1>2 DEF m
<1>4. d < 1
  <2>1. SUFFICES ASSUME d >= 1 PROVE FALSE
    BY <1>2
  <2>2. LengthMod * d >= LengthMod
    BY <1>1, <1>2, <2>1
  <2>3. QED BY <1>1, <1>2, <1>3, <2>2
<1>5. a < LengthMod
  <2>1. LengthMod * d <= 0
    BY <1>1, <1>2, <1>4
  <2>2. LengthMod * d \in Int
    BY <1>1, <1>2
  <2>3. QED BY <1>1, <1>2, <2>1, <2>2
<1>6. a % LengthMod = a
  BY <1>1, <1>5
<1>7. QED BY <1>5, <1>6

\* The body that a file holds is the beginning of what was written.
LEMMA BodyInFileIs ==
  ASSUME NEW typ, NEW r, Body(typ, r) \in Seq(Byte)
  PROVE  LET body == Body(typ, r)
             file == BodyInFile(typ, r)
         IN /\ file \in Seq(Byte) /\ Len(file) = Len(body) % LengthMod
            /\ Lies(file, body, 0)
            /\ Len(body) < LengthMod => file = body
<1> DEFINE body == Body(typ, r)
           file == BodyInFile(typ, r)
           a == Len(body)
           m == a % LengthMod
<1>1. a \in Nat /\ m \in Nat /\ m \in 0 .. a /\ (a < LengthMod => m = a)
  <2>1. LengthMod \in Nat /\ LengthMod > 0
    BY LengthIs
  <2>2. a \in Nat
    OBVIOUS
  <2> HIDE DEF a
  <2>3. QED BY <2>1, <2>2
<1>2. file = SubSeq(body, 0 + 1, m)
  BY DEF BodyInFile, RecLen
<1>3. 0 \in Nat /\ m \in 0 .. Len(body)
  BY <1>1
<1> HIDE DEF m, file, body
<1>4. body \in Seq(Byte)
  BY DEF body
<1>5. /\ SubSeq(body, 0 + 1, m) \in Seq(Byte) /\ Len(SubSeq(body, 0 + 1, m)) = m - 0
      /\ \A x \in 1 .. m - 0 : SubSeq(body, 0 + 1, m)[x] = body[0 + x]
  BY <1>3, <1>4, Slice
<1>6. /\ file \in Seq(Byte) /\ Len(file) = m
      /\ \A x \in 1 .. m : file[x] = body[0 + x]
  BY <1>1, <1>2, <1>5
<1>7. Lies(file, body, 0)
  <2>1. 0 + Len(file) <= Len(body)
    BY <1>1, <1>6 DEF a
  <2>2. \A x \in 1 .. Len(file) : body[0 + x] = file[x]
    BY <1>6
  <2>3. QED BY <2>1, <2>2 DEF Lies
<1>8. a < LengthMod => file = body
  <2>1. ASSUME a < LengthMod PROVE file = body
    <3>1. Len(file) = Len(body)
      BY <1>1, <1>6, <2>1 DEF a
    <3>2. QED BY <1>4, <1>6, <1>7, <3>1, WholeCompletes
  <2>2. QED BY <2>1
<1>9. QED BY <1>6, <1>7, <1>8 DEF m, file, body, a

\* A field that was looked for, and found to hold what was written, is where it
\* was written.
LEMMA FoundWhereWritten ==
  ASSUME NEW typ \in Types, NEW r, IsRecord(typ, r), Encodes(typ, r),
         NEW g, BodyStands(typ, r, g),
         NEW file \in Seq(Byte), Lies(file, g[Len(Layout[typ])], 0),
         NEW p, Parses(typ, file, p, r),
         NEW i \in 1 .. Len(Layout[typ]), Looks(typ, file, p, r, i), Aligned(p, g, file, i - 1)
  PROVE  /\ p[i] = p[i - 1] + Len(FieldBytes(Layout[typ][i], r))
         /\ Lies(FieldBytes(Layout[typ][i], r), file, p[i - 1])
<1> DEFINE n == Len(Layout[typ])
           field == Layout[typ][i]
           kind == field.kind
           value == ValueWritten(field, r)
           part == FieldBytes(field, r)
           pos == p[i - 1]
           body == g[n]
<1>1. Written(field, r) /\ value = r[field.name]
  BY SoughtWritten
<1>2. Fits(kind, value) /\ part = Write(kind, value)
  BY <1>1, FieldBytesTyped
<1>3. value \in Values(kind)
  BY <1>1, WrittenTyped
<1>4. p[i] \in 0 .. Len(file) /\ pos \in 0 .. Len(file)
  BY EndsGrow
<1>5. kind \in Kinds
  BY LayoutsStand DEF FieldsTyped
<1>6. Read(kind, Behind(file, pos)) = Got(value, file, p[i])
  BY <1>1, ParsesField DEF Looks
<1>7. Read(kind, Behind(file, pos)).ok /\ Read(kind, Behind(file, pos)).value = value
  BY <1>6 DEF Got
<1>8. part \in Seq(Byte) /\ Lies(part, body, Len(g[i - 1])) /\ body \in Seq(Byte)
  <2>1. n \in 0 .. n
    BY LayoutsStand DEF FieldsTyped
  <2>2. QED BY <2>1 DEF BodyStands
<1>9. pos = Len(g[i - 1])
  BY DEF Aligned
<1> HIDE DEF n, field, kind, value, part, pos, body
<1>10. Agrees(part, file, pos)
  <2>1. ASSUME NEW x \in 1 .. Len(part), pos + x <= Len(file)
        PROVE  file[pos + x] = part[x]
    <3>1. pos + x \in 1 .. Len(file)
      BY <1>4, <2>1
    <3>2. body[0 + (pos + x)] = file[pos + x]
      BY <3>1 DEF Lies, body, n
    <3>3. body[pos + x] = part[x]
      BY <1>8, <1>9 DEF Lies
    <3>4. 0 + (pos + x) = pos + x
      BY <3>1
    <3>5. QED BY <3>2, <3>3, <3>4
  <2>2. QED BY <2>1 DEF Agrees
<1>11. /\ pos + Len(part) <= Len(file)
       /\ Read(kind, Behind(file, pos)) = Got(value, file, pos + Len(part))
  BY <1>2, <1>3, <1>4, <1>5, <1>7, <1>10, ReadsBack
<1>12. p[i] = pos + Len(part)
  <2>1. pos + Len(part) \in 0 .. Len(file)
    BY <1>4, <1>8, <1>11
  <2>2. QED BY <1>4, <1>6, <1>11, <2>1, GotOnce
<1>13. Lies(part, file, pos)
  <2>1. ASSUME NEW x \in 1 .. Len(part)
        PROVE  file[pos + x] = part[x]
    <3>1. pos + x <= Len(file)
      BY <1>4, <1>8, <1>11
    <3>2. QED BY <1>10, <3>1 DEF Agrees
  <2>2. QED BY <1>11, <2>1 DEF Lies
<1>14. QED BY <1>12, <1>13 DEF part, pos, field

\* Before UNITS nothing is added to a PTR.
LEMMA PtrAligned ==
  ASSUME NEW file \in Seq(Byte), NEW p, NEW g,
         \A i \in 0 .. Len(Layout["Ptr"]) :
           Aligned(p, g, file, i) \/ Past(Layout["Ptr"], p, g, file, i)
  PROVE  Aligned(p, g, file, 14)
<1>1. 14 \in 0 .. Len(Layout["Ptr"]) /\ \A j \in 1 .. 14 : j \in 1 .. Len(Layout["Ptr"])
  <2>1. Len(Layout["Ptr"]) = 15
    BY PtrFields
  <2>2. QED BY <2>1
<1>2. \A j \in 1 .. 14 : Layout["Ptr"][j].when \notin {"more", "flg2"}
  <2>1. ASSUME NEW j \in 1 .. 14 PROVE Layout["Ptr"][j].when \notin {"more", "flg2"}
    <3>1. j # 15
      OBVIOUS
    <3>2. QED BY <1>1, <3>1, PtrPlaces
  <2>2. QED BY <2>1
<1>3. ~Past(Layout["Ptr"], p, g, file, 14)
  BY <1>2 DEF Past
<1>4. QED BY <1>1, <1>3

\* UNITS is always written.
LEMMA UnitsWritten ==
  ASSUME NEW r, IsRecord("Ptr", r), Encodes("Ptr", r), NEW g, BodyStands("Ptr", r, g)
  PROVE  /\ g[15] = Body("Ptr", r) /\ g[14] \in Seq(Byte) /\ g[15] \in Seq(Byte)
         /\ g[15] = g[14] \o FieldBytes(Layout["Ptr"][15], r)
         /\ Len(g[15]) = Len(g[14]) + Len(FieldBytes(Layout["Ptr"][15], r))
         /\ FieldBytes(Layout["Ptr"][15], r) \in Seq(Byte)
         /\ Len(FieldBytes(Layout["Ptr"][15], r)) > 0
<1>1. "Ptr" \in Types
  BY DEF Types, Layout
<1>2. Len(Layout["Ptr"]) = 15
  BY PtrFields
<1>3. 15 \in 1 .. Len(Layout["Ptr"]) /\ 15 - 1 = 14 /\ 14 \in 0 .. Len(Layout["Ptr"])
      /\ 15 \in 0 .. Len(Layout["Ptr"])
  BY <1>2
<1>4. Layout["Ptr"][15].when = "more" /\ Layout["Ptr"][15].kind = "Cn"
  <2>1. Layout["Ptr"][15] = Field("units", "Cn", "more", 0)
    BY PtrFields
  <2>2. QED BY <2>1 DEF Field
<1>5. Written(Layout["Ptr"][15], r)
  BY <1>4, WrittenIs
<1>6. Len(FieldBytes(Layout["Ptr"][15], r)) > 0
  BY <1>1, <1>3, <1>4, <1>5, FieldBytesTyped
<1>7. /\ g[15] = g[15 - 1] \o FieldBytes(Layout["Ptr"][15], r)
      /\ Len(g[15]) = Len(g[15 - 1]) + Len(FieldBytes(Layout["Ptr"][15], r))
      /\ FieldBytes(Layout["Ptr"][15], r) \in Seq(Byte)
  BY <1>3 DEF BodyStands
<1>8. g[Len(Layout["Ptr"])] = Body("Ptr", r) /\ g[14] \in Seq(Byte) /\ g[15] \in Seq(Byte)
  BY <1>3 DEF BodyStands
<1>9. QED BY <1>2, <1>3, <1>6, <1>7, <1>8

\* A record that is read from its body is canonical, and REC_LEN holds its length.
LEMMA ReadIsCanonical ==
  ASSUME NEW typ \in Types, NEW r, IsRecord(typ, r), Encodes(typ, r),
         Parse(typ, BodyInFile(typ, r)).ok, Parse(typ, BodyInFile(typ, r)).value = r
  PROVE  Canonical(typ, r) /\ Len(Body(typ, r)) < LengthMod
<1> DEFINE L == Layout[typ]
           n == Len(L)
           body == Body(typ, r)
           file == BodyInFile(typ, r)
<1>1. PICK g : BodyStands(typ, r, g)
  BY BodyDoesStand
<1>2. n \in Nat /\ n < 257 /\ n \in 0 .. n
  BY LayoutsStand DEF FieldsTyped
<1>3. g[n] = body /\ body \in Seq(Byte)
  BY <1>1, <1>2 DEF BodyStands
<1>4. /\ file \in Seq(Byte) /\ Len(file) = Len(body) % LengthMod
      /\ Lies(file, body, 0)
      /\ Len(body) < LengthMod => file = body
  BY <1>3, BodyInFileIs
<1>5. PICK p : Parses(typ, file, p, r)
  BY <1>4, ParsesIfOk
<1> HIDE DEF file, body
<1>6. \A i \in 0 .. n : Aligned(p, g, file, i) \/ Past(L, p, g, file, i)
  <2>1. \A i \in 1 .. n :
          Looks(typ, file, p, r, i) /\ Aligned(p, g, file, i - 1) =>
            /\ p[i] = p[i - 1] + Len(FieldBytes(L[i], r))
            /\ Lies(FieldBytes(L[i], r), file, p[i - 1])
    BY <1>1, <1>3, <1>4, <1>5, FoundWhereWritten
  <2>2. QED BY <1>1, <1>4, <1>5, <2>1, Alignment
<1>7. p[n] \in 0 .. Len(file)
  BY <1>2, <1>5 DEF Parses
<1>8. Len(body) <= Len(file) + n
  <2>1. Aligned(p, g, file, n) \/ Past(L, p, g, file, n)
    BY <1>2, <1>6
  <2>2. Aligned(p, g, file, n) => p[n] = Len(body)
    BY <1>3 DEF Aligned
  <2>3. Past(L, p, g, file, n) => Len(body) <= Len(file) + n
    BY <1>3 DEF Past
  <2>4. Len(file) \in Nat
    BY <1>4
  <2> HIDE DEF n, L
  <2>5. QED BY <1>2, <1>7, <2>1, <2>2, <2>3, <2>4
<1>9. Len(body) < LengthMod /\ file = body
  <2>1. Len(body) \in Nat /\ Len(file) \in Nat
    BY <1>3, <1>4
  <2>2. Len(body) < (Len(body) % LengthMod) + LengthMod
    BY <1>2, <1>4, <1>8, <2>1, LengthIs
  <2>3. QED BY <1>4, <2>1, <2>2, RemainderNear
<1>10. typ = "Ptr" => p[14] < Len(file)
  <2>1. SUFFICES ASSUME typ = "Ptr" PROVE p[14] < Len(file)
    OBVIOUS
  <2>2. Aligned(p, g, file, 14)
    BY <1>4, <1>6, <2>1, PtrAligned
  <2>3. p[14] = Len(g[14])
    BY <2>2 DEF Aligned
  <2>4. IsRecord("Ptr", r) /\ Encodes("Ptr", r) /\ BodyStands("Ptr", r, g)
    BY <1>1, <2>1
  <2>5. Len(g[15]) = Len(g[14]) + Len(FieldBytes(Layout["Ptr"][15], r))
        /\ Len(FieldBytes(Layout["Ptr"][15], r)) > 0 /\ g[15] = Body("Ptr", r)
        /\ g[14] \in Seq(Byte) /\ FieldBytes(Layout["Ptr"][15], r) \in Seq(Byte)
    BY <2>4, UnitsWritten
  <2>6. g[15] = file
    BY <1>9, <2>1, <2>5 DEF body
  <2> DEFINE a == Len(g[14])
             b == Len(FieldBytes(Layout["Ptr"][15], r))
  <2>7. a \in Nat /\ b \in Nat /\ b > 0 /\ Len(file) = a + b /\ p[14] = a
    <3>1. a \in Nat /\ b \in Nat
      BY <2>5
    <3>2. b > 0 /\ Len(g[15]) = a + b
      BY <2>5
    <3> HIDE DEF b
    <3>3. QED BY <2>3, <2>6, <3>1, <3>2
  <2> HIDE DEF a, b
  <2>8. QED BY <2>7
<1>11. QED BY <1>4, <1>5, <1>9, <1>10, ParsedIsCanonical DEF body

\* A record that is written and read back is the same record exactly if its
\* fields agree and REC_LEN holds the length of its body.
LEMMA EveryRecordRoundTrips ==
  ASSUME NEW typ \in Types, NEW r, IsRecord(typ, r)
  PROVE  RoundTrips(typ, r)
<1> DEFINE body == Body(typ, r)
           file == BodyInFile(typ, r)
<1>1. SUFFICES ASSUME Encodes(typ, r)
               PROVE  (Parse(typ, file).ok /\ Parse(typ, file).value = r) <=>
                        (Canonical(typ, r) /\ Len(body) < LengthMod)
  BY Zenon DEF RoundTrips
<1>2. body \in Seq(Byte)
  <2>1. PICK g : BodyStands(typ, r, g)
    BY <1>1, BodyDoesStand
  <2>2. Len(Layout[typ]) \in 0 .. Len(Layout[typ])
    BY LayoutsStand DEF FieldsTyped
  <2>3. QED BY <2>1, <2>2 DEF BodyStands
<1>3. Len(body) < LengthMod => file = body
  BY <1>2, BodyInFileIs
<1>4. Canonical(typ, r) /\ Len(body) < LengthMod =>
        Parse(typ, body).ok /\ Parse(typ, body).value = r
  BY <1>1, CanonicalIsRead
<1>5. Parse(typ, file).ok /\ Parse(typ, file).value = r =>
        Canonical(typ, r) /\ Len(body) < LengthMod
  BY <1>1, ReadIsCanonical
<1> HIDE DEF body, file
<1>6. QED BY <1>3, <1>4, <1>5

----------------------------------------------------------------------------
(* A body that is written again                                            *)

\* What lies at the beginning is a prefix.
LEMMA LiesIsPrefix ==
  ASSUME NEW S, NEW s \in Seq(S), NEW t \in Seq(S), Lies(s, t, 0)
  PROVE  IsPrefix(s, t)
<1>1. Len(s) \in Nat /\ Len(s) \in 0 .. Len(t) /\ \A x \in 1 .. Len(s) : t[0 + x] = s[x]
  <2>1. 0 + Len(s) <= Len(t)
    BY DEF Lies
  <2>2. QED BY <2>1 DEF Lies
<1>2. /\ SubSeq(t, 0 + 1, Len(s)) \in Seq(S) /\ Len(SubSeq(t, 0 + 1, Len(s))) = Len(s) - 0
      /\ \A x \in 1 .. Len(s) - 0 : SubSeq(t, 0 + 1, Len(s))[x] = t[0 + x]
  BY <1>1, Slice
<1> DEFINE cut == SubSeq(t, 0 + 1, Len(s))
<1>3. Len(cut) = Len(s)
  BY <1>1, <1>2
<1>4. \A x \in 1 .. Len(s) : cut[x] = s[x]
  BY <1>1, <1>2
<1>5. cut \in Seq(S) /\ cut = SubSeq(t, 1, Len(s))
  BY <1>2
<1> HIDE DEF cut
<1>6. cut = s
  BY <1>3, <1>4, <1>5
<1>7. QED BY <1>1, <1>5, <1>6 DEF IsPrefix

\* What has been looked for in a body without foreign bytes is where it would be
\* written.
LEMMA FoundIsWritten ==
  ASSUME NEW typ \in Types, NEW file \in Seq(Byte), Len(file) < LengthMod, IsUtf8(file),
         NEW p, NEW r, Parses(typ, file, p, r)
  PROVE  /\ Encodes(typ, r)
         /\ \A i \in 1 .. Len(Layout[typ]) :
              Looks(typ, file, p, r, i) =>
                /\ p[i] = p[i - 1] + Len(FieldBytes(Layout[typ][i], r))
                /\ Lies(FieldBytes(Layout[typ][i], r), file, p[i - 1])
<1> DEFINE L == Layout[typ]
<1>1. ASSUME NEW i \in 1 .. Len(L), Looks(typ, file, p, r, i)
      PROVE  /\ Fits(L[i].kind, ValueWritten(L[i], r))
             /\ p[i] = p[i - 1] + Len(FieldBytes(L[i], r))
             /\ Lies(FieldBytes(L[i], r), file, p[i - 1])
  <2> DEFINE value == r[L[i].name]
             part == Write(L[i].kind, value)
  <2>1. Written(L[i], r) /\ ValueWritten(L[i], r) = value
    BY <1>1, SoughtWritten
  <2>2. /\ Fits(L[i].kind, value)
        /\ Lies(part, file, p[i - 1])
        /\ p[i] = p[i - 1] + Len(part)
    BY <1>1, SoughtTyped DEF Looks
  <2>3. FieldBytes(L[i], r) = part
    BY <2>1 DEF FieldBytes
  <2> HIDE DEF L, value, part
  <2>4. QED BY <2>1, <2>2, <2>3
<1>2. ASSUME NEW i \in 1 .. Len(L), ~Looks(typ, file, p, r, i), Written(L[i], r)
      PROVE  Fits(L[i].kind, ValueWritten(L[i], r))
  BY <1>2, UnsoughtWritten
<1>3. DOMAIN L = 1 .. Len(L)
  BY LayoutsStand DEF FieldsTyped
<1>4. Encodes(typ, r)
  BY <1>1, <1>2, <1>3, Zenon DEF Encodes
<1>5. QED BY <1>1, <1>4

\* What is written again is the beginning of a body without foreign bytes, or
\* completes it.
LEMMA WrittenAgain ==
  ASSUME NEW typ \in Types, NEW file \in Seq(Byte), Len(file) < LengthMod, IsUtf8(file),
         NEW p, NEW r, Parses(typ, file, p, r), NEW g, BodyStands(typ, r, g)
  PROVE  /\ \A i \in 0 .. Len(Layout[typ]) :
              Aligned(p, g, file, i) \/ Past(Layout[typ], p, g, file, i)
         /\ LET again == Body(typ, r)
            IN \/ IsPrefix(again, file)
               \/ /\ IsPrefix(file, again)
                  /\ \A i \in Len(file) + 1 .. Len(again) : again[i] = 0
<1> DEFINE n == Len(Layout[typ])
           again == Body(typ, r)
<1>1. \A i \in 0 .. n : Aligned(p, g, file, i) \/ Past(Layout[typ], p, g, file, i)
  BY FoundIsWritten, Alignment
<1>2. n \in 0 .. n
  BY LayoutsStand DEF FieldsTyped
<1>3. again = g[n] /\ again \in Seq(Byte)
  BY <1>2 DEF BodyStands
<1> HIDE DEF n, again
<1>4. CASE Aligned(p, g, file, n)
  <2>1. Lies(again, file, 0)
    BY <1>3, <1>4 DEF Aligned
  <2>2. IsPrefix(again, file)
    BY <1>3, <2>1, LiesIsPrefix
  <2>3. QED BY <1>1, <2>2 DEF n, again
<1>5. CASE Past(Layout[typ], p, g, file, n)
  <2>1. Lies(file, again, 0) /\ \A x \in Len(file) + 1 .. Len(again) : again[x] = 0
    BY <1>3, <1>5 DEF Past, Completes
  <2>2. IsPrefix(file, again)
    BY <1>3, <2>1, LiesIsPrefix
  <2>3. QED BY <1>1, <2>1, <2>2 DEF n, again
<1>6. QED BY <1>1, <1>2, <1>4, <1>5

\* A PTR that ends before UNITS gets an empty one.
LEMMA PtrEndsEarly ==
  ASSUME NEW file \in Seq(Byte), Len(file) < LengthMod,
         NEW p, NEW r, Parses("Ptr", file, p, r), ~(p[14] < Len(file)), Encodes("Ptr", r)
  PROVE  r.units = <<>> /\ (IsUtf8(file) => Body("Ptr", r) = Append(file, 0))
<1>1. "Ptr" \in Types
  BY DEF Types, Layout
<1>2. Layout["Ptr"][15].when = "more" /\ Layout["Ptr"][15].name = "units"
  <2>1. Layout["Ptr"][15] = Field("units", "Cn", "more", 0)
    BY PtrFields
  <2>2. QED BY <2>1 DEF Field
<1>3. 15 \in 1 .. Len(Layout["Ptr"]) /\ 15 - 1 = 14
  <2>1. Len(Layout["Ptr"]) = 15
    BY PtrFields
  <2>2. QED BY <2>1
<1>4. p[14] = Len(file) /\ p[14] \in 0 .. Len(file)
  <2>1. p[14] \in 0 .. Len(file)
    BY <1>1, <1>3, EndsGrow
  <2>2. QED BY <2>1
<1>5. Behind(file, p[14]) = <<>>
  BY <1>4, NothingBehind
<1>6. ~Looks("Ptr", file, p, r, 15)
  BY <1>2, <1>3, <1>5, SoughtIs DEF Looks
<1>7. r.units = <<>>
  <2>1. r[Layout["Ptr"][15].name] = Missing(Layout["Ptr"][15], r)
    BY <1>1, <1>3, <1>6, ParsesField DEF Looks
  <2>2. Missing(Layout["Ptr"][15], r) = <<>>
    BY <1>2 DEF Missing
  <2>3. QED BY <1>2, <2>1, <2>2
<1>8. ASSUME IsUtf8(file)
      PROVE  Body("Ptr", r) = Append(file, 0)
  <2>1. IsRecord("Ptr", r)
    BY <1>1, ParsedIsRecord
  <2>2. PICK g : BodyStands("Ptr", r, g)
    BY <1>1, <2>1, BodyDoesStand
  <2>3. Aligned(p, g, file, 14)
    BY <1>1, <1>8, <2>2, WrittenAgain, PtrAligned
  <2>4. Written(Layout["Ptr"][15], r)
    BY <1>2, WrittenIs
  <2>5. FieldBytes(Layout["Ptr"][15], r) = <<0>>
    BY <1>1, <1>3, <1>6, <2>4, UnsoughtWritten
  <2>6. Body("Ptr", r) = g[14] \o <<0>> /\ g[14] \in Seq(Byte)
    BY <2>1, <2>2, <2>5, UnitsWritten
  <2>7. g[14] = file
    BY <1>4, <2>3, <2>6, WholeCompletes DEF Aligned
  <2>8. QED BY <2>6, <2>7
<1>9. QED BY <1>7, <1>8

\* Reading a body, as long as REC_LEN may say, and writing it again only trims or
\* completes it, and the second time changes nothing.
LEMMA EveryRewriteOnlyTrims ==
  ASSUME NEW typ \in Types, NEW body \in Seq(Byte), Len(body) < LengthMod
  PROVE  RewriteOnlyTrims(typ, body)
<1> DEFINE r == Parse(typ, body).value
           again == Body(typ, r)
<1>1. SUFFICES ASSUME Parse(typ, body).ok
               PROVE  /\ IsUtf8(body) =>
                           /\ Encodes(typ, r)
                           /\ \/ IsPrefix(again, body)
                              \/ /\ IsPrefix(body, again)
                                 /\ \A i \in Len(body) + 1 .. Len(again) : again[i] = 0
                      /\ Encodes(typ, r) /\ Len(again) < LengthMod =>
                           \/ Parse(typ, again).ok /\ Parse(typ, again).value = r
                           \/ /\ typ = "Ptr" /\ ~Canonical(typ, r) /\ r.units = <<>>
                              /\ IsUtf8(body) => again = Append(body, 0)
  BY Zenon DEF RewriteOnlyTrims
<1>2. PICK p : Parses(typ, body, p, r)
  BY <1>1, ParsesIfOk
<1> HIDE DEF r
<1>3. IsRecord(typ, r)
  BY <1>2, ParsedIsRecord
<1>4. ASSUME IsUtf8(body)
      PROVE  /\ Encodes(typ, r)
             /\ \/ IsPrefix(again, body)
                \/ /\ IsPrefix(body, again)
                   /\ \A i \in Len(body) + 1 .. Len(again) : again[i] = 0
  <2>1. Encodes(typ, r)
    BY <1>2, <1>4, FoundIsWritten
  <2>2. PICK g : BodyStands(typ, r, g)
    BY <1>3, <2>1, BodyDoesStand
  <2>3. \/ IsPrefix(again, body)
        \/ /\ IsPrefix(body, again)
           /\ \A i \in Len(body) + 1 .. Len(again) : again[i] = 0
    BY <1>2, <1>4, <2>2, WrittenAgain
  <2>4. QED BY <2>1, <2>3
<1>5. ASSUME Encodes(typ, r), Len(again) < LengthMod
      PROVE  \/ Parse(typ, again).ok /\ Parse(typ, again).value = r
             \/ /\ typ = "Ptr" /\ ~Canonical(typ, r) /\ r.units = <<>>
                /\ IsUtf8(body) => again = Append(body, 0)
  <2>1. CASE Canonical(typ, r)
    BY <1>3, <1>5, <2>1, CanonicalIsRead
  <2>2. CASE ~Canonical(typ, r)
    <3>1. typ = "Ptr" /\ ~(p[14] < Len(body))
      BY <1>2, <2>2, ParsedIsCanonical
    <3>2. Parses("Ptr", body, p, r) /\ Encodes("Ptr", r)
      BY <1>2, <1>5, <3>1
    <3>3. r.units = <<>> /\ (IsUtf8(body) => Body("Ptr", r) = Append(body, 0))
      BY <3>1, <3>2, PtrEndsEarly
    <3>4. QED BY <2>2, <3>1, <3>3
  <2>3. QED BY <2>1, <2>2
<1>6. QED BY <1>4, <1>5, Zenon

\* A record comes back from a file as the one that was written exactly if its
\* fields agree with its flags and REC_LEN can hold the length of its body
\* (Record::encode and parse), whatever the record and the width of REC_LEN.
THEOREM RecordsDoRoundTrip == Spec => []RecordsRoundTrip
<1>1. Given => RecordsRoundTrip
  BY EveryRecordRoundTrips DEF Given, RecordsRoundTrip
<1>2. QED BY <1>1, InputsAreGiven, PTL

\* Reading a body and writing it again only trims or completes it, and the
\* second time changes nothing, but for a PTR that ends before UNITS
\* (Record::parse, then encode), whatever the body.
THEOREM RewritesDoOnlyTrim == Spec => []RewritesOnlyTrim
<1>1. Given => RewritesOnlyTrim
  BY EveryRewriteOnlyTrims DEF Given, RewritesOnlyTrim
<1>2. QED BY <1>1, InputsAreGiven, PTL
=============================================================================
