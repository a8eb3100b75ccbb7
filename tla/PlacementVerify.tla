-------------------------- MODULE PlacementVerify --------------------------
(***************************************************************************)
(* verify_placements (src/tpt-ate-assembly/src/verify.rs): the records of  *)
(* a finished assembly run against the layout (layout.rs).                 *)
(*                                                                         *)
(* Violations are a set; their order and the reported numbers are left     *)
(* out.  A layout is its extent, its dies and its sites.                   *)
(***************************************************************************)
EXTENDS Integers, Sequences

\* PointNm, InterposerLayout and PlacementRecord, without design and technique.
Points == [x : Int, y : Int]
Layouts ==
  [extent : Points,
   dies : Seq([chiplet_id : STRING, width : Int, height : Int]),
   sites : Seq([site_id : STRING, chiplet_id : STRING, position : Points, orientation : STRING])]
PlacementRecords ==
  [site_id : STRING, chiplet_id : STRING, nominal : Points, placed : Points, orientation : STRING]

SitesNamed(layout, site_id) ==
  {i \in DOMAIN layout.sites : layout.sites[i].site_id = site_id}
DiesNamed(layout, chiplet_id) ==
  {i \in DOMAIN layout.dies : layout.dies[i].chiplet_id = chiplet_id}

First(indices) == CHOOSE i \in indices : \A j \in indices : i <= j

\* InterposerLayout::site and die_spec: the first of that name.
SiteOf(layout, record) == layout.sites[First(SitesNamed(layout, record.site_id))]
DieOf(layout, record) == layout.dies[First(DiesNamed(layout, record.chiplet_id))]

HasSite(layout, record) == SitesNamed(layout, record.site_id) # {}
HasDie(layout, record) == DiesNamed(layout, record.chiplet_id) # {}

Abs(n) == IF n < 0 THEN -n ELSE n
ManhattanDistance(p, q) == Abs(p.x - q.x) + Abs(p.y - q.y)

\* placed_rect: the corner above and to the right of the footprint.
High(layout, record) ==
  [x |-> record.placed.x + DieOf(layout, record).width,
   y |-> record.placed.y + DieOf(layout, record).height]

\* The first record of a site is checked against it, later ones are not.
IsSecond(records, i) == \E j \in 1 .. i - 1 : records[j].site_id = records[i].site_id

Checked(records, layout) ==
  {i \in DOMAIN records : HasSite(layout, records[i]) /\ ~IsSecond(records, i)}

IsOffTarget(record, tolerance) ==
  ManhattanDistance(record.placed, record.nominal) > tolerance

IsOutOfBounds(record, layout) ==
  /\ HasDie(layout, record)
  /\ \/ record.placed.x < 0 \/ record.placed.y < 0
     \/ High(layout, record).x > layout.extent.x
     \/ High(layout, record).y > layout.extent.y

\* Variant for a sensitivity check: only neighbours in the list are compared.
OverlapsNext(records, layout, i, j) ==
  LET a == records[i]  b == records[j]
  IN /\ j = i + 1
     /\ HasDie(layout, a) /\ HasDie(layout, b)
     /\ a.placed.x < High(layout, b).x /\ b.placed.x < High(layout, a).x
     /\ a.placed.y < High(layout, b).y /\ b.placed.y < High(layout, a).y

Overlaps(records, layout, i, j) ==
  LET a == records[i]  b == records[j]
  IN /\ i < j
     /\ HasDie(layout, a) /\ HasDie(layout, b)
     /\ a.placed.x < High(layout, b).x /\ b.placed.x < High(layout, a).x
     /\ a.placed.y < High(layout, b).y /\ b.placed.y < High(layout, a).y

Violation(kind, site_id) == [kind |-> kind, site_id |-> site_id]

Violations(records, layout, tolerance) ==
  LET checked == Checked(records, layout)
      Named(kind, indices) == {Violation(kind, records[i].site_id) : i \in indices}
  IN Named("UnknownSite", {i \in DOMAIN records : ~HasSite(layout, records[i])})
     \cup Named("DuplicatePlacement",
                {i \in DOMAIN records : HasSite(layout, records[i]) /\ IsSecond(records, i)})
     \cup Named("OrientationMismatch",
                {i \in checked : records[i].orientation # SiteOf(layout, records[i]).orientation})
     \cup Named("OffTarget", {i \in checked : IsOffTarget(records[i], tolerance)})
     \cup Named("OutOfBounds", {i \in checked : IsOutOfBounds(records[i], layout)})
     \cup {Violation("MissingPlacement", layout.sites[k].site_id) :
             k \in {k \in DOMAIN layout.sites :
                      \A i \in DOMAIN records : records[i].site_id # layout.sites[k].site_id}}
     \cup Named("Overlap",
                {i \in DOMAIN records :
                   \E j \in DOMAIN records : Overlaps(records, layout, i, j)})

\* PlacementReport::is_ok
IsOk(records, layout, tolerance) == Violations(records, layout, tolerance) = {}

----------------------------------------------------------------------------
(* What the verdict means                                                  *)

\* A layout that can be built: each site has a name of its own, and each die
\* covers something.  The code checks neither.
Buildable(layout) ==
  /\ \A k, l \in DOMAIN layout.sites :
       layout.sites[k].site_id = layout.sites[l].site_id => k = l
  /\ \A d \in DOMAIN layout.dies : layout.dies[d].width > 0 /\ layout.dies[d].height > 0

\* The records say of their site what the layout says, and of every die the
\* layout has a footprint.
FollowsLayout(records, layout) ==
  \A i \in {i \in DOMAIN records : HasSite(layout, records[i])} :
    /\ records[i].nominal = SiteOf(layout, records[i]).position
    /\ records[i].chiplet_id = SiteOf(layout, records[i]).chiplet_id
    /\ HasDie(layout, records[i])

\* The cells of the interposer that a placed die covers.
Cells(record, layout) ==
  (record.placed.x .. High(layout, record).x - 1) \X (record.placed.y .. High(layout, record).y - 1)

OnSite(record, site, tolerance) ==
  /\ record.site_id = site.site_id /\ record.chiplet_id = site.chiplet_id
  /\ record.orientation = site.orientation
  /\ ManhattanDistance(record.placed, site.position) <= tolerance

\* Each site has one die, and each die its site: the site's chiplet, turned as
\* the site is, within the tolerance of it, on the interposer, and on no cell
\* that another covers.
Assembled(records, layout, tolerance) ==
  LET extent == (0 .. layout.extent.x - 1) \X (0 .. layout.extent.y - 1)
  IN /\ Len(records) = Len(layout.sites)
     /\ \A k \in DOMAIN layout.sites : \E i \in DOMAIN records :
          OnSite(records[i], layout.sites[k], tolerance)
     /\ \A i \in DOMAIN records : Cells(records[i], layout) \subseteq extent
     /\ \A i, j \in DOMAIN records :
          i # j => Cells(records[i], layout) \cap Cells(records[j], layout) = {}

\* For records that follow a layout that can be built, a report without violations says that
\* the package is assembled as laid out, and only such a package gets one.
OkMeansAssembled(records, layout, tolerance) ==
  Buildable(layout) /\ FollowsLayout(records, layout) =>
    (IsOk(records, layout, tolerance) <=> Assembled(records, layout, tolerance))

\* verify.rs: the "deviation of the as-placed bottom-left corner from the
\* nominal site position" is at most the tolerance: of every placement in a
\* report without violations.
OkMeansOnSite(records, layout, tolerance) ==
  IsOk(records, layout, tolerance) =>
    \A i \in DOMAIN records :
      ManhattanDistance(records[i].placed, SiteOf(layout, records[i]).position) <= tolerance
=============================================================================
