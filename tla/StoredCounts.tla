---------------------------- MODULE StoredCounts ---------------------------
(***************************************************************************)
(* The number of DIs stored in each location, kept beside the DIs          *)
(* (syncEmplacementStats of src/src/di/di.service.ts): the DI is written,  *)
(* then the DIs of the location are counted, then the count is written.    *)
(***************************************************************************)
EXTENDS Integers, FiniteSets

CONSTANTS
    StoredDis,     \* the DIs
    Locations,     \* the locations
    Placers,       \* the requests in flight at once
    MaxPlacements  \* bound on the requests

ASSUME PlacementBounds ==
    /\ MaxPlacements \in Nat /\ IsFiniteSet(StoredDis)
    /\ Locations \cap {"none", "unborn", "deleted"} = {}

VARIABLES
    place,      \* place[d]: "none", a location, or "deleted" when not counted
    counted,    \* counted[l]: storedDiCount
    placer,     \* placer[p]: a request [at, di, to, from, todo, seen]
    placements, \* the requests so far
    crossing,   \* history: two requests were in flight at once
    halfway,    \* history: a request stopped between the DI and the counts
    late        \* history: a DI that had no location was given one by updateDi

placeVars == <<place, counted, placer, placements, crossing, halfway, late>>

Quiet == [at |-> "idle", di |-> {}, to |-> "none", from |-> "none", todo |-> {}, seen |-> 0]
Resting == \A p \in Placers : placer[p].at = "idle"
InLocation(l) == Cardinality({d \in StoredDis : place[d] = l})

StoredTypeOK ==
    /\ place \in [StoredDis -> Locations \cup {"none", "unborn", "deleted"}]
    /\ counted \in [Locations -> 0..Cardinality(StoredDis)]
    /\ \A p \in Placers :
          /\ placer[p].at \in {"idle", "write", "count", "put"}
          /\ placer[p].todo \subseteq Locations
          /\ placer[p].seen \in 0..Cardinality(StoredDis)
    /\ placements \in 0..MaxPlacements

StoredInit ==
    /\ place = [d \in StoredDis |-> "unborn"]
    /\ counted = [l \in Locations |-> 0]
    /\ placer = [p \in Placers |-> Quiet]
    /\ placements = 0
    /\ crossing = FALSE /\ halfway = FALSE /\ late = FALSE

Begin(p) ==
    /\ placer[p].at = "idle"
    /\ placements < MaxPlacements /\ placements' = placements + 1
    /\ crossing' = (crossing \/ ~Resting)

\* createDi, with or without a location.
CreateDi(p, d, l) ==
    /\ Begin(p)
    /\ place[d] = "unborn"
    /\ place' = [place EXCEPT ![d] = l]
    /\ placer' = [placer EXCEPT ![p] = [Quiet EXCEPT !.at = "count",
                                        !.todo = {l} \cap Locations]]
    /\ UNCHANGED <<counted, halfway, late>>

\* updateDi: the location before is read, the new one written, and both are counted.
ReadPlace(p, d, l) ==
    /\ Begin(p)
    /\ place[d] \in Locations \cup {"none"}
    /\ placer' = [placer EXCEPT ![p] = [Quiet EXCEPT !.at = "write", !.di = {d},
                                        !.to = l, !.from = place[d]]]
    /\ UNCHANGED <<place, counted, halfway, late>>

\* Mutant of ToCount: the location left is forgotten.
ToCountNew(from, to) == IF from \in Locations /\ from # to THEN {to} \cap Locations ELSE {}
ToCount(from, to) == IF from \in Locations /\ from # to THEN {from, to} \cap Locations ELSE {}

WritePlace(p, d) ==
    /\ placer[p].at = "write" /\ d \in placer[p].di
    /\ LET to == placer[p].to  from == placer[p].from IN
       /\ place' = IF place[d] = "deleted" THEN place ELSE [place EXCEPT ![d] = to]
       /\ placer' = [placer EXCEPT ![p] = [Quiet EXCEPT !.at = "count",
                                           !.todo = ToCount(from, to)]]
       /\ late' = (late \/ (from = "none" /\ to \in Locations))
    /\ UNCHANGED <<counted, placements, crossing, halfway>>

\* deleteDi: the location is read before the DI is marked.
\* Mutant of CountedAfterDelete: it is not counted again.
CountedAfterDeleteNone(l) == {}
CountedAfterDelete(l) == {l} \cap Locations

DeleteStored(p, d) ==
    /\ Begin(p)
    /\ place[d] \in Locations \cup {"none"}
    /\ place' = [place EXCEPT ![d] = "deleted"]
    /\ placer' = [placer EXCEPT ![p] = [Quiet EXCEPT !.at = "count",
                                        !.todo = CountedAfterDelete(place[d])]]
    /\ UNCHANGED <<counted, halfway, late>>

CountStored(p, l) ==
    /\ placer[p].at = "count" /\ l \in placer[p].todo
    /\ placer' = [placer EXCEPT ![p].at = "put", ![p].to = l, ![p].seen = InLocation(l)]
    /\ UNCHANGED <<place, counted, placements, crossing, halfway, late>>

PutCount(p) ==
    /\ placer[p].at = "put"
    /\ counted' = [counted EXCEPT ![placer[p].to] = placer[p].seen]
    /\ placer' = [placer EXCEPT ![p].at = "count", ![p].todo = @ \ {placer[p].to}]
    /\ UNCHANGED <<place, placements, crossing, halfway, late>>

EndPlacement(p) ==
    /\ placer[p].at = "count" /\ placer[p].todo = {}
    /\ placer' = [placer EXCEPT ![p] = Quiet]
    /\ UNCHANGED <<place, counted, placements, crossing, halfway, late>>

\* The process stops, or the base refuses a count.
StopPlacement(p) ==
    /\ placer[p].at \in {"write", "count", "put"}
    /\ halfway' = TRUE
    /\ placer' = [placer EXCEPT ![p] = Quiet]
    /\ UNCHANGED <<place, counted, placements, crossing, late>>

StoredNext == \E p \in Placers :
    \/ \E d \in StoredDis, l \in Locations \cup {"none"} : CreateDi(p, d, l) \/ ReadPlace(p, d, l)
    \/ \E d \in StoredDis : WritePlace(p, d) \/ DeleteStored(p, d)
    \/ \E l \in Locations : CountStored(p, l)
    \/ PutCount(p) \/ EndPlacement(p) \/ StopPlacement(p)

StoredSpec == StoredInit /\ [][StoredNext]_placeVars

----------------------------------------------------------------------------
(* What the counts promise.                                                *)

\* At rest each count is that of the DIs in the location, when the requests came one at a
\* time, none stopped halfway and no DI got its first location after its creation.
CountsRight ==
    Resting /\ ~crossing /\ ~halfway /\ ~late =>
        \A l \in Locations : counted[l] = InLocation(l)

\* The counts beside the DIs: their types, and their agreement with the DIs.
StoredCountsInv == StoredTypeOK /\ CountsRight
=============================================================================
