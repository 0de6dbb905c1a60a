----------------------------- MODULE OcrRegions -----------------------------
(***************************************************************************)
(* parse_ocr_regions (inference/postprocess.rs): the loop that turns a     *)
(* generated text into items of text and points.                           *)
(*                                                                         *)
(* The text is a sequence of pieces: a word, a well-formed <loc_N>, or a   *)
(* "<loc_" that no <loc_N> follows from ("malformed").  N stands for the   *)
(* pixel coordinate as well: scale_loc is monotone.                        *)
(***************************************************************************)
EXTENDS Naturals, Sequences, FiniteSets, FiniteSetsExt

CONSTANT MaxLocationToken   \* MAX_LOCATION_TOKEN: 999 in the code

ASSUME LocationAssumption == MaxLocationToken \in Nat

VARIABLES
    cursor,     \* position of the first piece not yet consumed
    items       \* the items found so far

ocrVars == <<cursor, items>>

OcrInit == cursor = 1 /\ items = <<>>

IsLoc(p)     == p.kind = "loc"
StartsLoc(p) == p.kind \in {"loc", "malformed"}    \* find("<loc_")

\* parse_loc_token_at: the number is clamped.
LocValue(p) == IF p.value > MaxLocationToken THEN MaxLocationToken ELSE p.value

\* The points of a run of locations: chunks_exact(2) drops an odd one.
Points(locs) == [i \in 1..(Len(locs) \div 2) |-> <<locs[2 * i - 1], locs[2 * i]>>]

BoundingBox(points) ==
    LET xs == {points[i][1] : i \in DOMAIN points}
        ys == {points[i][2] : i \in DOMAIN points}
    IN  <<Min(xs), Min(ys), Max(xs), Max(ys)>>

\* ocr_region_item: nothing for fewer than two points.
RegionItem(text, locs) ==
    IF Len(locs) < 4 THEN <<>>
    ELSE << [text |-> text, loc_tokens |-> locs, polygon |-> Points(locs),
             bbox |-> BoundingBox(Points(locs))] >>

\* The next "<loc_" at or after the cursor, if there is one.
LocStarts(text) == {i \in DOMAIN text : i >= cursor /\ StartsLoc(text[i])}

\* Where the run of well-formed locations that starts at `start` ends.
RunEnd(text, start) ==
    Min({i \in start..(Len(text) + 1) : i > Len(text) \/ ~IsLoc(text[i])})

\* Mutant of ParseNext: the text of an item starts at the beginning.
ParseNextFromStart(text) ==
    /\ LocStarts(text) # {}
    /\ LET start == Min(LocStarts(text))
           end   == RunEnd(text, start)
           locs  == [i \in 1..(end - start) |-> LocValue(text[start + i - 1])]
           words == SelectSeq(SubSeq(text, 1, start - 1), LAMBDA p : ~IsLoc(p))
       IN  /\ items' = items \o RegionItem(words, locs)
           /\ cursor' = end

\* One turn of the outer loop.  When the "<loc_" it found is malformed, no
\* location is read and the cursor stays at it.
ParseNext(text) ==
    /\ LocStarts(text) # {}
    /\ LET start == Min(LocStarts(text))
           end   == RunEnd(text, start)
           locs  == [i \in 1..(end - start) |-> LocValue(text[start + i - 1])]
       IN  /\ items' = items \o RegionItem(SubSeq(text, cursor, start - 1), locs)
           /\ cursor' = end

ParseEnds(text) == LocStarts(text) = {}

-----------------------------------------------------------------------------
(* What the parser is to return, without a cursor: comment and test of     *)
(* postprocess.rs.  An item is a maximal run of at least four locations,   *)
(* with the pieces between the run before it and its own.                  *)

IsRun(text, a, b) ==
    /\ \A i \in a..b : IsLoc(text[i])
    /\ a = 1 \/ ~IsLoc(text[a - 1])
    /\ b = Len(text) \/ ~IsLoc(text[b + 1])

\* The piece after the last location before position a.
TextStart(text, a) == Max({0} \cup {i \in 1..(a - 1) : IsLoc(text[i])}) + 1

Encloses(bbox, points) ==
    /\ \A i \in DOMAIN points :
         /\ bbox[1] <= points[i][1] /\ points[i][1] <= bbox[3]
         /\ bbox[2] <= points[i][2] /\ points[i][2] <= bbox[4]
    /\ \E i, k, m, n \in DOMAIN points :
         bbox = <<points[i][1], points[k][2], points[m][1], points[n][2]>>

\* item is what the run text[a..b] stands for.
Describes(item, text, a, b) ==
    /\ item.text = SubSeq(text, TextStart(text, a), a - 1)
    /\ Len(item.loc_tokens) = b - a + 1
    /\ \A i \in DOMAIN item.loc_tokens :
         /\ item.loc_tokens[i] = LocValue(text[a + i - 1])
         /\ 2 * ((i + 1) \div 2) <= Len(item.loc_tokens) =>
              item.polygon[(i + 1) \div 2][IF i % 2 = 1 THEN 1 ELSE 2] = item.loc_tokens[i]
    /\ Encloses(item.bbox, item.polygon)

RegionRuns(text) ==
    {r \in (DOMAIN text) \X (DOMAIN text) : r[2] >= r[1] + 3 /\ IsRun(text, r[1], r[2])}

\* found lists the regions of text, each once and in order.
IsRegionList(found, text) ==
    /\ Len(found) = Cardinality(RegionRuns(text))
    /\ \A r \in RegionRuns(text) :
         Describes(found[Cardinality({q \in RegionRuns(text) : q[1] <= r[1]})],
                   text, r[1], r[2])

=============================================================================
