------------------------- MODULE TaskPipelineProofs -------------------------
(***************************************************************************)
(* Proofs about TaskPipeline, and with it about Submission and Inference,  *)
(* for every set of requests, vocabulary, limit of new tokens and          *)
(* behaviour of the decoder.                                               *)
(***************************************************************************)
EXTENDS TaskPipeline, SequenceTheorems, FiniteSetTheorems, WellFoundedInduction, TLAPS

(* Generation and its cache (inference.rs generate_once).                  *)

\* The tokens generated, and those the cache covers.
DecoderType == ids \in Seq(Vocabulary) /\ cache \in Seq(Vocabulary)

\* The last of the tokens a decoder is fed.
LEMMA FedTokens ==
    ASSUME ids \in Seq(Vocabulary)
    PROVE  /\ Fed \in Seq(Vocabulary) /\ Fed # NoCache
           /\ Len(Fed) = Len(ids) + 1
           /\ \A p \in Vocabulary : ids' = Append(ids, p) =>
                /\ Fed' = Append(Fed, p)
                /\ Fed'[Len(Fed')] = p
<1>1. Eos \in Vocabulary /\ <<Eos>> \in Seq(Vocabulary) /\ Len(<<Eos>>) = 1
  BY InferenceAssumption
<1>2. Fed \in Seq(Vocabulary) /\ Len(Fed) = Len(ids) + 1
  BY <1>1, ConcatProperties, LenProperties DEF Fed
<1>3. Fed # NoCache
  BY <1>2, LenProperties DEF NoCache
<1>4. ASSUME NEW p \in Vocabulary, ids' = Append(ids, p)
      PROVE  Fed' = Append(Fed, p) /\ Fed'[Len(Fed')] = p
  <2>1. Fed' = <<Eos>> \o Append(ids, p)
    BY <1>4 DEF Fed
  <2>2. <<Eos>> \o Append(ids, p) = Append(<<Eos>> \o ids, p)
    BY <1>1, AppendIsConcat, ConcatAssociative, ConcatProperties
  <2>3. Fed' = Append(Fed, p)
    BY <2>1, <2>2 DEF Fed
  <2>. QED
    BY <1>2, <2>3, AppendProperties
<1>. QED
  BY <1>2, <1>3, <1>4

\* What may be picked is in the vocabulary.
LEMMA PickedTokens ==
    ASSUME ids \in Seq(Vocabulary), Generating, NEW token
    PROVE  Pieces(token) \subseteq Vocabulary
<1>1. Len(ids) \in Nat /\ Len(ids) < MaxNewTokens
  BY LenProperties DEF Generating
<1>2. Len(ids) + 1 \in 1..MaxNewTokens
  BY <1>1, InferenceAssumption
<1>. QED
  BY <1>2, InferenceAssumption DEF Pieces

\* A step of the pipeline leaves the inference alone, begins it, goes on with
\* it, or fails it.
LEMMA InferenceSteps ==
    ASSUME [PipelineNext]_pipelineVars
    PROVE  \/ UNCHANGED vars
           \/ StartInference
           \/ Infer
           \/ /\ step # "waiting" /\ step' = "failed"
              /\ UNCHANGED <<task, textInput, steps, encoded, ids, cache, attends, text, generations,
                             ocrVars>>
  BY DEF PipelineNext, pipelineVars, Submit, Disturb, ImageFails, ModelFails, SessionFails, Fail, vars, inferVars

\* The inductive invariant of the decoder.
DecoderInv == DecoderType /\ CacheCoversPrefix

\* One step per step of the loop.
LEMMA DecoderStep == DecoderInv /\ [PipelineNext]_pipelineVars => DecoderInv'
<1>. SUFFICES ASSUME DecoderInv, [PipelineNext]_pipelineVars PROVE DecoderInv'
  OBVIOUS
<1>. USE DEF DecoderInv, DecoderType, CacheCoversPrefix
<1>1. CASE UNCHANGED vars
  BY <1>1 DEF vars, inferVars, Fed
<1>2. CASE StartInference
  BY <1>2 DEF StartInference, Receive
<1>3. CASE step' = "failed" /\ UNCHANGED <<ids, cache>>
  BY <1>3
<1>4. CASE EncodeImage \/ BeginGeneration \/ TextMissing \/ EndDecoding \/ EndParse \/ EndGeneration
  <2>1. CASE BeginGeneration
    BY <2>1, EmptySeq DEF BeginGeneration, NoCache
  <2>2. CASE EncodeImage \/ TextMissing \/ EndDecoding \/ EndParse \/ EndGeneration
    BY <2>2 DEF EncodeImage, TextMissing, Fail, EndDecoding, EndParse, EndGeneration
  <2>. QED
    BY <1>4, <2>1, <2>2
<1>5. CASE ParseRegion
  BY <1>5 DEF ParseRegion, inferVars
<1>6. CASE DecodeFirst \/ DecodeCached
  <2>. PICK p \in Vocabulary : ids' = Append(ids, p)
    BY <1>6, PickedTokens DEF DecodeFirst, DecodeCached, Pick
  <2>1. cache' = Fed /\ attends' = encoded /\ encoded' = encoded
    <3>1. CASE DecodeFirst
      BY <3>1 DEF DecodeFirst
    <3>2. CASE DecodeCached
      BY <3>2 DEF DecodeCached, Generating
    <3>. QED
      BY <1>6, <3>1, <3>2
  <2>2. ids' \in Seq(Vocabulary)
    BY AppendProperties
  <2>. QED
    BY <2>1, <2>2, FedTokens
<1>. QED
  BY <1>1, <1>2, <1>3, <1>4, <1>5, <1>6, InferenceSteps DEF Infer, Advance

\* Whatever the decoder picks, the cached path has seen every token of this
\* generation but the last, once and in order, against the encoder output of
\* this generation (inference.rs run_cached_decoder_model).
THEOREM CacheCoversPrefixCorrect == PipelineSpec => []CacheCoversPrefix
<1>1. PipelineInit => DecoderInv
  BY EmptySeq DEF PipelineInit, Init, DecoderInv, DecoderType, CacheCoversPrefix, NoCache
<1>2. DecoderInv => CacheCoversPrefix
  BY DEF DecoderInv
<1>. QED
  BY <1>1, <1>2, DecoderStep, PTL DEF PipelineSpec

-----------------------------------------------------------------------------
(* The items of an OCR text (inference/postprocess.rs parse_ocr_regions).  *)

\* A greatest element is the greatest.
LEMMA MaxIs ==
    ASSUME NEW S, S \subseteq Int, NEW m \in S, \A y \in S : y <= m
    PROVE  Max(S) = m
<1>1. \E x \in S : \A y \in S : x >= y
  OBVIOUS
<1>2. Max(S) \in S /\ \A y \in S : Max(S) >= y
  BY <1>1 DEF Max
<1>3. Max(S) \in Int /\ m \in Int /\ Max(S) <= m /\ Max(S) >= m
  BY <1>2
<1>. QED
  BY <1>3

\* A set of numbers has a least element, and a greatest one if it is bounded.
LEMMA MinOf ==
    ASSUME NEW S, S \subseteq Nat, S # {}
    PROVE  Min(S) \in S /\ \A y \in S : Min(S) <= y
<1>1. \E x \in S : \A y \in S : ~ (<<y, x>> \in OpToRel(<, Nat))
  BY WFMin, NatLessThanWellFounded
<1>2. \A x, y \in Nat : ~ (<<y, x>> \in OpToRel(<, Nat)) => x <= y
  BY DEF OpToRel
<1>3. \E x \in S : \A y \in S : x <= y
  BY <1>1, <1>2
<1>. QED
  BY <1>3 DEF Min

\* A bounded set of numbers has a greatest one.
LEMMA MaxOf ==
    ASSUME NEW S, S \subseteq Nat, S # {}, NEW n \in Nat, \A y \in S : y <= n
    PROVE  Max(S) \in S /\ \A y \in S : y <= Max(S)
<1>. DEFINE D == {n - x : x \in S}
<1>1. D \subseteq Nat /\ D # {}
  <2>1. \A x \in S : n - x \in Nat
    OBVIOUS
  <2>. QED
    BY <2>1
<1>2. PICK x \in S : Min(D) = n - x
  BY <1>1, MinOf
<1>3. \A y \in S : n - x <= n - y
  BY <1>1, <1>2, MinOf
<1>4. \A y \in S : y <= x
  BY <1>3
<1>5. S \subseteq Int
  OBVIOUS
<1>6. Max(S) = x
  BY <1>4, <1>5, MaxIs
<1>. QED
  BY <1>4, <1>6

\* The loop finds the first "<loc_" after the cursor and the end of its run.
LEMMA FoundStart ==
    ASSUME NEW t \in Seq(Vocabulary), cursor \in 1..(Len(t) + 1), LocStarts(t) # {},
           NEW start, start = Min(LocStarts(t))
    PROVE  /\ start \in 1..Len(t) /\ start >= cursor /\ StartsLoc(t[start])
           /\ \A i \in cursor..(start - 1) : ~StartsLoc(t[i])
<1>1. Len(t) \in Nat /\ DOMAIN t = 1..Len(t)
  BY LenProperties
<1>2. LocStarts(t) \subseteq Nat
  BY <1>1 DEF LocStarts
<1>3. start \in LocStarts(t) /\ \A y \in LocStarts(t) : start <= y
  BY <1>2, MinOf
<1>4. ASSUME NEW i \in cursor..(start - 1) PROVE ~StartsLoc(t[i])
  <2>1. i \in DOMAIN t /\ i >= cursor /\ ~(start <= i)
    BY <1>1, <1>3 DEF LocStarts
  <2>. QED
    BY <1>3, <2>1 DEF LocStarts
<1>. QED
  BY <1>1, <1>3, <1>4 DEF LocStarts

\* A run ends at the first token that is no location, or at the end of the text.
LEMMA FoundEnd ==
    ASSUME NEW t \in Seq(Vocabulary), NEW start \in 1..Len(t), NEW end, end = RunEnd(t, start)
    PROVE  /\ end \in start..(Len(t) + 1)
           /\ \A i \in start..(end - 1) : IsLoc(t[i])
           /\ end <= Len(t) => ~IsLoc(t[end])
<1>. DEFINE E == {i \in start..(Len(t) + 1) : i > Len(t) \/ ~IsLoc(t[i])}
<1>1. Len(t) \in Nat
  BY LenProperties
<1>2. E \subseteq Nat /\ Len(t) + 1 \in E
  BY <1>1
<1>3. end \in E /\ \A y \in E : end <= y
  BY <1>2, MinOf DEF RunEnd
<1>4. ASSUME NEW i \in start..(end - 1) PROVE IsLoc(t[i])
  <2>1. i \in start..(Len(t) + 1) /\ ~(end <= i)
    BY <1>1, <1>3
  <2>2. i \notin E
    BY <1>3, <2>1
  <2>. QED
    BY <2>1, <2>2
<1>. QED
  BY <1>1, <1>3, <1>4

\* ocr_region_item: the polygon has the locations in order, and the box is
\* the smallest around it.
LEMMA PointsAre ==
    ASSUME NEW locs \in Seq(Nat), NEW i \in 1..Len(locs), 2 * ((i + 1) \div 2) <= Len(locs)
    PROVE  Points(locs)[(i + 1) \div 2][IF i % 2 = 1 THEN 1 ELSE 2] = locs[i]
<1>. DEFINE k == (i + 1) \div 2
<1>1. Len(locs) \in Nat
  BY LenProperties
<1>2. k \in 1..(Len(locs) \div 2)
  BY <1>1
<1>3. Points(locs)[k] = <<locs[2 * k - 1], locs[2 * k]>>
  BY <1>2 DEF Points
<1>. DEFINE point == Points(locs)[k]
<1>6. point[1] = locs[2 * k - 1] /\ point[2] = locs[2 * k]
  BY <1>3
<1>4. CASE i % 2 = 1
  <2>1. 2 * k - 1 = i
    BY <1>4
  <2>2. point[1] = locs[i]
    BY <1>6, <2>1
  <2>. HIDE DEF point
  <2>3. point[IF i % 2 = 1 THEN 1 ELSE 2] = locs[i]
    BY <1>4, <2>2
  <2>. QED
    BY <2>3 DEF point
<1>5. CASE i % 2 # 1
  <2>1. 2 * k = i
    BY <1>5
  <2>2. point[2] = locs[i]
    BY <1>6, <2>1
  <2>. HIDE DEF point
  <2>3. point[IF i % 2 = 1 THEN 1 ELSE 2] = locs[i]
    BY <1>5, <2>2
  <2>. QED
    BY <2>3 DEF point
<1>. QED
  BY <1>4, <1>5

\* The box of a polygon encloses its points.
LEMMA BoxEncloses ==
    ASSUME NEW locs \in Seq(Nat), Len(locs) >= 4,
           \A i \in 1..Len(locs) : locs[i] <= MaxLocationToken
    PROVE  Encloses(BoundingBox(Points(locs)), Points(locs))
<1>. DEFINE points == Points(locs)
            xs == {points[i][1] : i \in DOMAIN points}
            ys == {points[i][2] : i \in DOMAIN points}
<1>1. Len(locs) \in Nat
  BY LenProperties
<1>2. DOMAIN points = 1..(Len(locs) \div 2) /\ 1 \in DOMAIN points
  BY <1>1 DEF Points
<1>3. \A i \in DOMAIN points :
        /\ 2 * i - 1 \in 1..Len(locs) /\ 2 * i \in 1..Len(locs)
        /\ points[i][1] = locs[2 * i - 1] /\ points[i][2] = locs[2 * i]
  BY <1>1, <1>2 DEF Points
<1>4. \A i \in DOMAIN points :
        /\ points[i][1] \in Nat /\ points[i][1] <= MaxLocationToken
        /\ points[i][2] \in Nat /\ points[i][2] <= MaxLocationToken
  BY <1>3, ElementOfSeq
<1>5. /\ xs \subseteq Nat /\ xs # {} /\ \A x \in xs : x <= MaxLocationToken
      /\ ys \subseteq Nat /\ ys # {} /\ \A y \in ys : y <= MaxLocationToken
  BY <1>2, <1>4
<1>. DEFINE box == BoundingBox(points)
<1>6. box = <<Min(xs), Min(ys), Max(xs), Max(ys)>>
  BY DEF BoundingBox
<1>7. box[1] = Min(xs) /\ box[2] = Min(ys) /\ box[3] = Max(xs) /\ box[4] = Max(ys)
  BY <1>6
<1>8. /\ Min(xs) \in xs /\ \A x \in xs : Min(xs) <= x
      /\ Min(ys) \in ys /\ \A y \in ys : Min(ys) <= y
  BY <1>5, MinOf
<1>9. /\ Max(xs) \in xs /\ \A x \in xs : x <= Max(xs)
      /\ Max(ys) \in ys /\ \A y \in ys : y <= Max(ys)
  BY <1>5, MaxOf, LocationAssumption
<1>10. \E i, k, m, n \in DOMAIN points :
         <<Min(xs), Min(ys), Max(xs), Max(ys)>>
           = <<points[i][1], points[k][2], points[m][1], points[n][2]>>
  BY <1>8, <1>9
<1>11. \A i \in DOMAIN points : points[i][1] \in xs /\ points[i][2] \in ys
  OBVIOUS
<1>. HIDE DEF points, xs, ys, box
<1>12. Encloses(box, points)
  BY <1>6, <1>7, <1>8, <1>9, <1>10, <1>11 DEF Encloses
<1>. QED
  BY <1>12 DEF box, points

\* The runs that begin before a position, and how many come up to a run.
RunsBefore(t, c) == {r \in RegionRuns(t) : r[1] < c}
RankOf(t, r)     == Cardinality({q \in RegionRuns(t) : q[1] <= r[1]})

\* The parser has reached a "<loc_" that it cannot read, and will not pass.
Stuck(t) == cursor \in DOMAIN t /\ StartsLoc(t[cursor]) /\ ~IsLoc(t[cursor])

\* It stands at the start, or behind the last location of a run.
AtGap(t) ==
    cursor = 1 \/ /\ cursor - 1 \in DOMAIN t /\ IsLoc(t[cursor - 1])
                  /\ cursor \in DOMAIN t => ~IsLoc(t[cursor])

\* The items are the runs before it.
ListsRuns(t) ==
    /\ Len(items) = Cardinality(RunsBefore(t, cursor))
    /\ \A r \in RunsBefore(t, cursor) : Describes(items[RankOf(t, r)], t, r[1], r[2])

ParserAgrees(t) ==
    /\ cursor \in 1..(Len(t) + 1)
    /\ \/ Stuck(t)
       \/ AtGap(t) /\ ListsRuns(t) /\ \E S : items \in Seq(S)

\* The runs are pairs of positions, and finitely many.
LEMMA RunsAre ==
    ASSUME NEW t \in Seq(Vocabulary)
    PROVE  /\ IsFiniteSet(RegionRuns(t))
           /\ \A r \in RegionRuns(t) :
                /\ r[1] \in 1..Len(t) /\ r[2] \in 1..Len(t) /\ r = <<r[1], r[2]>>
                /\ r[2] >= r[1] + 3
                /\ \A i \in r[1]..r[2] : IsLoc(t[i])
                /\ r[1] = 1 \/ ~IsLoc(t[r[1] - 1])
                /\ r[2] = Len(t) \/ ~IsLoc(t[r[2] + 1])
<1>. DEFINE P == (1..Len(t)) \X (1..Len(t))
<1>1. Len(t) \in Nat /\ DOMAIN t = 1..Len(t)
  BY LenProperties
<1>2. RegionRuns(t) \subseteq P
  BY <1>1 DEF RegionRuns
<1>3. IsFiniteSet(P)
  <2>1. IsFiniteSet(1..Len(t))
    BY <1>1, FS_Interval
  <2>. QED
    BY <2>1, FS_Product
<1>4. IsFiniteSet(RegionRuns(t))
  BY <1>2, <1>3, FS_Subset
<1>. QED
  BY <1>2, <1>4 DEF RegionRuns, IsRun

\* A turn that begins at a location finds the next run, and the text before it
\* begins at the cursor.
LEMMA NextRun ==
    ASSUME NEW t \in Seq(Vocabulary), cursor \in 1..(Len(t) + 1), AtGap(t), LocStarts(t) # {},
           NEW start, start = Min(LocStarts(t)), NEW end, end = RunEnd(t, start),
           IsLoc(t[start])
    PROVE  /\ end \in (start + 1)..(Len(t) + 1)
           /\ IsRun(t, start, end - 1)
           /\ TextStart(t, start) = cursor
           /\ RunsBefore(t, end) = RunsBefore(t, cursor) \cup
                (IF end - start >= 4 THEN {<<start, end - 1>>} ELSE {})
<1>1. Len(t) \in Nat /\ DOMAIN t = 1..Len(t)
  BY LenProperties
<1>2. /\ start \in 1..Len(t) /\ start >= cursor
      /\ \A i \in cursor..(start - 1) : ~StartsLoc(t[i])
  BY FoundStart
<1>3. /\ end \in start..(Len(t) + 1)
      /\ end <= Len(t) => ~IsLoc(t[end])
      /\ \A i \in start..(end - 1) : IsLoc(t[i])
  BY <1>2, FoundEnd
<1>4. end \in (start + 1)..(Len(t) + 1)
  BY <1>1, <1>2, <1>3
<1>5. \A i \in cursor..(start - 1) : ~IsLoc(t[i])
  BY <1>2 DEF IsLoc, StartsLoc
<1>6. start = 1 \/ ~IsLoc(t[start - 1])
  <2>1. CASE start = cursor
    BY <1>1, <1>2, <2>1 DEF AtGap
  <2>2. CASE start # cursor
    <3>1. start - 1 \in cursor..(start - 1)
      BY <1>2, <2>2
    <3>. QED
      BY <1>5, <3>1
  <2>. QED
    BY <2>1, <2>2
<1>7. IsRun(t, start, end - 1)
  <2>1. (end - 1) + 1 = end /\ (end - 1 = Len(t) \/ end <= Len(t))
    BY <1>1, <1>4
  <2>. QED
    BY <1>3, <1>6, <2>1 DEF IsRun
<1>8. TextStart(t, start) = cursor
  <2>. DEFINE L == {0} \cup {i \in 1..(start - 1) : IsLoc(t[i])}
  <2>1. L \subseteq Int
    BY <1>2
  <2>2. cursor - 1 \in L
    BY <1>1, <1>2 DEF AtGap
  <2>3. \A i \in L : i <= cursor - 1
    BY <1>2, <1>5
  <2>4. Max(L) = cursor - 1
    BY <2>1, <2>2, <2>3, MaxIs
  <2>. QED
    BY <2>4 DEF TextStart
<1>9. ASSUME NEW r \in RegionRuns(t), r[1] >= cursor, r[1] < end
      PROVE  r = <<start, end - 1>> /\ end - start >= 4
  <2>1. /\ r[1] \in 1..Len(t) /\ r[2] \in 1..Len(t) /\ r = <<r[1], r[2]>> /\ r[2] >= r[1] + 3
        /\ \A i \in r[1]..r[2] : IsLoc(t[i])
        /\ r[1] = 1 \/ ~IsLoc(t[r[1] - 1])
        /\ r[2] = Len(t) \/ ~IsLoc(t[r[2] + 1])
    BY RunsAre
  <2>2. IsLoc(t[r[1]])
    BY <2>1
  <2>3. r[1] >= start
    BY <1>2, <1>5, <1>9, <2>1, <2>2
  <2>4. r[1] = start
    <3>. SUFFICES ASSUME r[1] > start PROVE FALSE
      BY <2>3, <2>1, <1>2
    <3>1. r[1] - 1 \in start..(end - 1) /\ r[1] # 1
      BY <1>2, <1>4, <1>9, <2>1
    <3>. QED
      BY <1>3, <2>1, <3>1
  <2>5. ~(r[2] < end - 1)
    <3>. SUFFICES ASSUME r[2] < end - 1 PROVE FALSE
      OBVIOUS
    <3>1. r[2] + 1 \in start..(end - 1) /\ r[2] # Len(t)
      BY <1>1, <1>2, <1>4, <2>1, <2>4
    <3>. QED
      BY <1>3, <2>1, <3>1
  <2>6. ~(r[2] > end - 1)
    <3>. SUFFICES ASSUME r[2] > end - 1 PROVE FALSE
      OBVIOUS
    <3>1. end \in r[1]..r[2] /\ end <= Len(t)
      BY <1>1, <1>2, <1>4, <2>1, <2>4
    <3>. QED
      BY <1>3, <2>1, <3>1
  <2>7. r[2] = end - 1
    <3>1. r[2] \in Int /\ end - 1 \in Int
      BY <1>1, <1>2, <1>4, <2>1
    <3>. QED
      BY <2>5, <2>6, <3>1
  <2>. QED
    BY <1>2, <1>4, <2>1, <2>4, <2>7
<1>10. ASSUME end - start >= 4 PROVE <<start, end - 1>> \in RegionRuns(t)
  <2>1. start \in DOMAIN t /\ end - 1 \in DOMAIN t /\ end - 1 >= start + 3
    BY <1>1, <1>2, <1>4, <1>10
  <2>. QED
    BY <1>7, <2>1 DEF RegionRuns
<1>11. RunsBefore(t, end) \subseteq RunsBefore(t, cursor) \cup
         (IF end - start >= 4 THEN {<<start, end - 1>>} ELSE {})
  <2>. SUFFICES ASSUME NEW r \in RegionRuns(t), r[1] < end, ~(r[1] < cursor)
                PROVE  end - start >= 4 /\ r = <<start, end - 1>>
    BY DEF RunsBefore
  <2>1. r[1] >= cursor
    BY RunsAre
  <2>. QED
    BY <1>9, <2>1
<1>12. RunsBefore(t, cursor) \subseteq RunsBefore(t, end)
  <2>1. cursor <= end
    BY <1>2, <1>4
  <2>2. \A r \in RegionRuns(t) : r[1] \in Int
    BY RunsAre
  <2>. QED
    BY <1>4, <2>1, <2>2 DEF RunsBefore
<1>13. end - start >= 4 => <<start, end - 1>> \in RunsBefore(t, end)
  <2>1. <<start, end - 1>>[1] = start /\ start < end
    BY <1>2, <1>4
  <2>. QED
    BY <1>10, <2>1 DEF RunsBefore
<1>. QED
  BY <1>4, <1>7, <1>8, <1>11, <1>12, <1>13

\* One more item.
LEMMA OneMore ==
    ASSUME NEW S, NEW s \in Seq(S), NEW x
    PROVE  /\ s \o <<x>> \in Seq(S \cup {x}) /\ Len(s \o <<x>>) = Len(s) + 1
           /\ \A i \in 1..Len(s) : (s \o <<x>>)[i] = s[i]
           /\ (s \o <<x>>)[Len(s) + 1] = x
<1>1. s \in Seq(S \cup {x}) /\ <<x>> \in Seq(S \cup {x}) /\ Len(<<x>>) = 1 /\ <<x>>[1] = x
  BY SeqDef
<1>2. Len(s) \in Nat
  BY LenProperties
<1>3. s \o <<x>> \in Seq(S \cup {x}) /\ Len(s \o <<x>>) = Len(s) + 1
  BY <1>1, ConcatProperties
<1>4. \A i \in 1..(Len(s) + 1) : (s \o <<x>>)[i] = IF i <= Len(s) THEN s[i] ELSE <<x>>[i - Len(s)]
  BY <1>1, <1>2, ConcatProperties
<1>5. \A i \in 1..Len(s) : (s \o <<x>>)[i] = s[i]
  BY <1>2, <1>4
<1>6. (s \o <<x>>)[Len(s) + 1] = x
  BY <1>1, <1>2, <1>4
<1>. QED
  BY <1>3, <1>5, <1>6

\* The item of a run of at least four locations describes it.
LEMMA ItemDescribes ==
    ASSUME NEW t \in Seq(Vocabulary), NEW start \in 1..Len(t), NEW end \in (start + 4)..(Len(t) + 1),
           \A i \in start..(end - 1) : IsLoc(t[i]),
           NEW words, words = SubSeq(t, TextStart(t, start), start - 1),
           NEW locs, locs = [i \in 1..(end - start) |-> LocValue(t[start + i - 1])]
    PROVE  \E item : RegionItem(words, locs) = <<item>> /\ Describes(item, t, start, end - 1)
<1>. DEFINE item == [text |-> words, loc_tokens |-> locs, polygon |-> Points(locs),
                     bbox |-> BoundingBox(Points(locs))]
<1>1. Len(t) \in Nat /\ DOMAIN t = 1..Len(t) /\ end - start \in Nat /\ end - start >= 4
  BY LenProperties
<1>2. \A i \in 1..(end - start) :
        LocValue(t[start + i - 1]) \in Nat /\ LocValue(t[start + i - 1]) <= MaxLocationToken
  <2>. SUFFICES ASSUME NEW i \in 1..(end - start)
                PROVE  /\ LocValue(t[start + i - 1]) \in Nat
                       /\ LocValue(t[start + i - 1]) <= MaxLocationToken
    OBVIOUS
  <2>1. start + i - 1 \in start..(end - 1) /\ start + i - 1 \in 1..Len(t)
    BY <1>1
  <2>2. t[start + i - 1] \in Vocabulary /\ IsLoc(t[start + i - 1])
    BY <2>1, ElementOfSeq
  <2>3. t[start + i - 1].value \in Nat
    BY <2>2, InferenceAssumption
  <2>. QED
    BY <2>3, LocationAssumption DEF LocValue
<1>3. locs \in Seq(Nat) /\ Len(locs) = end - start /\ DOMAIN locs = 1..Len(locs)
  <2>1. locs \in [1..(end - start) -> Nat]
    BY <1>2
  <2>2. locs \in Seq(Nat)
    BY <1>1, <2>1, SeqDef
  <2>. QED
    BY <1>1, <2>1, <2>2, LenProperties
<1>4. RegionItem(words, locs) = <<item>>
  <2>1. ~(Len(locs) < 4)
    BY <1>1, <1>3
  <2>. QED
    BY <2>1 DEF RegionItem
<1>5. \A i \in DOMAIN locs : locs[i] = LocValue(t[start + i - 1]) /\ locs[i] <= MaxLocationToken
  BY <1>2, <1>3
<1>6. \A i \in DOMAIN locs : 2 * ((i + 1) \div 2) <= Len(locs) =>
        Points(locs)[(i + 1) \div 2][IF i % 2 = 1 THEN 1 ELSE 2] = locs[i]
  BY <1>3, PointsAre
<1>7. Encloses(BoundingBox(Points(locs)), Points(locs))
  BY <1>1, <1>3, <1>5, BoxEncloses
<1>8. /\ item.text = words /\ item.loc_tokens = locs /\ item.polygon = Points(locs)
      /\ item.bbox = BoundingBox(Points(locs))
  OBVIOUS
<1>9. Len(locs) = (end - 1) - start + 1
  BY <1>1, <1>3
<1>. HIDE DEF item
<1>10. Describes(item, t, start, end - 1)
  BY <1>5, <1>6, <1>7, <1>8, <1>9 DEF Describes
<1>. QED
  BY <1>4, <1>10

\* What is left when the loop ends is the list of all runs.
LEMMA ParserEnds ==
    ASSUME NEW t \in Seq(Vocabulary), ParserAgrees(t), ParseEnds(t)
    PROVE  IsRegionList(items, t)
<1>1. Len(t) \in Nat /\ DOMAIN t = 1..Len(t)
  BY LenProperties
<1>2. \A i \in DOMAIN t : i >= cursor => ~StartsLoc(t[i])
  BY DEF ParseEnds, LocStarts
<1>3. ~Stuck(t)
  BY <1>1, <1>2 DEF Stuck, ParserAgrees
<1>4. RunsBefore(t, cursor) = RegionRuns(t)
  <2>. SUFFICES ASSUME NEW r \in RegionRuns(t) PROVE r[1] < cursor
    BY DEF RunsBefore
  <2>1. r[1] \in DOMAIN t /\ r[1] \in r[1]..r[2] /\ \A i \in r[1]..r[2] : IsLoc(t[i])
    BY <1>1, RunsAre
  <2>2. StartsLoc(t[r[1]])
    BY <2>1 DEF StartsLoc, IsLoc
  <2>. QED
    BY <1>1, <1>2, <2>1, <2>2 DEF ParserAgrees
<1>. QED
  BY <1>3, <1>4 DEF ParserAgrees, ListsRuns, RankOf, IsRegionList

\* Every turn keeps the items the runs before the cursor.
LEMMA ParserStep ==
    ASSUME NEW t \in Seq(Vocabulary), ParserAgrees(t), ParseNext(t)
    PROVE  ParserAgrees(t)'
<1>. DEFINE start == Min(LocStarts(t))
            end   == RunEnd(t, start)
            locs  == [i \in 1..(end - start) |-> LocValue(t[start + i - 1])]
            words == SubSeq(t, cursor, start - 1)
<1>1. /\ LocStarts(t) # {} /\ cursor' = end /\ items' = items \o RegionItem(words, locs)
  BY DEF ParseNext
<1>2. Len(t) \in Nat /\ DOMAIN t = 1..Len(t) /\ cursor \in 1..(Len(t) + 1)
  BY LenProperties DEF ParserAgrees
<1>3. /\ start \in 1..Len(t) /\ start >= cursor /\ StartsLoc(t[start])
      /\ \A i \in cursor..(start - 1) : ~StartsLoc(t[i])
  BY <1>1, <1>2, FoundStart
<1>4. /\ end \in start..(Len(t) + 1)
      /\ end <= Len(t) => ~IsLoc(t[end])
      /\ \A i \in start..(end - 1) : IsLoc(t[i])
  BY <1>3, FoundEnd
<1>. HIDE DEF start, end
<1>5. CASE ~IsLoc(t[start])
  <2>1. end = start
    <3>. SUFFICES ASSUME end # start PROVE FALSE
      OBVIOUS
    <3>1. start \in start..(end - 1)
      BY <1>3, <1>4
    <3>. QED
      BY <1>4, <1>5, <3>1
  <2>. QED
    BY <1>1, <1>2, <1>3, <1>5, <2>1 DEF ParserAgrees, Stuck
<1>6. CASE IsLoc(t[start])
  <2>1. ~Stuck(t)
    <3>. SUFFICES ASSUME Stuck(t) PROVE FALSE
      OBVIOUS
    <3>1. cursor \in LocStarts(t)
      BY <1>2 DEF Stuck, LocStarts
    <3>2. start = cursor
      <4>1. ~(cursor \in cursor..(start - 1))
        BY <1>3 DEF Stuck
      <4>. QED
        BY <1>2, <1>3, <4>1
    <3>. QED
      BY <1>6, <3>2 DEF Stuck
  <2>2. AtGap(t) /\ ListsRuns(t)
    BY <2>1 DEF ParserAgrees
  <2>3. PICK S : items \in Seq(S)
    BY <2>1 DEF ParserAgrees
  <2>4. /\ end \in (start + 1)..(Len(t) + 1)
        /\ TextStart(t, start) = cursor
        /\ RunsBefore(t, end) = RunsBefore(t, cursor) \cup
             (IF end - start >= 4 THEN {<<start, end - 1>>} ELSE {})
    BY <1>1, <1>2, <1>6, <2>2, NextRun DEF start, end
  <2>5. AtGap(t)'
    <3>1. end - 1 \in start..(end - 1) /\ end - 1 \in DOMAIN t
      BY <1>2, <1>3, <2>4
    <3>2. end \in DOMAIN t => ~IsLoc(t[end])
      BY <1>2, <1>4
    <3>. QED
      BY <1>1, <1>4, <3>1, <3>2 DEF AtGap
  <2>6. ListsRuns(t)' /\ \E R : items' \in Seq(R)
    <3>1. CASE end - start < 4
      <4>1. Len(locs) = end - start
        BY <1>3, <2>4
      <4>2. RegionItem(words, locs) = <<>>
        BY <3>1, <4>1 DEF RegionItem
      <4>3. items' = items
        BY <1>1, <2>3, <4>2, ConcatEmptySeq
      <4>4. RunsBefore(t, cursor) = RunsBefore(t, end)
        BY <1>3, <2>4, <3>1
      <4>. QED
        BY <1>1, <2>2, <2>3, <4>3, <4>4 DEF ListsRuns
    <3>2. CASE end - start >= 4
      <4>1. end \in (start + 4)..(Len(t) + 1)
        BY <1>2, <1>3, <2>4, <3>2
      <4>2. PICK item : RegionItem(words, locs) = <<item>> /\ Describes(item, t, start, end - 1)
        BY <1>3, <1>4, <2>4, <4>1, ItemDescribes
      <4>3. /\ items' \in Seq(S \cup {item}) /\ Len(items') = Len(items) + 1
            /\ \A i \in 1..Len(items) : items'[i] = items[i]
            /\ items'[Len(items) + 1] = item
        <5>1. items' = items \o <<item>>
          BY <1>1, <4>2
        <5>. QED
          BY <2>3, <5>1, OneMore
      <4>. DEFINE Old == RunsBefore(t, cursor)  run == <<start, end - 1>>
      <4>4. IsFiniteSet(Old) /\ IsFiniteSet(RegionRuns(t)) /\ Len(items) = Cardinality(Old)
        BY <2>2, RunsAre, FS_Subset DEF RunsBefore, ListsRuns
      <4>5. /\ RunsBefore(t, end) = Old \cup {run} /\ run \notin Old
            /\ Cardinality(RunsBefore(t, end)) = Len(items) + 1
        <5>1. run \notin Old
          BY <1>2, <1>3 DEF RunsBefore
        <5>. QED
          BY <2>4, <3>2, <4>4, <5>1, FS_AddElement
      <4>6. RankOf(t, run) = Len(items) + 1
        <5>1. {q \in RegionRuns(t) : q[1] <= run[1]} = RunsBefore(t, end)
          <6>1. ASSUME NEW q \in RegionRuns(t), q[1] <= start PROVE q \in RunsBefore(t, end)
            BY <1>3, <2>4, <6>1, RunsAre DEF RunsBefore
          <6>2. ASSUME NEW q \in RunsBefore(t, end) PROVE q \in RegionRuns(t) /\ q[1] <= start
            <7>1. CASE q = run
              BY <1>3, <6>2, <7>1 DEF RunsBefore
            <7>2. CASE q \in Old
              BY <1>2, <1>3, <6>2, <7>2, RunsAre DEF RunsBefore
            <7>. QED
              BY <4>5, <6>2, <7>1, <7>2
          <6>. QED
            BY <6>1, <6>2
        <5>. QED
          BY <4>5, <5>1 DEF RankOf
      <4>7. \A r \in Old : RankOf(t, r) \in 1..Len(items)
        <5>. SUFFICES ASSUME NEW r \in Old PROVE RankOf(t, r) \in 1..Len(items)
          OBVIOUS
        <5>. DEFINE Q == {q \in RegionRuns(t) : q[1] <= r[1]}
        <5>1. Q \subseteq Old
          BY <1>2, RunsAre DEF RunsBefore
        <5>2. r \in Q
          BY RunsAre DEF RunsBefore
        <5>3. IsFiniteSet(Q) /\ Cardinality(Q) \in Nat /\ Cardinality(Q) <= Len(items)
          BY <4>4, <5>1, FS_Subset, FS_CardinalityType
        <5>4. Cardinality(Q) # 0
          BY <5>2, <5>3, FS_EmptySet
        <5>. QED
          BY <4>4, <5>3, <5>4, FS_CardinalityType DEF RankOf
      <4>. HIDE DEF Old
      <4>8. \A r \in RunsBefore(t, end) : Describes(items'[RankOf(t, r)], t, r[1], r[2])
        <5>. SUFFICES ASSUME NEW r \in RunsBefore(t, end)
                      PROVE  Describes(items'[RankOf(t, r)], t, r[1], r[2])
          OBVIOUS
        <5>1. CASE r = run
          BY <4>2, <4>3, <4>6, <5>1
        <5>2. CASE r \in Old
          BY <2>2, <4>3, <4>7, <5>2 DEF Old, ListsRuns
        <5>. QED
          BY <4>5, <5>1, <5>2
      <4>. QED
        BY <1>1, <4>3, <4>5, <4>8 DEF ListsRuns
    <3>. QED
      BY <1>3, <2>4, <3>1, <3>2
  <2>7. cursor' \in 1..(Len(t) + 1)
    <3>1. end \in 1..(Len(t) + 1)
      BY <1>2, <1>3, <1>4
    <3>. QED
      BY <1>1, <3>1
  <2>. QED
    BY <2>5, <2>6, <2>7 DEF ParserAgrees
<1>. QED
  BY <1>5, <1>6

\* The parser begins with nothing found.
LEMMA ParserBegins ==
    ASSUME NEW t \in Seq(Vocabulary), cursor' = 1, items' = <<>>
    PROVE  ParserAgrees(t)'
<1>1. Len(t) \in Nat
  BY LenProperties
<1>2. RunsBefore(t, 1) = {}
  BY RunsAre DEF RunsBefore
<1>3. Len(<<>>) = Cardinality(RunsBefore(t, 1)) /\ <<>> \in Seq({})
  BY <1>2, FS_EmptySet, EmptySeq
<1>4. ListsRuns(t)'
  BY <1>2, <1>3 DEF ListsRuns
<1>. QED
  BY <1>1, <1>3, <1>4 DEF ParserAgrees, AtGap

\* Eos ends a generation, so that Clean leaves none of it; the parser works on
\* that text.
TextInv ==
    /\ DecoderInv
    /\ \A i \in 1..(Len(ids) - 1) : ids[i] # Eos
    /\ text \in Seq(Vocabulary)
    /\ step \in {"parse", "result"} => \A i \in DOMAIN text : text[i] # Eos
    /\ step = "parse" => ParserAgrees(text)
    /\ RegionsAreThoseOfText

\* A cleaned text.
LEMMA CleanText ==
    ASSUME ids \in Seq(Vocabulary), \A i \in 1..(Len(ids) - 1) : ids[i] # Eos
    PROVE  Clean(ids) \in Seq(Vocabulary) /\ \A i \in DOMAIN Clean(ids) : Clean(ids)[i] # Eos
<1>1. Len(ids) \in Nat /\ DOMAIN ids = 1..Len(ids)
  BY LenProperties
<1>2. CASE ids # <<>> /\ ids[Len(ids)] = Eos
  <2>. DEFINE s == SubSeq(ids, 1, Len(ids) - 1)
  <2>1. Len(ids) >= 1
    BY <1>1, <1>2, EmptySeq
  <2>2. s \in Seq(Vocabulary) /\ Len(s) = Len(ids) - 1 /\ \A i \in 1..(Len(ids) - 1) : s[i] = ids[i]
    <3>1. \A i \in 1..Len(ids) : ids[i] \in Vocabulary
      BY ElementOfSeq
    <3>2. 1 \in 1..(Len(ids) + 1) /\ Len(ids) - 1 \in 0..Len(ids)
      BY <1>1, <2>1
    <3>. QED
      BY <1>1, <2>1, <3>1, <3>2, SubSeqProperties
  <2>3. DOMAIN s = 1..(Len(ids) - 1)
    BY <2>2, LenProperties
  <2>. QED
    BY <1>2, <2>2, <2>3 DEF Clean
<1>3. CASE ~(ids # <<>> /\ ids[Len(ids)] = Eos)
  <2>1. \A i \in DOMAIN ids : ids[i] # Eos
    <3>. SUFFICES ASSUME NEW i \in DOMAIN ids PROVE ids[i] # Eos
      OBVIOUS
    <3>1. ids # <<>> /\ (i = Len(ids) \/ i \in 1..(Len(ids) - 1))
      BY <1>1
    <3>. QED
      BY <1>3, <3>1
  <2>. QED
    BY <1>3, <2>1 DEF Clean
<1>. QED
  BY <1>2, <1>3

\* One step per step of the loops.
LEMMA TextStep == TextInv /\ [PipelineNext]_pipelineVars => TextInv'
<1>. SUFFICES ASSUME TextInv, [PipelineNext]_pipelineVars PROVE TextInv'
  OBVIOUS
<1>1. DecoderInv /\ DecoderInv' /\ ids \in Seq(Vocabulary)
  BY DecoderStep DEF TextInv, DecoderInv, DecoderType
<1>. SUFFICES /\ \A i \in 1..(Len(ids') - 1) : ids'[i] # Eos
              /\ text' \in Seq(Vocabulary)
              /\ step' \in {"parse", "result"} => \A i \in DOMAIN text' : text'[i] # Eos
              /\ step' = "parse" => ParserAgrees(text)'
              /\ RegionsAreThoseOfText'
  BY <1>1 DEF TextInv
<1>2. UNCHANGED <<cursor, items, text>> /\ ParserAgrees(text) => ParserAgrees(text)'
  BY DEF ParserAgrees, Stuck, AtGap, ListsRuns
<1>3. CASE UNCHANGED vars
  BY <1>2, <1>3 DEF vars, inferVars, ocrVars, TextInv, RegionsAreThoseOfText
<1>4. CASE /\ UNCHANGED <<ids, text, ocrVars>> \/ (BeginGeneration /\ UNCHANGED <<text, ocrVars>>)
           /\ step' \notin {"parse", "result"}
  <2>1. \A i \in 1..(Len(ids') - 1) : ids'[i] # Eos
    <3>1. CASE ids' = <<>>
      BY <3>1, EmptySeq
    <3>2. CASE ids' = ids
      BY <3>2 DEF TextInv
    <3>. QED
      BY <1>4, <3>1, <3>2 DEF BeginGeneration
  <2>. QED
    BY <1>4, <2>1 DEF TextInv, RegionsAreThoseOfText
<1>5. CASE DecodeFirst \/ DecodeCached
  <2>1. Generating /\ step' = "decode" /\ text' = text
    BY <1>5 DEF DecodeFirst, DecodeCached, Generating
  <2>2. PICK p \in Vocabulary : ids' = Append(ids, p)
    BY <1>1, <1>5, PickedTokens DEF DecodeFirst, DecodeCached, Pick
  <2>3. Len(ids) \in Nat /\ Len(ids') = Len(ids) + 1 /\ \A i \in 1..Len(ids) : ids'[i] = ids[i]
    BY <1>1, <2>2, AppendProperties, LenProperties
  <2>4. \A i \in 1..Len(ids) : ids[i] # Eos
    <3>. SUFFICES ASSUME NEW i \in 1..Len(ids) PROVE ids[i] # Eos
      OBVIOUS
    <3>1. i = Len(ids) \/ i \in 1..(Len(ids) - 1)
      BY <2>3
    <3>2. ids # <<>>
      BY <2>3, EmptySeq
    <3>. QED
      BY <2>1, <3>1, <3>2 DEF Generating, TextInv
  <2>5. \A i \in 1..(Len(ids') - 1) : ids'[i] # Eos
    BY <2>3, <2>4
  <2>. QED
    BY <2>1, <2>5 DEF TextInv, RegionsAreThoseOfText
<1>6. CASE EndDecoding
  <2>1. /\ text' = Clean(ids) /\ ids' = ids /\ steps' = steps /\ cursor' = 1 /\ items' = <<>>
        /\ step' = IF Head(steps) = "OCR_WITH_REGION" THEN "parse" ELSE "result"
    BY <1>6 DEF EndDecoding
  <2>2. Clean(ids) \in Seq(Vocabulary) /\ \A i \in DOMAIN Clean(ids) : Clean(ids)[i] # Eos
    BY <1>1, CleanText DEF TextInv
  <2>3. PICK t : t = Clean(ids)
    OBVIOUS
  <2>4. ParserAgrees(t)' /\ text' = t
    BY <2>1, <2>2, <2>3, ParserBegins
  <2>5. ParserAgrees(text)'
    BY <2>4 DEF ParserAgrees, Stuck, AtGap, ListsRuns
  <2>. QED
    BY <2>1, <2>2, <2>5 DEF TextInv, RegionsAreThoseOfText
<1>7. CASE ParseRegion
  <2>1. PICK t : t = text
    OBVIOUS
  <2>2. t \in Seq(Vocabulary) /\ ParserAgrees(t) /\ ParseNext(t) /\ text' = t /\ ids' = ids /\ step' = "parse"
    BY <1>7, <2>1 DEF ParseRegion, TextInv, inferVars
  <2>3. ParserAgrees(t)'
    BY <2>2, ParserStep
  <2>4. ParserAgrees(text)'
    BY <2>2, <2>3 DEF ParserAgrees, Stuck, AtGap, ListsRuns
  <2>. QED
    BY <1>7, <2>1, <2>2, <2>4 DEF TextInv, RegionsAreThoseOfText, ParseRegion
<1>8. CASE EndParse
  <2>1. PICK t : t = text
    OBVIOUS
  <2>2. /\ t \in Seq(Vocabulary) /\ ParserAgrees(t) /\ ParseEnds(t)
        /\ UNCHANGED <<text, ids, items, steps>> /\ step = "parse" /\ step' = "result"
    BY <1>8, <2>1 DEF EndParse, TextInv, ocrVars
  <2>3. IsRegionList(items, text)
    BY <2>1, <2>2, ParserEnds
  <2>. QED
    BY <2>2, <2>3 DEF TextInv, RegionsAreThoseOfText
<1>9. CASE EncodeImage \/ EndGeneration \/ TextMissing
  BY <1>4, <1>9 DEF EncodeImage, EndGeneration, TextMissing, Fail
<1>10. CASE StartInference
  BY <1>4, <1>10 DEF StartInference, Receive
<1>11. CASE step' = "failed" /\ UNCHANGED <<ids, text, ocrVars>>
  BY <1>4, <1>11
<1>12. CASE BeginGeneration
  BY <1>4, <1>12 DEF BeginGeneration
<1>. QED
  BY <1>3, <1>5, <1>6, <1>7, <1>8, <1>9, <1>10, <1>11, <1>12, InferenceSteps DEF Infer, Advance

\* The items of an OCR result are the regions of the generated text, each run
\* of points once, in order, with the text before it and its box
\* (inference/postprocess.rs parse_ocr_regions, ocr_region_item).
THEOREM RegionsAreThoseOfTextCorrect == PipelineSpec => []RegionsAreThoseOfText
<1>1. PipelineInit => TextInv
  <2>. SUFFICES ASSUME PipelineInit PROVE TextInv
    OBVIOUS
  <2>1. /\ ids = <<>> /\ cache = <<>> /\ text = <<>> /\ step = "waiting"
    BY DEF PipelineInit, Init, NoCache
  <2>2. DecoderInv
    BY <2>1, EmptySeq DEF DecoderInv, DecoderType, CacheCoversPrefix
  <2>. QED
    BY <2>1, <2>2, EmptySeq DEF TextInv, RegionsAreThoseOfText
<1>2. TextInv => RegionsAreThoseOfText
  BY DEF TextInv
<1>. QED
  BY <1>1, <1>2, TextStep, PTL DEF PipelineSpec

-----------------------------------------------------------------------------
(* Names and specifications (types/task.rs).                               *)

\* Blank text is no text, and stays none.
LEMMA NormalizedTwice == ASSUME NEW v PROVE NormalizeText(NormalizeText(v)) = NormalizeText(v)
  BY DEF NormalizeText, Text

\* The two types, by name.
LEMMA TypeNames ==
    /\ TaskTypes = {"Single", "Cascaded"}
    /\ TypeName("Single").text = "Single task" /\ TypeName("Cascaded").text = "Cascased task"
    /\ \A v : \A t \in TaskTypes :
         t \in TypesNamed(v) <=>
           \/ t = "Single" /\ v.text = "Single task"
           \/ t = "Cascaded" /\ v.text \in {"Cascased task", "Cascaded task"}
  BY DEF TaskTypes, TypeName, Text, TypesNamed

\* No prompt is of both types.
LEMMA PromptsDiffer ==
    /\ DOMAIN SingleToken = SinglePrompts /\ DOMAIN CaptionToken = CascadedPrompts
    /\ \A p \in CascadedPrompts : p \notin SinglePrompts
  BY DEF SingleToken, CaptionToken, SinglePrompts, CascadedPrompts

\* The types and prompts that strings name, or leave out.
NamedTypes(a)   == IF a = None THEN {"Single"} ELSE TypesNamed(a)
NamedPrompts(b) == IF b = None THEN {"Caption"} ELSE {b.text}

\* Types and prompts a specification can come from.
LEMMA SpecIsNamed ==
    ASSUME NEW a, NEW b, NEW c, FromStrings(a, b, c) # None
    PROVE  \E t \in NamedTypes(a) :
             \E p \in PromptsOf(t) :
                /\ p \in NamedPrompts(b)
                /\ FromStrings(a, b, c) = SpecOf(t, p, c)
<1>1. FromStrings(a, b, c) \in SpecsNamed(a, b, c)
  BY DEF FromStrings
<1>. QED
  BY <1>1 DEF SpecsNamed, PromptsNamed, NamedTypes, NamedPrompts

\* A type and a prompt of that type, if they are named.
LEMMA NamedIsSpec ==
    ASSUME NEW a, NEW b, NEW c, NEW t \in NamedTypes(a),
           NEW p \in PromptsOf(t), p \in NamedPrompts(b)
    PROVE  \E u \in NamedTypes(a) :
             \E q \in PromptsOf(u) : FromStrings(a, b, c) = SpecOf(u, q, c)
<1>1. SpecOf(t, p, c) \in SpecsNamed(a, b, c)
  BY DEF SpecsNamed, PromptsNamed, NamedTypes, NamedPrompts
<1>2. FromStrings(a, b, c) \in SpecsNamed(a, b, c)
  BY <1>1 DEF FromStrings
<1>. QED
  BY <1>2 DEF SpecsNamed, NamedTypes

\* Names that are stored in the record are read back as what they stood for
\* (jobs/queue.rs job_request_from_record).
LEMMA StoredNamesParse ==
    ASSUME NEW a, NEW b, NEW c, NEW spec, spec = FromStrings(a, b, c), spec # None
    PROVE  FromStrings(TypeName(spec.task_type), PromptName(spec.task_prompt), spec.text_input)
             = spec
<1>. PICK t \in TaskTypes : \E p \in PromptsOf(t) : spec = SpecOf(t, p, c)
  <2>1. NamedTypes(a) \subseteq TaskTypes
    BY DEF TaskTypes, TypesNamed, NamedTypes
  <2>2. PICK t \in NamedTypes(a) :
          \E p \in PromptsOf(t) : spec = SpecOf(t, p, c)
    BY SpecIsNamed
  <2>. QED
    BY <2>1, <2>2
<1>1. PICK p \in PromptsOf(t) : spec = SpecOf(t, p, c)
  OBVIOUS
<1>2. /\ spec.task_type = t /\ spec.task_prompt = p /\ spec.text_input = NormalizeText(c)
      /\ TypeName(t) # None /\ PromptName(p) # None
  BY <1>1, NoneAssumption DEF SpecOf
<1>3. SpecsNamed(TypeName(t), PromptName(p), NormalizeText(c)) = {spec}
  <2>1. TypesNamed(TypeName(t)) = {t}
    BY TypeNames DEF TypesNamed
  <2>2. PromptsNamed(t, PromptName(p)) = {p}
    BY DEF PromptsNamed, PromptName, Text
  <2>3. SpecOf(t, p, NormalizeText(c)) = spec
    BY <1>1, NormalizedTwice DEF SpecOf
  <2>. QED
    BY <1>2, <2>1, <2>2, <2>3 DEF SpecsNamed
<1>4. FromStrings(TypeName(t), PromptName(p), NormalizeText(c)) = spec
  BY <1>3 DEF FromStrings
<1>. QED
  BY <1>2, <1>4

-----------------------------------------------------------------------------
(* What the client asked for.                                              *)

\* The specification that the strings of the request name.
AskedSpec == FromStrings(AskedType, AskedPrompt, AskedText)

\* It is the listed task, on the text that is not blank.
LEMMA AskedIsListed ==
    ASSUME AskedSpec # None
    PROVE  /\ TaskIsListed
           /\ AskedSpec.task_type = (IF TypeAsked = "Single task" THEN "Single" ELSE "Cascaded")
           /\ AskedSpec.task_prompt = PromptAsked
           /\ AskedSpec.text_input = (IF TextAsked = <<>> THEN None ELSE Text(TextAsked))
           /\ PromptAsked \in PromptsOf(AskedSpec.task_type)
<1>. DEFINE Fits(t, p) ==
        /\ p \in NamedPrompts(AskedPrompt)
        /\ AskedSpec = SpecOf(t, p, AskedText)
<1>. PICK t \in NamedTypes(AskedType) :
       \E p \in PromptsOf(t) : Fits(t, p)
  BY SpecIsNamed DEF AskedSpec
<1>1. PICK p \in PromptsOf(t) : Fits(t, p)
  OBVIOUS
<1>2. p = PromptAsked
  BY <1>1 DEF PromptAsked, NamedPrompts
<1>3. t \in TaskTypes /\ \/ t = "Single" /\ TypeAsked = "Single task"
                         \/ t = "Cascaded" /\ TypeAsked \in {"Cascased task", "Cascaded task"}
  BY TypeNames DEF TypeAsked, NamedTypes, TypesNamed
<1>4. TaskIsListed
  BY <1>2, <1>3, PromptsDiffer DEF TaskIsListed, PromptsOf
<1>5. NormalizeText(AskedText) = IF TextAsked = <<>> THEN None ELSE Text(TextAsked)
  BY DEF NormalizeText, TextAsked
<1>. QED
  BY <1>1, <1>2, <1>3, <1>4, <1>5 DEF SpecOf

\* A listed task is a specification.
LEMMA ListedIsSpec ==
    ASSUME TaskIsListed, NEW texts, AskedText \in texts,
           \A v \in texts, t \in TaskTypes : \A p \in PromptsOf(t) : None # SpecOf(t, p, v)
    PROVE  AskedSpec # None
<1>1. PromptAsked \in NamedPrompts(AskedPrompt)
  BY DEF PromptAsked, NamedPrompts
<1>2. NamedTypes(AskedType) \subseteq TaskTypes
  BY DEF TaskTypes, TypesNamed, NamedTypes
<1>3. \E t \in NamedTypes(AskedType) : PromptAsked \in PromptsOf(t)
  <2>1. CASE TypeAsked = "Single task" /\ PromptAsked \in DOMAIN SingleToken
    <3>1. "Single" \in NamedTypes(AskedType)
      BY <2>1, TypeNames DEF TypeAsked, NamedTypes
    <3>. QED
      BY <2>1, <3>1, PromptsDiffer DEF PromptsOf
  <2>2. CASE TypeAsked \in {"Cascased task", "Cascaded task"} /\ PromptAsked \in DOMAIN CaptionToken
    <3>1. "Cascaded" \in NamedTypes(AskedType)
      BY <2>2, TypeNames DEF TypeAsked, NamedTypes
    <3>. QED
      BY <2>2, <3>1, PromptsDiffer DEF PromptsOf
  <2>. QED
    BY <2>1, <2>2 DEF TaskIsListed
<1>4. \E u \in NamedTypes(AskedType) : \E q \in PromptsOf(u) : AskedSpec = SpecOf(u, q, AskedText)
  <2>1. PICK t \in NamedTypes(AskedType) : PromptAsked \in PromptsOf(t)
    BY <1>3
  <2>. QED
    BY <1>1, <2>1, NamedIsSpec DEF AskedSpec
<1>. QED
  BY <1>2, <1>4

-----------------------------------------------------------------------------
(* The form, field by field (api/submit.rs).                               *)

\* The names of the fields that set a member of the form.
NamesOf ==
    [image       |-> {"image", "file"},
     task_type   |-> {"task_type", "task_type_selector"},
     task_prompt |-> {"task_prompt", "task"},
     text_input  |-> {"text_input"},
     webhook_url |-> {"webhook_url"}]

\* apply_multipart_field agrees with it.
LEMMA MemberIsNamed ==
    /\ DOMAIN NoForm = DOMAIN NamesOf
    /\ \A name : \A m \in DOMAIN NamesOf : MemberOf(name) = m <=> name \in NamesOf[m]
  BY DEF NoForm, NamesOf, MemberOf

\* The value of the last of the first n fields with one of these names.
LastWithin(names, n) ==
    LET at == {i \in 1..n : request.fields[i].name \in names}
    IN  IF at = {} THEN None ELSE request.fields[Max(at)].value

\* One more field.
LEMMA LastOfMore ==
    ASSUME NEW names, NEW n \in Nat
    PROVE  LastWithin(names, n + 1) =
             IF request.fields[n + 1].name \in names THEN request.fields[n + 1].value
             ELSE LastWithin(names, n)
<1>. DEFINE At(k) == {i \in 1..k : request.fields[i].name \in names}
<1>1. CASE request.fields[n + 1].name \in names
  <2>1. n + 1 \in At(n + 1) /\ At(n + 1) \subseteq Int /\ \A i \in At(n + 1) : i <= n + 1
    BY <1>1
  <2>2. Max(At(n + 1)) = n + 1 /\ At(n + 1) # {}
    BY <2>1, MaxIs
  <2>. QED
    BY <1>1, <2>2 DEF LastWithin
<1>2. CASE request.fields[n + 1].name \notin names
  <2>1. At(n + 1) = At(n)
    BY <1>2
  <2>. QED
    BY <1>2, <2>1 DEF LastWithin
<1>. QED
  BY <1>1, <1>2

\* How many fields of the body have been read.
ReadCount == Len(request.fields) - Len(unread)

\* The fields to come are the rest of the body, and the form holds the last
\* value read for each member.
FormAgrees ==
    /\ Len(unread) \in 0..Len(request.fields)
    /\ DOMAIN unread = 1..Len(unread)
    /\ unread = [i \in 1..Len(unread) |-> request.fields[ReadCount + i]]
    /\ DOMAIN form = DOMAIN NamesOf
    /\ \A m \in DOMAIN NamesOf : form[m] = LastWithin(NamesOf[m], ReadCount)
    /\ form.text_input \in TextsSent(request) \cup {None}

\* The fields of an upload are a sequence.
LEMMA FieldsAreSeq ==
    ASSUME request \in Requests, request.kind = "upload"
    PROVE  /\ Len(request.fields) \in Nat /\ DOMAIN request.fields = 1..Len(request.fields)
           /\ \E S : request.fields \in Seq(S)
<1>1. /\ Len(request.fields) \in Nat
      /\ request.fields = [i \in 1..Len(request.fields) |-> request.fields[i]]
  BY SubmissionAssumption
<1>. DEFINE S == {request.fields[i] : i \in 1..Len(request.fields)}
<1>2. request.fields \in [1..Len(request.fields) -> S]
  BY <1>1
<1>3. request.fields \in Seq(S)
  BY <1>1, <1>2, SeqDef
<1>. QED
  BY <1>1, <1>3

\* Once all fields are read, the form is what was asked.
LEMMA AllRead ==
    ASSUME request \in Requests, request.kind = "upload", FormAgrees, unread = <<>>
    PROVE  /\ form.task_type = AskedType /\ form.task_prompt = AskedPrompt
           /\ form.text_input = AskedText /\ form.webhook_url = AskedHook
           /\ form.image = LastOf({"image", "file"})
<1>1. Len(unread) = 0 /\ DOMAIN request.fields = 1..Len(request.fields)
  BY FieldsAreSeq
<1>2. ReadCount = Len(request.fields)
  BY <1>1, FieldsAreSeq DEF ReadCount
<1>3. \A names : LastWithin(names, ReadCount) = LastOf(names)
  BY <1>1, <1>2 DEF LastWithin, LastOf
<1>. QED
  BY <1>3 DEF FormAgrees, NamesOf, AskedType, AskedPrompt, AskedText, AskedHook

\* One field is read.
LEMMA ReadKeepsForm ==
    ASSUME request \in Requests, request.kind = "upload", FormAgrees, ReadField
    PROVE  FormAgrees'
<1>. DEFINE n == ReadCount  field == request.fields[n + 1]  m == MemberOf(field.name)
<1>1. /\ Len(request.fields) \in Nat /\ Len(unread) \in Nat /\ Len(unread) <= Len(request.fields)
      /\ request' = request /\ unread' = Tail(unread) /\ unread # <<>>
  BY FieldsAreSeq DEF FormAgrees, ReadField
<1>2. PICK S : unread \in Seq(S)
  <2>. DEFINE S == {request.fields[ReadCount + i] : i \in 1..Len(unread)}
  <2>1. unread \in [1..Len(unread) -> S]
    BY DEF FormAgrees
  <2>2. unread \in Seq(S)
    BY <1>1, <2>1, SeqDef
  <2>. QED
    BY <2>2
<1>3. /\ Len(unread) \in Nat \ {0}
      /\ unread' \in Seq(S) /\ Len(unread') = Len(unread) - 1
      /\ DOMAIN unread' = 1..Len(unread')
      /\ \A i \in 1..Len(unread') : unread'[i] = unread[i + 1]
      /\ Head(unread) = unread[1]
  <2>1. Len(unread) \in Nat \ {0}
    BY <1>1, <1>2, EmptySeq
  <2>2. unread' \in Seq(S) /\ Len(unread') = Len(unread) - 1
    BY <1>1, <1>2, HeadTailProperties
  <2>3. \A i \in 1..Len(unread') : unread'[i] = unread[i + 1]
    BY <1>1, <1>2, <2>1, <2>2, HeadTailProperties
  <2>4. DOMAIN unread' = 1..Len(unread')
    BY <2>2, LenProperties
  <2>5. Head(unread) = unread[1]
    BY <1>1, <1>2, HeadTailProperties
  <2>. QED
    BY <2>1, <2>2, <2>3, <2>4, <2>5
<1>4. n \in Nat /\ ReadCount' = n + 1
  BY <1>1, <1>3 DEF ReadCount
<1>5. NextField = field
  BY <1>1, <1>3, <1>4 DEF NextField, FormAgrees
<1>6. unread' = [i \in 1..Len(unread') |-> request.fields[ReadCount' + i]]
  <2>1. \A i \in 1..Len(unread') : unread'[i] = request.fields[ReadCount' + i]
    <3>. SUFFICES ASSUME NEW i \in 1..Len(unread')
                  PROVE  unread'[i] = request.fields[ReadCount' + i]
      OBVIOUS
    <3>1. i \in Nat /\ i + 1 \in 1..Len(unread) /\ unread'[i] = unread[i + 1]
      BY <1>3
    <3>2. n + (i + 1) = (n + 1) + i
      BY <1>4, <3>1
    <3>3. unread = [k \in 1..Len(unread) |-> request.fields[n + k]]
      BY DEF FormAgrees
    <3>4. unread[i + 1] = request.fields[n + (i + 1)]
      BY <3>1, <3>3
    <3>. QED
      BY <1>4, <3>1, <3>2, <3>4
  <2>2. unread' = [i \in 1..Len(unread') |-> unread'[i]]
    BY <1>3, LenProperties
  <2>. QED
    BY <2>1, <2>2
<1>7. /\ DOMAIN form' = DOMAIN NamesOf
      /\ \A k \in DOMAIN NamesOf :
           form'[k] = IF field.name \in NamesOf[k] THEN field.value ELSE form[k]
  <2>1. form' = IF m \in DOMAIN form THEN [form EXCEPT ![m] = field.value] ELSE form
    BY <1>5 DEF ReadField, ApplyField
  <2>2. DOMAIN form = DOMAIN NamesOf
    BY DEF FormAgrees
  <2>3. \A k \in DOMAIN NamesOf : m = k <=> field.name \in NamesOf[k]
    BY MemberIsNamed
  <2>. HIDE DEF m, field, n
  <2>. QED
    BY <2>1, <2>2, <2>3
<1>8. \A names : LastWithin(names, n + 1) = IF field.name \in names THEN field.value
                                            ELSE LastWithin(names, n)
  BY <1>4, LastOfMore
<1>9. \A names : LastWithin(names, ReadCount)' = LastWithin(names, n + 1)
  BY <1>1, <1>4 DEF LastWithin
<1>10. \A k \in DOMAIN NamesOf : form'[k] = LastWithin(NamesOf[k], ReadCount)'
  BY <1>7, <1>8, <1>9 DEF FormAgrees
<1>11. Len(unread') \in 0..Len(request'.fields)
  BY <1>1, <1>3
<1>12. form'.text_input \in TextsSent(request') \cup {None}
  <2>1. form'.text_input = IF field.name = "text_input" THEN field.value ELSE form.text_input
    BY <1>7 DEF NamesOf
  <2>2. n + 1 \in DOMAIN request.fields
    BY <1>1, <1>3, <1>4, FieldsAreSeq DEF ReadCount
  <2>3. field.name = "text_input" => field.value \in TextsSent(request)
    BY <2>2 DEF TextsSent
  <2>. HIDE DEF field, n
  <2>. QED
    BY <1>1, <2>1, <2>3 DEF FormAgrees
<1>. QED
  BY <1>3, <1>6, <1>7, <1>10, <1>11, <1>12, <1>1 DEF FormAgrees

-----------------------------------------------------------------------------
(* The submission.                                                         *)

\* The handler keeps to the request it got: the record it builds parses to
\* what was asked, so that nothing is refused once the image is saved.
SubmissionInv ==
    /\ request \in Requests
    /\ hstep \in {"reading", "saving"} => request.kind = "upload"
    /\ hstep \in {"resolving", "locating", "inspecting", "loading"} => request.kind = "path"
    /\ hstep = "reading" => FormAgrees
    /\ request.kind = "path" => form = request.body
    /\ hstep \in {"saving", "enqueueing"} => RecordSpec = AskedSpec /\ AskedSpec # None
    /\ queued # None => hstep = "answered" /\ queued = AskedSpec
    /\ hstep \in {"reading", "resolving", "locating", "inspecting", "loading"} => saved = None
    /\ answer \in {400, 403} => hstep = "answered"
    /\ RefusedLeavesNoImage
    /\ BadRequestHasCause

\* What was asked does not change.
LEMMA AskedStays ==
    ASSUME request' = request
    PROVE  /\ AskedSpec' = AskedSpec /\ TaskIsListed' = TaskIsListed
           /\ UploadIsSound' = UploadIsSound
           /\ TypeAsked' = TypeAsked /\ PromptAsked' = PromptAsked /\ TextAsked' = TextAsked
  BY DEF AskedSpec, AskedType, AskedPrompt, AskedText, AskedHook, TypeAsked, PromptAsked, TextAsked,
     TaskIsListed, UploadIsSound, LastOf

\* A form that is refused names no listed task, or is not sound.
LEMMA RefusedFormHasCause ==
    ASSUME SubmissionInv, hstep = "reading", unread = <<>>, TaskIsListed, UploadIsSound
    PROVE  UploadAccepted
<1>1. /\ form.task_type = AskedType /\ form.task_prompt = AskedPrompt
      /\ form.text_input = AskedText /\ form.webhook_url = AskedHook
      /\ form.image = LastOf({"image", "file"})
  BY AllRead DEF SubmissionInv
<1>2. AskedText \in TextsSent(request) \cup {None}
  BY <1>1 DEF SubmissionInv, FormAgrees
<1>3. AskedSpec # None
  <2>1. \A v \in TextsSent(request) \cup {None}, t \in TaskTypes : \A p \in PromptsOf(t) :
          None # SpecOf(t, p, v)
    BY SubmissionAssumption DEF SubmissionInv
  <2>. QED
    BY <1>2, <2>1, ListedIsSpec
<1>4. FormSpec # None
  BY <1>1, <1>3 DEF FormSpec, AskedSpec
<1>. QED
  BY <1>1, <1>4 DEF UploadIsSound, UploadAccepted, HookRefused, ImageRefused

\* The form and the record mean what they meant.
LEMMA FormStays ==
    /\ UNCHANGED <<request, unread, form>> /\ FormAgrees => FormAgrees'
    /\ UNCHANGED record => RecordSpec' = RecordSpec
<1>1. ASSUME UNCHANGED <<request, unread, form>>, FormAgrees PROVE FormAgrees'
  <2>1. ReadCount' = ReadCount
    BY <1>1 DEF ReadCount
  <2>2. \A names : LastWithin(names, ReadCount)' = LastWithin(names, ReadCount)
    BY <1>1, <2>1 DEF LastWithin
  <2>. QED
    BY <1>1, <2>1, <2>2 DEF FormAgrees
<1>. QED
  BY <1>1 DEF RecordSpec

\* A field that is not complete is not sound.
LEMMA FailedFieldHasCause ==
    ASSUME request \in Requests, request.kind = "upload", FormAgrees,
           unread # <<>>, ~NextField.complete
    PROVE  ~UploadIsSound
<1>1. Len(request.fields) \in Nat /\ DOMAIN request.fields = 1..Len(request.fields)
  BY FieldsAreSeq
<1>2. Len(unread) \in Nat /\ Len(unread) <= Len(request.fields)
  BY <1>1 DEF FormAgrees
<1>3. unread \in Seq({request.fields[ReadCount + i] : i \in 1..Len(unread)})
  BY <1>2, SeqDef DEF FormAgrees
<1>4. Len(unread) >= 1 /\ Head(unread) = unread[1]
  BY <1>2, <1>3, EmptySeq, HeadTailProperties
<1>5. unread[1] = request.fields[ReadCount + 1]
  <2>1. 1 \in 1..Len(unread)
    BY <1>2, <1>4
  <2>. QED
    BY <2>1 DEF FormAgrees
<1>6. ReadCount + 1 \in DOMAIN request.fields
  BY <1>1, <1>2, <1>4 DEF ReadCount
<1>. QED
  BY <1>4, <1>5, <1>6 DEF UploadIsSound, NextField

\* One step per action of the handler.
LEMMA SubmissionStep == SubmissionInv /\ [PipelineNext]_pipelineVars => SubmissionInv'
<1>. SUFFICES ASSUME SubmissionInv, [PipelineNext]_pipelineVars PROVE SubmissionInv'
  OBVIOUS
<1>. USE DEF SubmissionInv, RefusedLeavesNoImage, BadRequestHasCause
<1>1. CASE UNCHANGED submissionVars
  BY <1>1, AskedStays, FormStays DEF submissionVars
<1>2. CASE ReadField
  BY <1>2, AskedStays, ReadKeepsForm DEF ReadField
<1>3. CASE FieldFails
  BY <1>3, AskedStays, FailedFieldHasCause DEF FieldFails, Reply
<1>4. CASE RefuseUpload
  BY <1>4, AskedStays, RefusedFormHasCause DEF RefuseUpload, Reply
<1>5. CASE BuildUpload
  <2>1. FormSpec = AskedSpec /\ FormSpec # None
    BY <1>5, AllRead DEF BuildUpload, UploadAccepted, FormSpec, AskedSpec
  <2>2. RecordSpec' = FormSpec
    BY <1>5, <2>1, StoredNamesParse DEF BuildUpload, RecordSpec, RecordOf, FormSpec
  <2>. QED
    BY <1>5, <2>1, <2>2, AskedStays DEF BuildUpload
<1>6. CASE SaveUpload
  BY <1>6, AskedStays, FormStays DEF SaveUpload
<1>7. CASE SaveUploadFails
  BY <1>7, AskedStays, FormStays DEF SaveUploadFails, Reply
<1>8. CASE ResolvePath
  BY <1>8, AskedStays DEF ResolvePath, Refuse, Reply, Proceed
<1>9. CASE LocatePath \/ RootIsGone
  BY <1>9, AskedStays DEF LocatePath, RootIsGone, Refuse, Reply, Proceed
<1>10. CASE InspectPath
  BY <1>10, AskedStays DEF InspectPath, Refuse, Reply, Proceed
<1>11. CASE RefusePath
  BY <1>11, AskedStays DEF RefusePath, Refuse, Reply
<1>12. CASE BuildPath
  <2>1. PathSpec = AskedSpec /\ PathSpec # None
    BY <1>12 DEF BuildPath, PathAccepted, PathSpec, AskedSpec, AskedType, AskedPrompt, AskedText
  <2>2. RecordSpec' = PathSpec
    BY <1>12, <2>1, StoredNamesParse DEF BuildPath, RecordSpec, RecordOf, PathSpec
  <2>. QED
    BY <1>12, <2>1, <2>2, AskedStays DEF BuildPath
<1>13. CASE ReplaceFile
  BY <1>13, AskedStays, FormStays DEF ReplaceFile
<1>14. CASE RefuseRecord
  BY <1>14, AskedStays DEF RefuseRecord, Refuse, Reply
<1>15. CASE Enqueue
  BY <1>15, AskedStays DEF Enqueue, Reply
<1>16. CASE DropHandler
  BY <1>16, AskedStays DEF DropHandler, Reply
<1>. QED
  BY <1>1, <1>2, <1>3, <1>4, <1>5, <1>6, <1>7, <1>8, <1>9, <1>10, <1>11, <1>12, <1>13, <1>14, <1>15, <1>16
     DEF PipelineNext, pipelineVars, Submit, Disturb, Handle, SubmissionFault, StartInference, Infer,
         ImageFails, ModelFails

\* The handler begins with nothing read.
LEMMA SubmissionBegins == PipelineInit => SubmissionInv
<1>. SUFFICES ASSUME PipelineInit PROVE SubmissionInv
  OBVIOUS
<1>1. /\ request \in Requests /\ saved = None /\ answer = None /\ queued = None
      /\ request.kind \in {"upload", "path"}
      /\ IF request.kind = "upload"
           THEN hstep = "reading" /\ unread = request.fields /\ form = NoForm
           ELSE hstep = "resolving" /\ form = request.body
  BY SubmissionAssumption DEF PipelineInit, SubmissionInit
<1>2. answer \notin {400, 403}
  BY <1>1, SubmissionAssumption
<1>3. request.kind = "upload" => FormAgrees
  <2>. SUFFICES ASSUME request.kind = "upload" PROVE FormAgrees
    OBVIOUS
  <2>1. ReadCount = 0 /\ unread = request.fields /\ Len(unread) \in Nat
    BY <1>1, FieldsAreSeq DEF ReadCount
  <2>2. \A names : LastWithin(names, 0) = None
    BY DEF LastWithin
  <2>3. unread = [i \in 1..Len(unread) |-> request.fields[ReadCount + i]]
    <3>1. request.fields = [i \in 1..Len(request.fields) |-> request.fields[i]]
      BY <1>1, SubmissionAssumption
    <3>2. \A i \in 1..Len(unread) : ReadCount + i = i
      BY <2>1
    <3>. QED
      BY <2>1, <3>1, <3>2
  <2>. QED
    BY <1>1, <2>1, <2>2, <2>3, FieldsAreSeq DEF FormAgrees, NoForm, NamesOf
<1>. QED
  BY <1>1, <1>2, <1>3 DEF SubmissionInv, RefusedLeavesNoImage, BadRequestHasCause

\* Everything that can be a bad request, or a forbidden path, is looked at
\* before the image is saved (api/submit.rs uploaded_job_record).
THEOREM RefusedLeavesNoImageCorrect == PipelineSpec => []RefusedLeavesNoImage
<1>1. SubmissionInv => RefusedLeavesNoImage
  BY DEF SubmissionInv
<1>. QED
  BY <1>1, SubmissionBegins, SubmissionStep, PTL DEF PipelineSpec

\* The handler answers 400 to no sound upload of a listed task, wherever its
\* fields stand in the body (api/submit.rs, api/submit/validation.rs).
THEOREM BadRequestHasCauseCorrect == PipelineSpec => []BadRequestHasCause
<1>1. SubmissionInv => BadRequestHasCause
  BY DEF SubmissionInv
<1>. QED
  BY <1>1, SubmissionBegins, SubmissionStep, PTL DEF PipelineSpec

\* The task in the queue, read back from the names in the record, is the one
\* that was asked (jobs/queue.rs job_request_from_record).
THEOREM QueuedIsWhatWasAskedCorrect == PipelineSpec => []QueuedIsWhatWasAsked
<1>1. SubmissionInv => QueuedIsWhatWasAsked
  BY AskedIsListed DEF SubmissionInv, QueuedIsWhatWasAsked
<1>. QED
  BY <1>1, SubmissionBegins, SubmissionStep, PTL DEF PipelineSpec

-----------------------------------------------------------------------------
(* The plan of a task and its generations (inference.rs run_task_plan).    *)

\* Sequences of one and of two.
LEMMA PlanParts ==
    /\ \A a : Head(<<a>>) = a /\ Tail(<<a>>) = <<>> /\ <<a>> # <<>>
    /\ \A a, b : Head(<<a, b>>) = a /\ Tail(<<a, b>>) = <<b>>
    /\ \A a : Append(<<>>, a) = <<a>> /\ Len(<<a>>) = 1 /\ <<a>>[1] = a
    /\ \A a, b : Len(<<a, b>>) = 2 /\ <<a, b>>[1] = a /\ <<a, b>>[2] = b
<1>1. \A a : Head(<<a>>) = a /\ Tail(<<a>>) = <<>> /\ <<a>> # <<>>
  OBVIOUS
<1>2. \A a, b : Head(<<a, b>>) = a /\ Tail(<<a, b>>) = <<b>>
  OBVIOUS
<1>3. \A a : Append(<<>>, a) = <<a>> /\ Len(<<a>>) = 1 /\ <<a>>[1] = a
  OBVIOUS
<1>4. \A a, b : Len(<<a, b>>) = 2 /\ <<a, b>>[1] = a /\ <<a, b>>[2] = b
  OBVIOUS
<1>. QED
  BY <1>1, <1>2, <1>3, <1>4

\* A second generation.
LEMMA TwoGenerations ==
    ASSUME NEW a, NEW b
    PROVE  /\ Len(Append(<<a>>, b)) = 2
           /\ Append(<<a>>, b)[1] = a /\ Append(<<a>>, b)[2] = b
<1>1. <<a>> \in Seq({a, b}) /\ Len(<<a>>) = 1 /\ <<a>>[1] = a
  OBVIOUS
<1>. QED
  BY <1>1, AppendProperties

\* The generation at hand has the text it needs, if it needs one.
HasText == Head(steps) \in RequiresText => textInput \notin {None, <<>>}

\* Where the plan stands: all of it to come, its grounding to come, or done.
PlanAgrees ==
    \/ /\ step \in {"image", "prompt", "decode", "parse", "result"}
       /\ generations = <<>> /\ steps = Plan(queued) /\ textInput = FirstText(queued)
    \/ /\ step \in {"prompt", "decode", "parse", "result"}
       /\ queued.task_type = "Cascaded"
       /\ steps = <<"CAPTION_TO_PHRASE_GROUNDING">>
       /\ \E g : /\ generations = <<g>> /\ g.text = textInput
                 /\ g.task_token = CaptionToken[queued.task_prompt]
    \/ step = "done" /\ DoneIsWhatWasAsked
    \/ step = "failed"

\* The generations made and those to come are the plan of the queued task.
PlanInv ==
    /\ SubmissionInv
    /\ step = "waiting" => generations = <<>>
    /\ step # "waiting" => queued # None /\ PlanAgrees
    /\ step \in {"decode", "parse", "result"} => HasText

\* What is queued stays.
LEMMA QueuedStays ==
    ASSUME SubmissionInv, queued # None, [PipelineNext]_pipelineVars
    PROVE  request' = request /\ queued' = queued
<1>1. hstep = "answered"
  BY DEF SubmissionInv
<1>. QED
  BY <1>1 DEF PipelineNext, pipelineVars, submissionVars, Submit, Disturb, Handle, SubmissionFault,
      StartInference, Infer, ImageFails, ModelFails,
      ReadField, FieldFails, RefuseUpload, BuildUpload, SaveUpload, ResolvePath, LocatePath, InspectPath,
      RefusePath, BuildPath, Enqueue, SaveUploadFails, RootIsGone, ReplaceFile, RefuseRecord, DropHandler

\* The last generation of a plan is what the client asked for.
LEMMA LastGeneration ==
    ASSUME SubmissionInv, queued # None, PlanAgrees, HasText, EndGeneration,
           request' = request, Tail(steps) = <<>>
    PROVE  DoneIsWhatWasAsked'
<1>1. /\ queued.task_type = (IF TypeAsked = "Single task" THEN "Single" ELSE "Cascaded")
      /\ queued.task_prompt = PromptAsked /\ PromptAsked \in PromptsOf(queued.task_type)
      /\ queued.text_input = (IF TextAsked = <<>> THEN None ELSE Text(TextAsked))
  BY AskedIsListed DEF SubmissionInv
<1>2. PromptAsked' = PromptAsked /\ TextAsked' = TextAsked
  BY AskedStays
<1>. DEFINE g == [task_token |-> Head(steps), text |-> text, input |-> textInput]
<1>3. step = "result" /\ generations' = Append(generations, g)
  BY DEF EndGeneration
<1>4. CASE generations = <<>> /\ steps = Plan(queued) /\ textInput = FirstText(queued)
  <2>1. queued.task_type = "Single" /\ steps = <<SingleToken[PromptAsked]>>
    <3>1. CASE queued.task_type = "Cascaded"
      <4>1. steps = <<CaptionToken[PromptAsked], "CAPTION_TO_PHRASE_GROUNDING">>
        BY <1>1, <1>4, <3>1 DEF Plan
      <4>2. Tail(steps) = <<"CAPTION_TO_PHRASE_GROUNDING">>
        BY <4>1, PlanParts
      <4>3. Tail(steps) # <<>>
        BY <4>2, PlanParts
      <4>. QED
        BY <4>3
    <3>2. CASE queued.task_type = "Single"
      BY <1>1, <1>4, <3>2 DEF Plan
    <3>. QED
      BY <1>1, <3>1, <3>2
  <2>2. PromptAsked \in DOMAIN SingleToken
    BY <1>1, <2>1, PromptsDiffer DEF PromptsOf
  <2>3. /\ generations' = <<g>> /\ Len(generations') = 1 /\ generations'[1] = g
        /\ Head(steps) = SingleToken[PromptAsked]
    BY <1>3, <1>4, <2>1, PlanParts
  <2>4. Head(steps) \in RequiresText => textInput = TextAsked /\ TextAsked # <<>>
    <3>. SUFFICES ASSUME textInput \notin {None, <<>>} PROVE textInput = TextAsked /\ TextAsked # <<>>
      BY DEF HasText
    <3>1. queued.text_input # None /\ textInput = queued.text_input.text
      BY <1>4, <2>1 DEF FirstText
    <3>2. TextAsked # <<>> /\ queued.text_input = Text(TextAsked)
      BY <1>1, <3>1
    <3>. QED
      BY <3>1, <3>2 DEF Text
  <2>. HIDE DEF PromptAsked, TextAsked
  <2>. QED
    BY <1>2, <2>2, <2>3, <2>4 DEF DoneIsWhatWasAsked
<1>5. CASE /\ queued.task_type = "Cascaded"
           /\ steps = <<"CAPTION_TO_PHRASE_GROUNDING">>
           /\ \E h : /\ generations = <<h>> /\ h.text = textInput
                     /\ h.task_token = CaptionToken[queued.task_prompt]
  <2>1. PromptAsked \notin DOMAIN SingleToken
    BY <1>1, <1>5, PromptsDiffer DEF PromptsOf
  <2>2. PICK h : /\ generations = <<h>> /\ h.text = textInput
                 /\ h.task_token = CaptionToken[PromptAsked]
    BY <1>1, <1>5
  <2>3. Len(generations') = 2 /\ generations'[1] = h /\ generations'[2] = g
    BY <1>3, <2>2, TwoGenerations
  <2>4. Head(steps) = "CAPTION_TO_PHRASE_GROUNDING" /\ textInput # <<>>
    BY <1>5, PlanParts DEF HasText, RequiresText
  <2>. HIDE DEF PromptAsked, TextAsked
  <2>. QED
    BY <1>2, <2>1, <2>2, <2>3, <2>4 DEF DoneIsWhatWasAsked
<1>. QED
  BY <1>3, <1>4, <1>5 DEF PlanAgrees

\* One step per step of infer.
LEMMA PlanStep == PlanInv /\ [PipelineNext]_pipelineVars => PlanInv'
<1>. SUFFICES ASSUME PlanInv, [PipelineNext]_pipelineVars PROVE PlanInv'
  OBVIOUS
<1>1. SubmissionInv /\ SubmissionInv'
  BY SubmissionStep DEF PlanInv
<1>2. queued # None => request' = request /\ queued' = queued
  BY <1>1, QueuedStays
<1>3. request' = request /\ UNCHANGED <<generations, step>> /\ DoneIsWhatWasAsked => DoneIsWhatWasAsked'
  BY AskedStays DEF DoneIsWhatWasAsked
<1>. SUFFICES /\ step' = "waiting" => generations' = <<>>
              /\ step' # "waiting" => queued' # None /\ PlanAgrees'
              /\ step' \in {"decode", "parse", "result"} => HasText'
  BY <1>1 DEF PlanInv
<1>4. CASE UNCHANGED vars
  <2>1. UNCHANGED <<step, steps, generations, textInput>>
    BY <1>4 DEF vars, inferVars
  <2>2. HasText => HasText'
    BY <2>1 DEF HasText
  <2>3. ASSUME queued # None, PlanAgrees PROVE PlanAgrees'
    <3>1. queued' = queued /\ (DoneIsWhatWasAsked => DoneIsWhatWasAsked')
      BY <1>2, <1>3, <2>1, <2>3
    <3>. QED
      BY <2>1, <2>3, <3>1 DEF PlanAgrees, Plan, FirstText
  <2>. QED
    BY <1>2, <2>1, <2>2, <2>3 DEF PlanInv
<1>5. CASE StartInference
  <2>1. queued # None /\ queued' = queued /\ step' = "image" /\ generations' = generations
        /\ steps' = Plan(queued) /\ textInput' = FirstText(queued) /\ step = "waiting"
    BY <1>2, <1>5 DEF StartInference, Receive
  <2>2. generations = <<>>
    BY <2>1 DEF PlanInv
  <2>3. PlanAgrees'
    BY <2>1, <2>2 DEF PlanAgrees, Plan, FirstText
  <2>. QED
    BY <2>1, <2>3
<1>6. CASE step # "waiting" /\ step' = "failed"
  BY <1>2, <1>6 DEF PlanAgrees, PlanInv
<1>7. CASE EncodeImage \/ DecodeFirst \/ DecodeCached \/ EndDecoding \/ ParseRegion \/ EndParse
  <2>1. UNCHANGED <<generations, steps, textInput>> /\ step # "waiting"
    BY <1>7 DEF EncodeImage, DecodeFirst, DecodeCached, Generating, EndDecoding, ParseRegion, EndParse, inferVars
  <2>2. \/ step = "image" /\ step' = "prompt"
        \/ step = "decode" /\ step' \in {"decode", "parse", "result"}
        \/ step = "parse" /\ step' \in {"parse", "result"}
    BY <1>7 DEF EncodeImage, DecodeFirst, DecodeCached, Generating, EndDecoding, ParseRegion, EndParse, inferVars
  <2>. QED
    BY <1>2, <2>1, <2>2 DEF PlanInv, PlanAgrees, HasText
<1>8. CASE BeginGeneration
  BY <1>2, <1>8 DEF BeginGeneration, PlanInv, PlanAgrees, HasText
<1>9. CASE EndGeneration
  <2>1. queued # None /\ PlanAgrees /\ HasText /\ step = "result" /\ queued' = queued /\ request' = request
    BY <1>2, <1>9 DEF EndGeneration, PlanInv
  <2>2. CASE Tail(steps) = <<>>
    BY <1>1, <1>9, <2>1, <2>2, LastGeneration DEF EndGeneration, PlanAgrees
  <2>3. CASE Tail(steps) # <<>>
    <3>1. /\ queued.task_type = "Cascaded" /\ generations = <<>>
          /\ steps = <<CaptionToken[queued.task_prompt], "CAPTION_TO_PHRASE_GROUNDING">>
      BY <2>1, <2>3, PlanParts DEF PlanAgrees, Plan
    <3>2. /\ steps' = <<"CAPTION_TO_PHRASE_GROUNDING">> /\ textInput' = text /\ step' = "prompt"
          /\ generations' = <<[task_token |-> Head(steps), text |-> text, input |-> textInput]>>
          /\ Head(steps) = CaptionToken[queued.task_prompt]
      BY <1>9, <2>3, <3>1, PlanParts DEF EndGeneration
    <3>. QED
      BY <2>1, <3>1, <3>2 DEF PlanAgrees
  <2>. QED
    BY <2>2, <2>3
<1>10. CASE TextMissing
  BY <1>6, <1>10 DEF TextMissing, Fail
<1>. QED
  BY <1>4, <1>5, <1>6, <1>7, <1>8, <1>9, <1>10, InferenceSteps DEF Infer, Advance

\* A job that is done has the generations that its prompt stands for, on the
\* text that was asked or on the caption before (inference.rs run_task_plan,
\* required_text_input).
THEOREM DoneIsWhatWasAskedCorrect == PipelineSpec => []DoneIsWhatWasAsked
<1>1. PipelineInit => PlanInv
  BY SubmissionBegins DEF PlanInv, PipelineInit, Init
<1>2. PlanInv => DoneIsWhatWasAsked
  BY DEF PlanInv, PlanAgrees, DoneIsWhatWasAsked
<1>. QED
  BY <1>1, <1>2, PlanStep, PTL DEF PipelineSpec
=============================================================================
