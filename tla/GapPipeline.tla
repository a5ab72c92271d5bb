------------------------------ MODULE GapPipeline ------------------------------
(***************************************************************************)
(* From the detections of a reply to gap lines: process and process_ai_test of    *)
(* PostprocessModule with the classes they call.  They run in the dealer thread,      *)
(* one reply after another; SameGapChecker is what they keep between replies.         *)
(*                                                                         *)
(* A detection is an upright box: the middle of its edges, its top, its bottom and     *)
(* its width; coordinates are small integers, and the arithmetic of lines is exact.     *)
(* A line is y * dx = dy * x + k.  RANSAC draws its samples at random, so a fit is        *)
(* any of several.  A list of detections is the set of their places in the reply, since    *)
(* only the first gap's place matters; so is a list of gap lines a set.  Images,            *)
(* distances in millimetres and what is saved are left out.                            *)
(***************************************************************************)
EXTENDS Integers, Sequences, FiniteSets, FiniteSetsExt, Functions

CONSTANTS
  Replies,         \* replies: sequences of detections
  MinConfidence,   \* min_confidence_
  ImageHeight,     \* image_height, in rows
  MarginRows,      \* image_height * gap_filter_margin
  InlierDistance,  \* edge_inlier_threshold
  NearGap,         \* location_threshold of SameGapConfig
  LikeGap,         \* size_threshold of SameGapConfig, in per cent
  MaxSteps         \* 10000 in perpendicular_to_line_

ASSUME InlierAssumption == InlierDistance \in Nat \ {0}
ASSUME MaxStepsAssumption == MaxSteps \in Nat \ {0}

Detection == [label : STRING, conf : Int, x : Int, top : Int, bottom : Int, width : Int]
ASSUME RepliesAssumption == \A reply \in Replies : reply \in Seq(Detection)

VARIABLES
  previous,        \* SameGapChecker: the gap it compares with
  analysed,        \* history: the gap of the last result that had one and was analysed
  result           \* the result of a reply, until it is published

gapVars == <<previous, analysed, result>>

NoGap == [label |-> "none", conf |-> 0, x |-> 0, top |-> 0, bottom |-> 0, width |-> 0]
NoLine == [dx |-> 0, dy |-> 0, k |-> 0]
NoEdges == [upLong |-> NoLine, upShort |-> NoLine, dnLong |-> NoLine, dnShort |-> NoLine]
NoResult == [kind |-> "none", reply |-> <<>>, task |-> "Unknown", skipped |-> FALSE,
             edges |-> NoEdges, lines |-> {}]

Line == [dx : Int, dy : Int, k : Int]
TaskIds == {"T1", "T2", "Unknown", "AI Test"}
Fitted == {line \in Line : line.dx > 0} \cup {NoLine}

(* No edge is upright, and no gap line is longer than the steps that are taken for it.       *)
GapTypeOK ==
  /\ previous \in Detection \cup {NoGap} /\ analysed \in Detection \cup {NoGap}
  /\ result.kind \in {"none", "gap", "other", "ai_test"} /\ result.reply \in Replies \cup {<<>>}
  /\ result.task \in TaskIds /\ result.skipped \in BOOLEAN
  /\ DOMAIN result.edges = {"upLong", "upShort", "dnLong", "dnShort"}
  /\ \A e \in DOMAIN result.edges : result.edges[e] \in Fitted
  /\ \A line \in result.lines :
       /\ line.type \in {"up", "down"} /\ line.from \in Detection
       /\ line.up \in Fitted \ {NoLine} /\ line.steps \in 1..MaxSteps

GapInit == previous = NoGap /\ analysed = NoGap /\ result = NoResult

-----------------------------------------------------------------------------
(* DetectionExtractor.                                                      *)

\* The places of detections that are sure enough
With(reply, labels) ==
  {i \in DOMAIN reply : reply[i].conf >= MinConfidence /\ reply[i].label \in labels}

Confidence(reply, label) == Max({0} \cup {reply[i].conf : i \in With(reply, {label})})

TaskOf(reply, unknown) ==
  LET one == Confidence(reply, "T1")
      two == Confidence(reply, "T2")
  IN  IF one = 0 /\ two = 0 THEN unknown ELSE IF one >= two THEN "T1" ELSE "T2"

Gaps(reply) == With(reply, {"gap_t1", "gap_t2"})
FirstGap(reply) == reply[Min(Gaps(reply))]
UpCleats(reply) == With(reply, {"tread_cleat_up"})
DownCleats(reply) == With(reply, {"tread_cleat_dn"})
Risers(reply) == With(reply, {"riser_cleat"})

-----------------------------------------------------------------------------
(* CleatClassifier.                                                        *)

\* values[values.size() / 2] of the sorted values
Median(values) ==
  LET half == Cardinality(DOMAIN values) \div 2
  IN  Min({v \in Range(values) : Cardinality({i \in DOMAIN values : values[i] <= v}) > half})

Bottoms(reply, cleats) == [i \in cleats |-> reply[i].bottom]
Tops(reply, cleats) == [i \in cleats |-> reply[i].top]

\* Faulty: the comparison is the wrong way round.
LowFarther(reply, i, cleats) == reply[i].bottom <= Median(Bottoms(reply, cleats))

\* A long cleat of the upper step reaches at least as low as the median.
Low(reply, i, cleats) == reply[i].bottom >= Median(Bottoms(reply, cleats))

High(reply, i, cleats) == reply[i].top <= Median(Tops(reply, cleats))

Classified(reply, task) ==
  LET up == UpCleats(reply)
      dn == DownCleats(reply)
  IN  IF task = "T2"
        THEN [upLong |-> Risers(reply), upShort |-> {}, dnLong |-> {}, dnShort |-> dn]
        ELSE [upLong  |-> {i \in up : Low(reply, i, up)},
              upShort |-> {i \in up : ~Low(reply, i, up)},
              dnLong  |-> {i \in dn : High(reply, i, dn)},
              dnShort |-> {i \in dn : ~High(reply, i, dn)}]

-----------------------------------------------------------------------------
(* EdgeFitter.                                                              *)

BottomPoints(reply, cleats) == [i \in cleats |-> [x |-> reply[i].x, y |-> reply[i].bottom]]
TopPoints(reply, cleats) == [i \in cleats |-> [x |-> reply[i].x, y |-> reply[i].top]]

Abs(n) == IF n < 0 THEN -n ELSE n
Divides(d, n) == n % d = 0
\* The same line in lowest terms, dx > 0
Reduced(l) ==
  LET g == Max({d \in 1..Abs(l.dx) : \A n \in {l.dx, l.dy, l.k} : Divides(d, n)})
      s == IF l.dx < 0 THEN -1 ELSE 1
  IN  [dx |-> s * (l.dx \div g), dy |-> s * (l.dy \div g), k |-> s * (l.k \div g)]

\* fit_line: least squares, and no line for points of one x
FitLine(pts) ==
  LET n   == Cardinality(DOMAIN pts)
      sx  == SumFunction([i \in DOMAIN pts |-> pts[i].x])
      sy  == SumFunction([i \in DOMAIN pts |-> pts[i].y])
      num == n * SumFunction([i \in DOMAIN pts |-> pts[i].x * pts[i].y]) - sx * sy
      den == n * SumFunction([i \in DOMAIN pts |-> pts[i].x * pts[i].x]) - sx * sx
  IN  IF n < 2 \/ den = 0 THEN NoLine
      ELSE Reduced([dx |-> n * den, dy |-> n * num, k |-> sy * den - num * sx])

Through(p, q) ==
  LET dx == p.x - q.x
      dy == p.y - q.y
  IN  Reduced([dx |-> dx, dy |-> dy, k |-> p.y * dx - dy * p.x])

\* point_to_line_distance(p, l) < InlierDistance, squared
Inlier(p, l) ==
  LET off == p.y * l.dx - l.dy * p.x - l.k
  IN  off * off < InlierDistance * InlierDistance * (l.dx * l.dx + l.dy * l.dy)

Pairs(pts) == {ij \in (DOMAIN pts) \X (DOMAIN pts) : pts[ij[1]].x # pts[ij[2]].x}
InliersOf(pts, ij) ==
  LET l == Through(pts[ij[1]], pts[ij[2]])
  IN  [i \in {i \in DOMAIN pts : Inlier(pts[i], l)} |-> pts[i]]

\* Faulty: without a usable sample there is no line.
RansacFitsSampled(pts) ==
  {FitLine(InliersOf(pts, ij)) : ij \in Pairs(pts)} \cup {NoLine}

\* hybrid_ransac_fit: any pair may have been the best one drawn, or none usable was.
RansacFits(pts) ==
  {FitLine(InliersOf(pts, ij)) : ij \in Pairs(pts)} \cup {FitLine(pts)}

-----------------------------------------------------------------------------
(* GapLocalizer.                                                            *)

\* a >= b * sqrt(s), and a > b * sqrt(s)
AtLeast(a, b, s) ==
  IF b <= 0 THEN a >= 0 \/ a * a <= b * b * s ELSE a > 0 /\ a * a >= b * b * s
Above(a, b, s) == ~AtLeast(-a, -b, s)

Norm(l) == l.dx * l.dx + l.dy * l.dy

\* After i steps of one pixel at right angles to the line up, from its point at x, is
\* the line dn reached or passed?
Reached(up, dn, x, i) ==
  LET fall == (dn.dy * x + dn.k) * up.dx - (up.dy * x + up.k) * dn.dx
      turn == up.dx * dn.dx + up.dy * dn.dy
  IN  AtLeast(i * turn * up.dx, fall, Norm(up))

\* perpendicular_to_line_
StepsTo(up, dn, x) == Min({MaxSteps} \cup {i \in 1..MaxSteps : Reached(up, dn, x, i)})

GapLine(type, d, up, dn) == [type |-> type, from |-> d, up |-> up, steps |-> StepsTo(up, dn, d.x)]

\* Its middle is neither near the top nor near the bottom of the image.
InImage(line) ==
  LET up   == line.up
      half == line.steps * up.dx * up.dx
      y    == up.dy * line.from.x + up.k
      rows(m) == 2 * (m * up.dx - y)
  IN  /\ AtLeast(half, rows(MarginRows), Norm(up))
      /\ ~Above(half, rows(ImageHeight - MarginRows), Norm(up))

LinesOf(type, reply, cleats, up, dn) ==
  IF NoLine \in {up, dn} THEN {}
  ELSE {line \in {GapLine(type, reply[i], up, dn) : i \in cleats} : InImage(line)}

\* The lines from every cleat, or else one from every gap
GapLines(reply, cl, edges) ==
  LET four == LinesOf("up", reply, cl.upShort, edges.upShort, edges.dnLong)
                \cup LinesOf("down", reply, cl.upLong, edges.upLong, edges.dnShort)
  IN  IF four # {} THEN four
      ELSE LinesOf("down", reply, Gaps(reply), edges.upLong, edges.dnShort)

-----------------------------------------------------------------------------
(* PostprocessModule.                                                      *)

NoCleats(reply, task) ==
  \/ DownCleats(reply) = {}
  \/ UpCleats(reply) = {} /\ (task = "T2" => Risers(reply) = {})

EdgesOf(reply, cl) == [upLong : RansacFits(BottomPoints(reply, cl.upLong)),
                       upShort : RansacFits(BottomPoints(reply, cl.upShort)),
                       dnLong : RansacFits(TopPoints(reply, cl.dnLong)),
                       dnShort : RansacFits(TopPoints(reply, cl.dnShort))]

\* run_gap_pipeline_
Analyse(kind, reply, task) ==
  LET cl == Classified(reply, task)
      blank == [NoResult EXCEPT !.kind = kind, !.reply = reply, !.task = task]
  IN  IF NoCleats(reply, task) THEN result' = blank
      ELSE \E edges \in EdgesOf(reply, cl) :
             result' = [blank EXCEPT !.edges = edges, !.lines = GapLines(reply, cl, edges)]

Area(gap) == gap.width * (gap.bottom - gap.top)
Square(n) == n * n
\* Their centres are near each other, and their sizes alike.
Similar(gap, prev) ==
  /\ 4 * Square(gap.x - prev.x) + Square(gap.top + gap.bottom - prev.top - prev.bottom)
       < 4 * Square(NearGap)
  /\ Area(prev) > 0 => 100 * Abs(Area(gap) - Area(prev)) < LikeGap * Area(prev)

\* SameGapChecker::is_same_gap
SameGap(gap) == previous # NoGap /\ Similar(gap, previous)

\* Faulty: the gap that is skipped is compared with next time.
RememberedAlways(gap) == gap

Remembered(gap) == IF SameGap(gap) THEN previous ELSE gap

\* process in the sub-task gap inspection
InspectGap(reply) ==
  LET gaps == Gaps(reply)
      task == TaskOf(reply, "Unknown")
  IN  /\ result = NoResult
      /\ previous' = IF gaps = {} THEN previous ELSE Remembered(FirstGap(reply))
      /\ IF gaps # {} /\ SameGap(FirstGap(reply))
           THEN result' = [NoResult EXCEPT !.kind = "gap", !.reply = reply, !.task = task,
                                           !.skipped = TRUE]
           ELSE Analyse("gap", reply, task)
      /\ UNCHANGED analysed

\* process in another sub-task
InspectOther(reply) ==
  /\ result = NoResult
  /\ result' = [NoResult EXCEPT !.kind = "other", !.reply = reply,
                                !.task = TaskOf(reply, "Unknown")]
  /\ UNCHANGED <<previous, analysed>>

\* process_ai_test
TestImage(reply) ==
  /\ result = NoResult
  /\ Analyse("ai_test", reply, TaskOf(reply, "AI Test"))
  /\ UNCHANGED <<previous, analysed>>

\* The result callback goes on with the result, and the next reply may come.
Publish ==
  /\ result # NoResult
  /\ analysed' = IF result.kind = "gap" /\ ~result.skipped /\ Gaps(result.reply) # {}
                   THEN FirstGap(result.reply) ELSE analysed
  /\ result' = NoResult
  /\ UNCHANGED previous

GapNext ==
  \/ \E reply \in Replies : InspectGap(reply) \/ InspectOther(reply) \/ TestImage(reply)
  \/ Publish

GapSpec == GapInit /\ [][GapNext]_gapVars

-----------------------------------------------------------------------------
(* Properties.                                                             *)

(* A gap is skipped exactly when it is like the one that was analysed last, however many  *)
(* were skipped since: a gap that moves slowly cannot escape analysis for ever.         *)
SkippedLikeAnalysed ==
  result.kind = "gap" /\ Gaps(result.reply) # {} =>
    (result.skipped <=> analysed # NoGap /\ Similar(FirstGap(result.reply), analysed))

FitsWell(line, pts) ==
  /\ line # NoLine <=> Pairs(pts) # {}
  /\ \A l \in {Through(pts[ij[1]], pts[ij[2]]) : ij \in Pairs(pts)} :
       (\A i \in DOMAIN pts : pts[i].y * l.dx = l.dy * pts[i].x + l.k) => line = l

(* Whatever samples are drawn for an analysed reply: an edge is found exactly when two of  *)
(* its cleats have different x, and cleats in one line give that line.                 *)
EdgesWhateverSamples ==
  result.kind \in {"gap", "ai_test"} /\ ~result.skipped /\ ~NoCleats(result.reply, result.task) =>
    LET cl == Classified(result.reply, result.task)
    IN  /\ FitsWell(result.edges.upLong, BottomPoints(result.reply, cl.upLong))
        /\ FitsWell(result.edges.upShort, BottomPoints(result.reply, cl.upShort))
        /\ FitsWell(result.edges.dnLong, TopPoints(result.reply, cl.dnLong))
        /\ FitsWell(result.edges.dnShort, TopPoints(result.reply, cl.dnShort))

(* Up lines start at cleats that end higher than every cleat a down line starts at, and    *)
(* of the second task, whose upper cleats are the riser's, there are none.             *)
UpLinesFromShortCleats ==
  \A up, dn \in result.lines :
    /\ up.type = "up" => result.task # "T2"
    /\ up.type = "up" /\ dn.type = "down" /\ dn.from.label = "tread_cleat_up"
         => up.from.bottom < dn.from.bottom
=============================================================================
