----------------------------- MODULE MCGapPipeline -----------------------------
(* SessionControl and GapPipeline side by side: while one runs the other has not begun,   *)
(* so that each is checked as if it were alone.  And the replies.                 *)
EXTENDS SessionControl, GapPipeline, TLC

\* The workers run the same loop.  Only for runs without liveness.
WorkerSymmetry == Permutations(Workers)

SessionStep == GapInit /\ Next /\ UNCHANGED gapVars
GapStep == Init /\ GapNext /\ UNCHANGED vars

NoneBegun == Init /\ GapInit

SideBySide == NoneBegun /\ [][SessionStep \/ GapStep]_<<vars, gapVars>>

Box(label, conf, x, top, bottom, width) ==
  [label |-> label, conf |-> conf, x |-> x, top |-> top, bottom |-> bottom, width |-> width]

\* Labels of a task: none, either, or both with T2 the surer one, and one too unsure.
TaskLabels == {<<>>, <<Box("T1", 2, 0, 0, 1, 1)>>, <<Box("T2", 2, 0, 0, 1, 1)>>,
               <<Box("T1", 2, 0, 0, 1, 1), Box("T2", 3, 0, 0, 1, 1)>>,
               <<Box("T1", 2, 0, 0, 1, 1), Box("T2", 1, 0, 0, 1, 1)>>}

\* Gaps that drift, one that is larger, and none.
GapSeqs == {<<>>} \cup {<<Box("gap_t1", 2, x, 4, 6, 2)>> : x \in 0..3}
                  \cup {<<Box("gap_t2", 2, 1, 2, 6, 2), Box("gap_t1", 2, 3, 4, 6, 2)>>}

Uppers(label, xs, ys) == [i \in DOMAIN xs |-> Box(label, 2, xs[i], 0, ys[i], 1)]
Lowers(xs, ys) == [i \in DOMAIN xs |-> Box("tread_cleat_dn", 2, xs[i], ys[i], 10, 1)]

\* Five upper cleats, apart or in two columns, over five lower ones
Places == {<<0, 1, 2, 3, 4>>, <<0, 0, 2, 2, 2>>}
LowerRows == {<<6, 6, 6, 6, 6>>, <<6, 7, 6, 7, 6>>, <<8, 6, 7, 6, 6>>}

Cleats(rows) ==
  {Uppers("tread_cleat_up", xs, ys) \o Lowers(<<0, 1, 2, 3, 4>>, zs) :
     xs \in Places, ys \in rows, zs \in LowerRows}
Riser == {Uppers("riser_cleat", <<0, 2>>, ys) \o Lowers(<<0, 1, 2>>, <<6, 7, 6>>) :
            ys \in [1..2 -> {3, 4}]}
Second == <<Box("T2", 2, 0, 0, 1, 1)>>

\* Task labels with gaps, cleats with a gap, and cleats of either kind in the second task
MCReplies ==
  {t \o g : t \in TaskLabels, g \in GapSeqs}
    \cup {<<Box("gap_t1", 2, 1, 4, 6, 2)>> \o c : c \in Cleats([1..5 -> {3, 4}])}
    \cup {Second \o r \o c : r \in {<<>>} \cup Riser, c \in Cleats({<<3, 4, 3, 4, 4>>})}
    \cup Riser \cup {Second \o r : r \in Riser}
=============================================================================
