------------------------------- MODULE FMBatch ------------------------------
(***************************************************************************)
(* The batch queries.  CountBatch runs the backward searches of a tile of  *)
(* patterns in lock-step, one byte per round, with the lanes that are      *)
(* still active compacted for map_batch.  LocateDocsBatch does the same    *)
(* with the LF walks of all the rows of all the patterns.                  *)
(***************************************************************************)
EXTENDS FMCall

CONSTANT Tile      \* kTile: lanes in flight (32)

ASSUME TileAssumption == Tile \in Nat \ {0}

Batch == req[1].ps
MinOf(x, y) == IF x < y THEN x ELSE y

\* The lanes of the tile at t0; lane s is pattern t0 + s, counted from 1.
Lanes(n) == 1..MinOf(Tile, n - loc.t0)

CountBatch ==
    LET zero == [j \in 1..Len(Batch) |-> 0] IN
    /\ pc = "CountBatch"
    /\ IF Valid(fm)
         THEN Go("tile", [t0 |-> 0, result |-> zero, batch |-> <<>>, j |-> 0,
                          lane |-> [s \in 1..Tile |-> [lo |-> 0, hi |-> 0, posn |-> 0,
                                                       active |-> FALSE]]])
         ELSE Respond(zero)

\* The lanes of a tile are set up; an empty pattern is answered at once.
CountTile ==
    /\ pc = "tile"
    /\ IF loc.t0 >= Len(Batch) THEN Respond(loc.result)
       ELSE LET len(s) == Len(Batch[loc.t0 + s])
                T == Lanes(Len(Batch)) IN
            Go("round",
               [loc EXCEPT
                  !.lane = [s \in 1..Tile |->
                              IF s \notin T THEN loc.lane[s]
                              ELSE IF len(s) = 0 THEN [loc.lane[s] EXCEPT !.active = FALSE]
                              ELSE [lo |-> 0, hi |-> M(fm), posn |-> len(s), active |-> TRUE]],
                  !.result = [x \in 1..Len(Batch) |->
                                IF x - loc.t0 \in T /\ Len(Batch[x]) = 0 THEN M(fm) ELSE @[x]]])

\* The id of the byte a lane is to be extended by.
IdOf(s) == fm.byte_to_id_[Batch[loc.t0 + s][loc.lane[s].posn]]

\* A round: the active lanes are gathered, without those whose byte is absent,
\* and sent through the wavelet matrix together.  With none left the tile ends.
CountGather ==
    LET T == Lanes(Len(Batch))
        Live == {s \in T : loc.lane[s].active /\ IdOf(s) >= 0}
        slot[n \in 0..Tile] ==
          IF n = 0 THEN <<>> ELSE IF n \in Live THEN Append(slot[n - 1], n) ELSE slot[n - 1]
        lane == [s \in 1..Tile |-> IF s \in T \ Live THEN [loc.lane[s] EXCEPT !.active = FALSE]
                                   ELSE loc.lane[s]] IN
    /\ pc = "round"
    /\ IF Live = {}
         THEN Go("tile", [loc EXCEPT !.lane = lane, !.batch = <<>>, !.t0 = @ + Tile])
         ELSE Go("scatter",
                 [loc EXCEPT !.lane = lane, !.j = 1,
                             !.batch = [j \in 1..Cardinality(Live) |->
                               LET s == slot[Tile][j] IN
                               [slot |-> s, id |-> IdOf(s),
                                lo |-> MapPos(fm.wm_, IdOf(s), lane[s].lo, fm.qlevels_),
                                hi |-> MapPos(fm.wm_, IdOf(s), lane[s].hi, fm.qlevels_)]]])

\* Mutant: the place in the batch is taken for the lane.
Mut_SlotOf(j) == j
SlotOf(j) == loc.batch[j].slot

\* Entry j of the batch goes back to its lane.
CountScatter ==
    LET b == loc.batch[loc.j]
        s == SlotOf(loc.j)
        base == fm.c_[b.id] - fm.first_[b.id]
        nlo == base + b.lo
        nhi == base + b.hi
        posn == loc.lane[s].posn - 1
        lane == IF nlo >= nhi THEN [loc.lane[s] EXCEPT !.active = FALSE]
                ELSE [lo |-> nlo, hi |-> nhi, posn |-> posn, active |-> posn > 0] IN
    /\ pc = "scatter"
    /\ Go(IF loc.j = Len(loc.batch) THEN "round" ELSE "scatter",
          [loc EXCEPT !.lane[s] = lane, !.j = @ + 1,
                      !.result[loc.t0 + s] = IF nlo < nhi /\ posn = 0 THEN nhi - nlo ELSE @])

-----------------------------------------------------------------------------
\* LocateDocsBatch: one walk per row of every pattern, in order.
LocateDocsBatch ==
    LET Rows(q) == LET iv == Interval(fm, Batch[q]) IN
                   IF Batch[q] = <<>> THEN <<>>
                   ELSE [n \in 1..(iv[2] - iv[1]) |->
                           [row |-> iv[1] + n - 1, steps |-> 0, q |-> q, done |-> FALSE, pos |-> 0]]
        walks[q \in 0..Len(Batch)] == IF q = 0 THEN <<>> ELSE walks[q - 1] \o Rows(q) IN
    /\ pc = "LocateDocsBatch"
    /\ IF Valid(fm) THEN Go("walks", [t0 |-> 0, walks |-> walks[Len(Batch)]])
       ELSE Respond([q \in 1..Len(Batch) |-> Nothing])

\* Mutant: the walk forgets the steps it made.
Mut_Stop(w) == [w EXCEPT !.done = TRUE, !.pos = SampleVal(fm, w.row)]

\* A walk on a sampled row is over.
Stop(w) == [w EXCEPT !.done = TRUE, !.pos = SampleVal(fm, w.row) + w.steps]

\* A round over the tile at t0: the walks on a sampled row stop, the others
\* make one step.  A round in which nobody steps ends the tile.
WalkRound ==
    LET T == {loc.t0 + s : s \in Lanes(Len(loc.walks))}
        Pend == {g \in T : ~loc.walks[g].done /\ loc.walks[g].row \notin fm.sampled_bv_} IN
    /\ pc = "walks" /\ loc.t0 < Len(loc.walks)
    /\ Go("walks",
          [t0 |-> IF Pend = {} THEN loc.t0 + Tile ELSE loc.t0,
           walks |-> [g \in 1..Len(loc.walks) |->
                        LET w == loc.walks[g] IN
                        IF g \in Pend THEN [w EXCEPT !.row = LF(fm, w.row), !.steps = @ + 1]
                        ELSE IF g \in T /\ ~w.done THEN Stop(w) ELSE w]])

\* The positions go to their pattern, the sentinel's is left out.
WalksEnd ==
    LET OfPattern(q) == {g \in 1..Len(loc.walks) :
                           loc.walks[g].q = q /\ loc.walks[g].done
                             /\ loc.walks[g].pos < fm.text_len_}
        HitOf(g) == Hit(fm, loc.walks[g].pos) IN
    /\ pc = "walks" /\ loc.t0 >= Len(loc.walks)
    /\ Respond([q \in 1..Len(Batch) |->
                  [h \in {HitOf(g) : g \in OfPattern(q)} |->
                     Cardinality({g \in OfPattern(q) : HitOf(g) = h})]])

BatchStep == \/ CountBatch \/ CountTile \/ CountGather \/ CountScatter
             \/ LocateDocsBatch \/ WalkRound \/ WalksEnd
=============================================================================
