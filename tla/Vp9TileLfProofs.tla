--------------------------- MODULE Vp9TileLfProofs ---------------------------
(***************************************************************************)
(* The safety of decoding tiles and filtering rows with the same workers,  *)
(* for any number of tiles, workers, rows and columns.                     *)
(***************************************************************************)
EXTENDS Vp9TileLf, FiniteSetTheorems, TLAPS

USE TileAssumption DEF Rows, Tiles, Workers, MainType, SyncType, PlaceType,
                       HistoryType, FlagType

-----------------------------------------------------------------------------
(* Dealing out the tile buffers.                                           *)

\* Division with remainder, of the tiles by the workers.
LEMMA Division ==
  /\ NumTiles \div NumWorkers \in Nat \ {0}
  /\ NumTiles % NumWorkers \in 0 .. NumWorkers - 1
  /\ NumTiles = NumWorkers * (NumTiles \div NumWorkers) + (NumTiles % NumWorkers)
<1> DEFINE q == NumTiles \div NumWorkers
           m == NumTiles % NumWorkers
<1>1. q \in Int /\ m \in 0 .. NumWorkers - 1 /\ NumTiles = NumWorkers * q + m
  OBVIOUS
<1> HIDE DEF q, m
<1>2. q > 0
  <2> SUFFICES ASSUME q <= 0 PROVE FALSE
    BY <1>1
  <2>1. NumWorkers * q <= 0
    BY <1>1
  <2> QED
    BY <1>1, <2>1
<1> QED
  BY <1>1, <1>2 DEF q, m

\* The last workers get one tile more.
LEMMA CountIs ==
  ASSUME NEW n \in Workers
  PROVE  Count(n) = NumTiles \div NumWorkers
                      + (IF n >= NumWorkers - (NumTiles % NumWorkers) THEN 1 ELSE 0)
<1> DEFINE m == NumTiles % NumWorkers
<1>1. m \in 0 .. NumWorkers - 1
  BY Division
<1> HIDE DEF m
<1>2. (m + n) \div NumWorkers = IF n >= NumWorkers - m THEN 1 ELSE 0
  <2> DEFINE q == (m + n) \div NumWorkers
             x == (m + n) % NumWorkers
  <2>1. q \in Int /\ x \in 0 .. NumWorkers - 1 /\ m + n = NumWorkers * q + x
    BY <1>1
  <2> HIDE DEF q, x
  <2>2. q < 0 => NumWorkers * q <= - NumWorkers
    BY <2>1
  <2>3. q > 1 => NumWorkers * q >= 2 * NumWorkers
    BY <2>1
  <2>4. q = 0 => NumWorkers * q = 0
    OBVIOUS
  <2>5. q = 1 => NumWorkers * q = NumWorkers
    OBVIOUS
  <2> QED
    BY <1>1, <2>1, <2>2, <2>3, <2>4, <2>5 DEF q
<1> QED
  BY <1>2 DEF Count, m

\* No worker starts with a tile buffer that is dealt, and all are dealt.
LEMMA DealtFacts ==
  /\ Dealt(0) = 0
  /\ Dealt(NumWorkers) = NumTiles
  /\ \A n \in 0 .. NumWorkers : Dealt(n) \in 0 .. NumTiles
  /\ \A n \in Workers : /\ Count(n) \in Nat \ {0}
                        /\ Dealt(n + 1) = Dealt(n) + Count(n)
<1> DEFINE q == NumTiles \div NumWorkers
           m == NumTiles % NumWorkers
           D(n) == n * q + (IF n > NumWorkers - m THEN n - (NumWorkers - m) ELSE 0)
<1>1. q \in Nat \ {0} /\ m \in 0 .. NumWorkers - 1 /\ NumTiles = NumWorkers * q + m
  BY Division
<1>2. ASSUME NEW n \in Workers
      PROVE  Count(n) = q + (IF n >= NumWorkers - m THEN 1 ELSE 0)
  BY CountIs
<1>3. ASSUME NEW n PROVE Dealt(n) = D(n)
  BY DEF Dealt
<1> HIDE DEF q, m
<1>4. D(0) = 0
  BY <1>1
<1>5. D(NumWorkers) = NumTiles
  BY <1>1
<1>6. ASSUME NEW n \in 0 .. NumWorkers PROVE D(n) \in 0 .. NumTiles
  <2>1. n * q >= 0
    BY <1>1
  <2>2. (NumWorkers - n) * q >= 0
    BY <1>1
  <2>3. (NumWorkers - n) * q = NumWorkers * q - n * q
    BY <1>1
  <2>4. n * q \in Int /\ NumWorkers * q \in Int
    BY <1>1
  <2> QED
    BY <1>1, <2>1, <2>2, <2>3, <2>4
<1>7. ASSUME NEW n \in Workers
      PROVE  /\ Count(n) \in Nat \ {0}
             /\ D(n + 1) = D(n) + Count(n)
  <2>1. (n + 1) * q = n * q + q
    BY <1>1
  <2>2. n * q \in Int
    BY <1>1
  <2> QED
    BY <1>1, <1>2, <2>1, <2>2
<1> HIDE DEF D
<1> QED
  BY <1>3, <1>4, <1>5, <1>6, <1>7

-----------------------------------------------------------------------------
(* Facts about the state.                                                  *)

\* Workers are launched in the order of their numbers.
LEMMA LaunchedIs ==
  ASSUME TypeOK, NEW w \in Launched
  PROVE  w \in Workers /\ buf[w] \in [start : Nat, end : Int]
<1>1. launched \in 0 .. NumWorkers /\ buf \in [Workers -> [start : Nat, end : Int]]
  BY DEF TypeOK
<1>2. w \in Workers
  BY <1>1 DEF Launched
<1> QED
  BY <1>1, <1>2

\* A tile belongs to one worker.
LEMMA OneOwner ==
  ASSUME TypeOK, TilesDealt, NEW v \in Launched, NEW w \in Launched,
         NEW t \in Own(v), t \in Own(w)
  PROVE  v = w
<1>1. /\ v \in Workers /\ w \in Workers
      /\ buf[v] \in [start : Nat, end : Int] /\ buf[w] \in [start : Nat, end : Int]
  BY LaunchedIs
<1>2. v < w => buf[v].end < buf[w].start
  BY DEF TilesDealt
<1>3. w < v => buf[w].end < buf[v].start
  BY DEF TilesDealt
<1> QED
  BY <1>1, <1>2, <1>3 DEF Own

\* The tiles of a worker are tiles of the frame.
LEMMA OwnTiles ==
  ASSUME TypeOK, TilesDealt, NEW w \in Launched
  PROVE  /\ w \in Workers
         /\ buf[w] \in [start : Nat, end : Int]
         /\ buf[w].start \in Tiles /\ buf[w].end \in Tiles
         /\ buf[w].start <= buf[w].end
         /\ Own(w) \subseteq Tiles
<1>1. w \in Workers /\ buf[w] \in [start : Nat, end : Int] /\ bufStart \in Nat
  BY LaunchedIs DEF TypeOK
<1>2. buf[w].start <= buf[w].end /\ buf[w].end < bufStart
  BY DEF TilesDealt
<1>3. bufStart <= NumTiles
  BY DealtFacts DEF TilesDealt, TypeOK
<1> QED
  BY <1>1, <1>2, <1>3 DEF Own

\* No row is counted more often than there are tiles, and one that was counted
\* as often was counted in every tile.
LEMMA CountedIs ==
  ASSUME NEW r
  PROVE  /\ IsFiniteSet(Counted(r))
         /\ Cardinality(Counted(r)) \in 0 .. NumTiles
         /\ Cardinality(Counted(r)) = NumTiles => Counted(r) = Tiles
<1>1. Counted(r) \subseteq Tiles
  BY DEF Counted
<1>2. IsFiniteSet(Tiles) /\ Cardinality(Tiles) = NumTiles
  BY FS_Interval
<1>3. /\ IsFiniteSet(Counted(r)) /\ Cardinality(Counted(r)) <= Cardinality(Tiles)
      /\ Cardinality(Counted(r)) = Cardinality(Tiles) => Counted(r) = Tiles
  BY <1>1, <1>2, FS_Subset
<1>4. Cardinality(Counted(r)) \in Nat
  BY <1>3, FS_CardinalityType
<1> QED
  BY <1>2, <1>3, <1>4

\* The row that is needed is a row, and not above.
LEMMA NeededIs ==
  ASSUME NEW r \in Rows
  PROVE  NeededRow(r) \in Rows /\ NeededRow(r) >= r
BY DEF NeededRow

\* When no worker failed and row k was counted in every tile, every tile was
\* decoded that far.
LEMMA CountedDecoded ==
  ASSUME IndInv, ~lfCorrupted, NEW r \in Rows,
         tilesDone[NeededRow(r)] = NumTiles, NEW t \in Tiles
  PROVE  decoded[t] >= r + 2 \/ decoded[t] = NumRows
<1> DEFINE k == NeededRow(r)
<1>1. k \in Rows /\ (k = r + 1 \/ k = NumRows - 1)
  BY DEF NeededRow
<1>2. Cardinality(Counted(k)) = NumTiles
  BY <1>1 DEF IndInv
<1>3. t \in Counted(k)
  BY <1>2, CountedIs
<1>4. PICK w \in Launched : t \in Own(w) /\ ~Owes(w, t, k)
  BY <1>3 DEF Counted
<1>5. w \in Workers /\ buf[w] \in [start : Nat, end : Int] /\ t \in Int
  BY <1>4, OwnTiles DEF IndInv
<1>6. ~bad[w] /\ ~(left[w] >= 0) /\ OwnDecoded(w)
  BY <1>4, <1>5 DEF IndInv, Place
<1>7. /\ tile[w] \in Nat /\ row[w] \in Rows /\ decoded[t] \in 0 .. NumRows
      /\ left[w] \in Int
  BY <1>5 DEF IndInv, TypeOK
<1>8. Decoding(w) => t < tile[w] \/ (t = tile[w] /\ k < row[w])
  BY <1>1, <1>4, <1>5, <1>6, <1>7 DEF Owes, At
<1>9. decoded[t] = NumRows \/ (decoded[t] >= row[w] /\ k < row[w])
  BY <1>4, <1>5, <1>6, <1>7, <1>8 DEF OwnDecoded
<1> HIDE DEF k
<1> QED
  BY <1>1, <1>7, <1>9

-----------------------------------------------------------------------------
(* What a step of one worker leaves to the others.                         *)

Same(v) ==
  /\ pc'[v] = pc[v] /\ tile'[v] = tile[v] /\ row'[v] = row[v]
  /\ col'[v] = col[v] /\ left'[v] = left[v] /\ bad'[v] = bad[v]

SameDeal == UNCHANGED <<main, launched, bufStart, buf, reported>>

\* The local part of the invariant for another worker.
LEMMA PlaceSame ==
  ASSUME NEW v, Place(v), Same(v), SameDeal, lfCorrupted => lfCorrupted',
         v \in waiting' => v \in waiting
  PROVE  Place(v)'
BY DEF Place, Same, SameDeal, Decoding, Filtering, InHand, At, Own, Launched

\* Permissions to filter stay.
LEMMA ClearedSame ==
  ASSUME NEW v, Cleared(v), Same(v), row[v] \in Rows,
         v \in waiting /\ v \notin waiting' /\ pc[v] = "rwait" =>
           SpuriousRecon \/ tilesDone'[NeededRow(row[v])] = NumTiles,
         tilesDone[NeededRow(row[v])] = NumTiles =>
           tilesDone'[NeededRow(row[v])] = NumTiles,
         \A t \in Tiles : /\ decoded[t] \in 0 .. NumRows
                          /\ decoded'[t] \in decoded[t] .. NumRows
  PROVE  Cleared(v)'
<1>1. NeededRow(row[v])' = NeededRow(row[v])
  BY DEF NeededRow, Same
<1>2. pc'[v] = "check" \/ (pc'[v] = "rwait" /\ v \notin waiting') =>
        SpuriousRecon \/ tilesDone'[NeededRow(row[v])] = NumTiles
  BY DEF Cleared, Same, Woken
<1>3. Filtering(v)' <=> Filtering(v)
  BY DEF Filtering, Same
<1>4. ASSUME Filtering(v)', ~SpuriousRecon, NEW t \in Tiles
      PROVE  decoded'[t] >= row'[v] + 2 \/ decoded'[t] = NumRows
  BY <1>3, <1>4 DEF Cleared, Same
<1> QED
  BY <1>1, <1>2, <1>4 DEF Cleared, Woken

\* The rows the others hold stay theirs.
LEMMA OwnRowSame ==
  ASSUME TypeOK, NEW v \in Workers, NEW w \in Workers, v # w, OwnRow(v),
         \A u \in Workers \ {w} : Same(u), SameDeal,
         lfRow' \in lfRow .. NumRows, lfCorrupted => lfCorrupted',
         InHand(w)' => IF InHand(w) THEN row'[w] = row[w] ELSE row'[w] = lfRow,
         \A r \in Rows : filtered'[r] = filtered[r] \/ (InHand(w) /\ r = row[w])
  PROVE  OwnRow(v)'
<1>1. /\ InHand(v)' <=> InHand(v)
      /\ Filtering(v)' <=> Filtering(v)
      /\ row'[v] = row[v] /\ col'[v] = col[v] /\ pc'[v] = pc[v]
  BY DEF Same, InHand, Filtering
<1>2. row[v] \in Rows /\ lfRow \in 0 .. NumRows
  BY DEF TypeOK
<1>3. ASSUME InHand(v)'
      PROVE  /\ row'[v] < lfRow'
             /\ filtered'[row'[v]] = IF Filtering(v)' THEN col'[v] ELSE 0
  <2>1. row[v] < lfRow /\ filtered[row[v]] = IF Filtering(v) THEN col[v] ELSE 0
    BY <1>1, <1>3 DEF OwnRow
  <2>2. ~(InHand(w) /\ row[v] = row[w])
    BY <1>1, <1>3 DEF OwnRow
  <2> QED
    BY <1>1, <1>2, <2>1, <2>2
<1>4. ASSUME InHand(v)', NEW u \in Workers, InHand(u)', row'[u] = row'[v]
      PROVE  u = v
  <2>1. row[v] < lfRow
    BY <1>1, <1>4 DEF OwnRow
  <2>2. CASE u = w
    <3>1. InHand(w) /\ row[w] = row[v]
      BY <1>1, <1>2, <1>4, <2>1, <2>2
    <3> QED
      BY <1>1, <1>4, <2>2, <3>1 DEF OwnRow
  <2>3. CASE u # w
    <3>1. InHand(u) /\ row[u] = row[v]
      BY <1>1, <1>4, <2>3 DEF Same, InHand, Filtering
    <3> QED
      BY <1>1, <1>4, <3>1 DEF OwnRow
  <2> QED
    BY <2>2, <2>3
<1>5. v \in Launched' /\ pc'[v] = "done" => lfRow' = NumRows \/ lfCorrupted'
  BY <1>1, <1>2 DEF OwnRow, Launched, SameDeal
<1> QED
  BY <1>3, <1>4, <1>5 DEF OwnRow

\* What is counted depends on the workers that still decode.
LEMMA CountedSame ==
  ASSUME NEW r, SameDeal,
         \A v \in Launched, t \in Tiles : Owes(v, t, r)' <=> Owes(v, t, r)
  PROVE  Counted(r)' = Counted(r)
BY DEF Counted, Launched, Own, SameDeal

-----------------------------------------------------------------------------
(* The main thread.                                                        *)

LEMMA InitInv == Init => IndInv
<1> SUFFICES ASSUME Init PROVE IndInv
  OBVIOUS
<1>1. TypeOK
  <2>b. FlagType
    BY DEF Init
  <2>1. MainType /\ SyncType
    BY DEF Init
  <2>2. PlaceType
    BY DEF Init, Labels
  <2>3. HistoryType
    BY DEF Init
  <2> QED
    BY <2>b, <2>1, <2>2, <2>3 DEF TypeOK
<1>2. Launched = {}
  BY DEF Init, Launched
<1>3. TilesDealt /\ Untouched
  BY <1>2, DealtFacts DEF Init, TilesDealt, Untouched
<1>4. Between /\ ~lfCorrupted
  BY DEF Init, Between
<1>5. \A w \in Workers : Place(w) /\ Cleared(w) /\ OwnRow(w)
  BY <1>2 DEF Init, Place, Cleared, OwnRow, Decoding, Filtering, InHand, Woken
<1>6. ASSUME NEW r \in Rows
      PROVE  RowState(r) /\ tilesDone[r] = Cardinality(Counted(r))
  <2>1. Counted(r) = {}
    BY <1>2 DEF Counted
  <2> QED
    BY <2>1, FS_EmptySet DEF Init, RowState
<1> QED
  BY <1>1, <1>2, <1>3, <1>4, <1>5, <1>6 DEF IndInv

LEMMA StartInv ==
  ASSUME IndInv, StartFrame
  PROVE  IndInv'
<1>0. /\ launched' = 0 /\ bufStart' = 0 /\ main' = "busy" /\ lfRow' = 0
      /\ lfCorrupted' = FALSE /\ pc' = pc /\ left' = left /\ waiting' = waiting
      /\ bad' = [w \in Workers |-> FALSE] /\ tilesDone' = [r \in Rows |-> 0]
      /\ filtered' = [r \in Rows |-> 0] /\ buf' = buf
  BY DEF StartFrame, placeVars
<1>a. \A w \in Workers : pc[w] = "done"
  BY DEF StartFrame, IndInv, Between
<1>b. \A w \in Workers : w \notin waiting /\ left[w] = -1
  BY <1>a DEF StartFrame, IndInv, Place, Between
<1>1. TypeOK'
  <2>1. TypeOK
    BY DEF IndInv
  <2>b. FlagType'
    <3>1. /\ reported' = reported /\ lfCorrupted' = FALSE
          /\ bad' = [w \in Workers |-> FALSE] /\ reported \in BOOLEAN
      BY <2>1 DEF StartFrame, TypeOK
    <3> QED
      BY <3>1
  <2>m. MainType'
    <3>1. buf' \in [Workers -> [start : Nat, end : Int]]
      BY <1>0, <2>1 DEF TypeOK
    <3>2. main' \in {"idle", "busy"} /\ launched' \in 0 .. NumWorkers /\ bufStart' \in Nat
      BY <1>0
    <3> QED
      BY <3>1, <3>2
  <2>2. SyncType'
    <3>1. curSbCol' = [r \in Rows |-> -1]
      BY DEF StartFrame
    <3> QED
      BY <1>0, <2>1, <3>1 DEF TypeOK
  <2>3. PlaceType'
    BY <2>1 DEF StartFrame, TypeOK, placeVars
  <2>4. HistoryType'
    BY <2>1 DEF StartFrame
  <2> QED
    BY <2>b, <2>m, <2>2, <2>3, <2>4 DEF TypeOK
<1>2. Launched' = {}
  BY <1>0 DEF Launched
<1>3. TilesDealt'
  <2>1. Dealt(0)' = 0
    BY DealtFacts DEF Dealt
  <2> QED
    BY <1>0, <1>2, <2>1, DealtFacts DEF TilesDealt
<1>4. Between' /\ ~lfCorrupted' /\ Untouched'
  BY <1>0 DEF Between, Untouched, StartFrame
<1>5. \A w \in Workers : Place(w)' /\ Cleared(w)' /\ OwnRow(w)'
  BY <1>0, <1>a, <1>b, <1>2 DEF Place, Cleared, OwnRow, Decoding, Filtering, InHand, Woken
<1>6. ASSUME NEW r \in Rows
      PROVE  RowState(r)' /\ tilesDone'[r] = Cardinality(Counted(r)')
  <2>1. Counted(r)' = {}
    BY <1>2 DEF Counted
  <2> QED
    BY <1>0, <2>1, FS_EmptySet DEF RowState
<1> QED
  BY <1>1, <1>2, <1>3, <1>4, <1>5, <1>6 DEF IndInv

LEMMA EndInv ==
  ASSUME IndInv, EndFrame
  PROVE  IndInv'
<1>0. /\ launched' = launched /\ launched = NumWorkers /\ main' = "idle" /\ pc' = pc
      /\ reported' = SomeHookFailed /\ bufStart' = bufStart /\ buf' = buf
      /\ UNCHANGED <<lfCorrupted, tilesDone, lfRow, waiting, bad, decoded, filtered>>
      /\ left' = [w \in Workers |-> -1]
  BY DEF EndFrame, syncVars
<1>a. \A w \in Workers : pc[w] = "done"
  BY DEF EndFrame
<1>b. \A w \in Workers : ~Decoding(w) /\ ~Decoding(w)' /\ ~InHand(w) /\ ~InHand(w)'
  BY <1>0, <1>a DEF Decoding, InHand, Filtering
<1>1. TypeOK'
  <2>1. TypeOK
    BY DEF IndInv
  <2>2. SomeHookFailed \in BOOLEAN
    BY DEF SomeHookFailed
  <2>b. FlagType'
    BY <2>1, <2>2 DEF EndFrame, TypeOK, syncVars
  <2>3. MainType' /\ SyncType'
    BY <2>1 DEF EndFrame, TypeOK, syncVars
  <2>4. PlaceType'
    BY <2>1 DEF EndFrame, TypeOK
  <2>5. HistoryType'
    BY <2>1 DEF EndFrame, TypeOK
  <2> QED
    BY <2>b, <2>3, <2>4, <2>5 DEF TypeOK
<1>2. Launched' = Launched /\ Launched = Workers
  BY <1>0 DEF Launched
<1>3. TilesDealt' /\ Untouched'
  <2>1. TilesDealt /\ Untouched
    BY DEF IndInv
  <2> QED
    BY <1>0, <1>2, <2>1 DEF TilesDealt, Untouched, Own, Dealt
<1>4. Between' /\ (lfCorrupted' => SomeHookFailed')
  BY <1>0, <1>a DEF Between, IndInv, SomeHookFailed
<1>5. \A w \in Workers : Place(w)' /\ Cleared(w)' /\ OwnRow(w)'
  BY <1>0, <1>a, <1>b, <1>2
  DEF IndInv, Place, Cleared, OwnRow, Woken, InHand, Filtering
<1>6. \A w \in Launched' : OwnDecoded(w)'
  BY <1>0, <1>b, <1>2 DEF IndInv, OwnDecoded, Own
<1>7. ASSUME NEW r \in Rows
      PROVE  RowState(r)' /\ tilesDone'[r] = Cardinality(Counted(r)')
  <2>1. Counted(r)' = Counted(r)
    BY <1>0, <1>b, <1>2 DEF Counted, Owes, Own
  <2> QED
    BY <1>0, <1>b, <2>1 DEF IndInv, RowState
<1> QED
  BY <1>1, <1>3, <1>4, <1>5, <1>6, <1>7 DEF IndInv

\* A worker that is launched has not begun with any of its tiles.
LEMMA LaunchInv ==
  ASSUME IndInv, LaunchWorker
  PROVE  IndInv'
<1>p. PICK w, end : w = launched /\ end = bufStart + Count(launched)
  OBVIOUS
<1>0. /\ main = "busy" /\ main' = main /\ launched' = w + 1 /\ bufStart' = end
      /\ buf' = [buf EXCEPT ![w] = [start |-> bufStart, end |-> end - 1]]
      /\ pc' = [pc EXCEPT ![w] = "decode"] /\ tile' = [tile EXCEPT ![w] = bufStart]
      /\ row' = [row EXCEPT ![w] = 0] /\ left' = [left EXCEPT ![w] = -1]
      /\ UNCHANGED <<lfCorrupted, tilesDone, lfRow, curSbCol, waiting, col, reported,
                     bad, decoded, filtered>>
  BY <1>p DEF LaunchWorker, syncVars
<1>t. TypeOK /\ TilesDealt /\ Untouched /\ launched < NumWorkers
  BY DEF IndInv, LaunchWorker
<1>a. /\ w \in Workers /\ w \notin Launched /\ Launched' = Launched \cup {w}
      /\ bufStart \in Nat /\ \A v \in Launched : v < w
  <2>1. launched \in 0 .. NumWorkers /\ bufStart \in Nat
    BY <1>t DEF TypeOK
  <2> QED
    BY <1>p, <1>0, <1>t, <2>1 DEF Launched
<1>b. /\ bufStart = Dealt(w) /\ Count(w) \in Nat \ {0} /\ end = Dealt(w + 1)
      /\ end \in 0 .. NumTiles /\ bufStart < end
  BY <1>p, <1>a, <1>t, DealtFacts DEF TilesDealt
<1>c. /\ buf'[w].start = bufStart /\ buf'[w].end = end - 1
      /\ \A v \in Workers \ {w} : buf'[v] = buf[v]
  BY <1>0, <1>a, <1>t DEF TypeOK
<1>d. \A v \in Workers \ {w} : Same(v)
  BY <1>0, <1>t DEF TypeOK, Same
<1>e. /\ pc[w] = "done" /\ ~bad[w] /\ pc'[w] = "decode" /\ tile'[w] = bufStart
      /\ row'[w] = 0 /\ left'[w] = -1 /\ ~bad'[w] /\ w \notin waiting'
  BY <1>0, <1>a, <1>t DEF TypeOK, IndInv, Place
<1>1. TypeOK'
  <2>1. MainType'
    <3>1. buf' \in [Workers -> [start : Nat, end : Int]]
      <4>1. buf \in [Workers -> [start : Nat, end : Int]]
        BY <1>t DEF TypeOK
      <4>2. [start |-> bufStart, end |-> end - 1] \in [start : Nat, end : Int]
        BY <1>a, <1>b
      <4> QED
        BY <1>0, <1>a, <4>1, <4>2
    <3>2. main' \in {"idle", "busy"} /\ launched' \in 0 .. NumWorkers /\ bufStart' \in Nat
      BY <1>0, <1>a, <1>b
    <3> QED
      BY <3>1, <3>2
  <2>2. SyncType' /\ HistoryType'
    BY <1>0, <1>t DEF TypeOK
  <2>3. PlaceType'
    <3>1. PlaceType
      BY <1>t DEF TypeOK
    <3>2. /\ pc' = [pc EXCEPT ![w] = "decode"] /\ tile' = [tile EXCEPT ![w] = bufStart]
          /\ row' = [row EXCEPT ![w] = 0] /\ left' = [left EXCEPT ![w] = -1]
          /\ col' = col
      BY <1>0
    <3>3. pc' \in [Workers -> Labels] /\ tile' \in [Workers -> Nat]
      BY <1>a, <3>1, <3>2 DEF Labels
    <3>4. row' \in [Workers -> Rows] /\ left' \in [Workers -> Int]
      BY <1>a, <3>1, <3>2, SMTT(30)
    <3> QED
      BY <3>1, <3>2, <3>3, <3>4
  <2>4. FlagType'
    BY <1>0, <1>t DEF TypeOK
  <2> QED
    BY <2>1, <2>2, <2>3, <2>4 DEF TypeOK
<1>2. TilesDealt'
  <2>1. bufStart' = Dealt(launched')
    BY <1>0, <1>b
  <2>2. ASSUME NEW v \in Launched'
        PROVE  buf'[v].start <= buf'[v].end /\ buf'[v].end < bufStart'
    <3>1. CASE v = w
      BY <1>0, <1>a, <1>b, <1>c, <3>1
    <3>2. CASE v # w
      BY <1>0, <1>a, <1>b, <1>c, <1>t, <3>2, OwnTiles DEF TilesDealt
    <3> QED
      BY <3>1, <3>2
  <2>3. ASSUME NEW u \in Launched', NEW v \in Launched', u < v
        PROVE  buf'[u].end < buf'[v].start
    <3>1. u \in Launched
      BY <1>a, <2>3 DEF Launched
    <3>2. u \in Workers \ {w}
      BY <1>a, <1>t, <3>1, OwnTiles
    <3>3. CASE v = w
      BY <1>b, <1>c, <1>t, <3>1, <3>2, <3>3 DEF TilesDealt
    <3>4. CASE v # w
      <4>1. v \in Launched /\ v \in Workers \ {w}
        BY <1>a, <1>t, <3>4, OwnTiles
      <4> QED
        BY <1>c, <1>t, <2>3, <3>1, <3>2, <4>1 DEF TilesDealt
    <3> QED
      BY <3>3, <3>4
  <2>4. ASSUME NEW t \in 0 .. bufStart' - 1
        PROVE  \E v \in Launched' : t \in Own(v)'
    <3>1. CASE t < bufStart
      <4>1. PICK v \in Launched : t \in Own(v)
        BY <1>t, <1>a, <3>1 DEF TilesDealt
      <4>2. v \in Workers \ {w} /\ v \in Launched'
        BY <1>a, <1>t, OwnTiles
      <4> QED
        BY <1>c, <4>1, <4>2 DEF Own
    <3>2. CASE t >= bufStart
      BY <1>0, <1>a, <1>b, <1>c, <3>2 DEF Own
    <3> QED
      BY <1>a, <3>1, <3>2
  <2> QED
    BY <2>1, <2>2, <2>3, <2>4 DEF TilesDealt, Dealt
<1>3. Untouched'
  BY <1>0, <1>a, <1>b, <1>t DEF Untouched
<1>4. Between'
  BY <1>0 DEF Between
<1>5. lfCorrupted' => SomeHookFailed'
  BY <1>0 DEF IndInv, SomeHookFailed
<1>6. ASSUME NEW v \in Workers PROVE Place(v)'
  <2>1. CASE v = w
    <3>1. At(v)' \in Own(v)'
      BY <1>a, <1>b, <1>c, <1>e, <2>1 DEF At, Own
    <3> QED
      BY <1>a, <1>e, <2>1, <3>1 DEF Place, InHand, Filtering
  <2>2. CASE v # w
    <3>1. Place(v) /\ Same(v) /\ buf'[v] = buf[v] /\ (v \in Launched' <=> v \in Launched)
      BY <1>a, <1>c, <1>d, <2>2 DEF IndInv
    <3> QED
      BY <1>0, <3>1 DEF Place, Same, Decoding, Filtering, InHand, At, Own
  <2> QED
    BY <2>1, <2>2
<1>7. ASSUME NEW v \in Workers PROVE Cleared(v)'
  <2>1. CASE v = w
    BY <1>e, <2>1 DEF Cleared, Filtering, Woken
  <2>2. CASE v # w
    <3>1. Cleared(v) /\ Same(v) /\ row[v] \in Rows
      BY <1>d, <1>t, <2>2 DEF IndInv, TypeOK
    <3> QED
      BY <1>0, <3>1 DEF Cleared, Same, Filtering, Woken, NeededRow
  <2> QED
    BY <2>1, <2>2
<1>8. ASSUME NEW v \in Workers PROVE OwnRow(v)'
  <2>1. ~InHand(w) /\ ~InHand(w)'
    BY <1>e DEF InHand, Filtering
  <2>2. CASE v = w
    BY <1>e, <2>1, <2>2 DEF OwnRow
  <2>3. CASE v # w
    <3>1. OwnRow(v) /\ (v \in Launched' <=> v \in Launched)
      BY <1>a, <2>3 DEF IndInv
    <3> QED
      BY <1>0, <1>d, <2>1, <2>3, <3>1 DEF OwnRow, Same, InHand, Filtering
  <2> QED
    BY <2>2, <2>3
<1>9. ASSUME NEW v \in Launched' PROVE OwnDecoded(v)'
  <2>1. CASE v = w
    <3>1. \A t \in Own(w)' : t \in Tiles /\ t >= bufStart
      BY <1>a, <1>b, <1>c DEF Own
    <3>2. \A t \in Own(w)' : decoded'[t] = 0
      BY <1>0, <1>t, <3>1 DEF Untouched
    <3> QED
      BY <1>a, <1>e, <2>1, <3>1, <3>2 DEF OwnDecoded, Decoding
  <2>2. CASE v # w
    <3>1. v \in Launched /\ v \in Workers \ {w}
      BY <1>a, <1>t, <2>2, OwnTiles
    <3>2. OwnDecoded(v) /\ Same(v) /\ Own(v)' = Own(v)
      BY <1>c, <1>d, <3>1 DEF IndInv, Own
    <3> QED
      BY <1>0, <3>2 DEF OwnDecoded, Same, Decoding
  <2> QED
    BY <2>1, <2>2
<1>10. ASSUME NEW r \in Rows
       PROVE  RowState(r)' /\ tilesDone'[r] = Cardinality(Counted(r)')
  <2>1. \A t \in Own(w)' : Owes(w, t, r)'
    BY <1>a, <1>b, <1>c, <1>e DEF Own, Owes, Decoding, At
  <2>2. ASSUME NEW v \in Launched
        PROVE  /\ Own(v)' = Own(v)
               /\ \A t \in Tiles : Owes(v, t, r)' <=> Owes(v, t, r)
    <3>1. v \in Workers \ {w}
      BY <1>a, <1>t, OwnTiles
    <3>2. Same(v) /\ buf'[v] = buf[v]
      BY <1>c, <1>d, <3>1
    <3> QED
      BY <3>2 DEF Own, Owes, Decoding, At, Same
  <2>3. Counted(r)' = Counted(r)
    BY <1>a, <2>1, <2>2 DEF Counted
  <2>4. ASSUME NEW v \in Workers, InHand(v) PROVE InHand(v)' /\ row'[v] = row[v]
    <3>1. v # w
      BY <1>e, <2>4 DEF InHand, Filtering
    <3> QED
      BY <1>d, <2>4, <3>1 DEF Same, InHand, Filtering
  <2> QED
    BY <1>0, <2>3, <2>4 DEF IndInv, RowState
<1> QED
  BY <1>1, <1>2, <1>3, <1>4, <1>5, <1>6, <1>7, <1>8, <1>9, <1>10 DEF IndInv

-----------------------------------------------------------------------------
(* A worker that filters.                                                  *)

\* Only the workers that were launched do anything, during a frame.
LEMMA Acting ==
  ASSUME IndInv, NEW w \in Workers, pc[w] # "done"
  PROVE  w \in Launched /\ main = "busy"
<1>1. main \in {"idle", "busy"}
  BY DEF IndInv, TypeOK
<1> QED
  BY <1>1 DEF IndInv, Place, Between

\* What a step of a filtering worker may do.
FilterStep(w) ==
  /\ SameDeal /\ UNCHANGED <<lfCorrupted, tilesDone, tile, left, bad, decoded>>
  /\ pc[w] = "next" \/ InHand(w)
  /\ pc'[w] \in {"next", "done"} \/ InHand(w)'
  /\ \A u \in Workers \ {w} :
       /\ Same(u)
       /\ u \in waiting' => u \in waiting
       /\ u \in waiting /\ pc[u] = "rwait" => u \in waiting'
  /\ w \in waiting' => pc'[w] \in {"rwait", "wait"}

\* ... and to the rows.
RowStep(w) ==
  /\ lfRow' \in lfRow .. NumRows
  /\ InHand(w)' => IF InHand(w) THEN row'[w] = row[w] ELSE row'[w] = lfRow
  /\ \A r \in Rows : filtered'[r] = filtered[r] \/ (InHand(w) /\ r = row[w])
  /\ \A r \in Rows : lfRow <= r /\ r < lfRow' => InHand(w)' /\ row'[w] = r
  /\ InHand(w) => \/ InHand(w)' /\ row'[w] = row[w]
                  \/ filtered'[row[w]] = NumCols
                  \/ lfCorrupted
  /\ InHand(w)' => /\ row'[w] < lfRow'
                   /\ filtered'[row'[w]] = IF Filtering(w)' THEN col'[w] ELSE 0
  /\ pc'[w] = "done" => lfRow' = NumRows \/ lfCorrupted

\* The tiles do not change while a row is filtered.
LEMMA FilterTiles ==
  ASSUME IndInv, NEW w \in Workers, FilterStep(w)
  PROVE  /\ TilesDealt' /\ Untouched' /\ Between'
         /\ lfCorrupted' => SomeHookFailed'
         /\ \A v \in Workers : Place(v)'
         /\ \A v \in Workers \ {w} : Cleared(v)'
         /\ \A v \in Launched' : OwnDecoded(v)'
         /\ \A r \in Rows : tilesDone'[r] = Cardinality(Counted(r)')
<1>t. TypeOK /\ TilesDealt /\ Untouched
  BY DEF IndInv
<1>0. /\ SameDeal /\ \A u \in Workers \ {w} : Same(u)
      /\ UNCHANGED <<lfCorrupted, tilesDone, tile, left, bad, decoded>>
      /\ ~Decoding(w) /\ ~Decoding(w)' /\ pc[w] # "done"
  BY DEF FilterStep, Decoding, InHand, Filtering
<1>a. w \in Launched /\ main = "busy" /\ ~bad[w]
  BY <1>0, Acting DEF FilterStep, IndInv, Place
<1>b. Launched' = Launched /\ \A v : Own(v)' = Own(v)
  BY <1>0 DEF SameDeal, Launched, Own
<1>1. TilesDealt' /\ Untouched'
  BY <1>0, <1>b, <1>t DEF TilesDealt, Untouched, SameDeal, Dealt
<1>2. Between'
  BY <1>0, <1>a DEF Between, SameDeal
<1>3. lfCorrupted' => SomeHookFailed'
  BY <1>0 DEF IndInv, SomeHookFailed
<1>4. ASSUME NEW v \in Workers PROVE Place(v)'
  <2>1. CASE v = w
    <3>1. left[w] >= -1 /\ ~(left[w] >= 0) /\ left' = left /\ bad' = bad
      BY <1>0, <1>a DEF IndInv, Place
    <3> QED
      BY <1>0, <1>a, <1>b, <2>1, <3>1 DEF Place, FilterStep, Decoding
  <2>2. CASE v # w
    BY <1>0, <2>2, PlaceSame DEF IndInv, FilterStep
  <2> QED
    BY <2>1, <2>2
<1>5. ASSUME NEW v \in Workers \ {w} PROVE Cleared(v)'
  <2>1. Cleared(v) /\ Same(v) /\ row[v] \in Rows
    BY <1>0, <1>t DEF IndInv, TypeOK
  <2>2. v \in waiting /\ pc[v] = "rwait" => v \in waiting'
    BY DEF FilterStep
  <2>3. \A t \in Tiles : decoded[t] \in 0 .. NumRows /\ decoded' = decoded
    BY <1>0, <1>t DEF TypeOK
  <2> QED
    BY <1>0, <2>1, <2>2, <2>3, ClearedSame
<1>6. ASSUME NEW v \in Launched' PROVE OwnDecoded(v)'
  <2>1. v \in Launched /\ v \in Workers /\ OwnDecoded(v)
    BY <1>b, <1>t, LaunchedIs DEF IndInv
  <2>2. CASE v = w
    BY <1>0, <1>b, <2>1, <2>2 DEF OwnDecoded
  <2>3. CASE v # w
    <3>1. Same(v)
      BY <1>0, <2>1, <2>3
    <3> QED
      BY <1>0, <1>b, <2>1, <3>1 DEF OwnDecoded, Same, Decoding
  <2> QED
    BY <2>2, <2>3
<1>7. ASSUME NEW r \in Rows PROVE tilesDone'[r] = Cardinality(Counted(r)')
  <2>1. ASSUME NEW v \in Launched, NEW t \in Tiles
        PROVE  Owes(v, t, r)' <=> Owes(v, t, r)
    <3>1. CASE v = w
      BY <1>0, <3>1 DEF Owes
    <3>2. CASE v # w
      <4>1. Same(v) /\ buf' = buf
        BY <1>0, <1>t, <3>2, LaunchedIs DEF SameDeal
      <4> QED
        BY <4>1 DEF Owes, Decoding, At, Same
    <3> QED
      BY <3>1, <3>2
  <2>2. Counted(r)' = Counted(r)
    BY <1>0, <2>1, CountedSame
  <2> QED
    BY <1>0, <2>2 DEF IndInv
<1> QED
  BY <1>1, <1>2, <1>3, <1>4, <1>5, <1>6, <1>7

\* Whatever a step of a filtering worker leaves to the others, and to the rows.
LEMMA FilterFrame ==
  ASSUME IndInv, NEW w \in Workers, FilterStep(w), RowStep(w), TypeOK', Cleared(w)'
  PROVE  IndInv'
<1>t. TypeOK
  BY DEF IndInv
<1>0. /\ SameDeal /\ lfCorrupted' = lfCorrupted
      /\ \A u \in Workers \ {w} : Same(u)
  BY DEF FilterStep
<1>1. ASSUME NEW v \in Workers, v # w PROVE OwnRow(v)'
  <2>1. OwnRow(v)
    BY DEF IndInv
  <2> QED
    BY <1>t, <1>0, <1>1, <2>1, OwnRowSame DEF RowStep
<1>2. OwnRow(w)'
  <2>1. ASSUME InHand(w)', NEW v \in Workers, InHand(v)', row'[v] = row'[w]
        PROVE  v = w
    BY <1>1, <2>1 DEF OwnRow
  <2> QED
    BY <1>0, <2>1 DEF OwnRow, RowStep
<1>3. ASSUME NEW r \in Rows PROVE RowState(r)'
  <2>a. /\ r \in Int /\ lfRow \in 0 .. NumRows /\ lfRow' \in lfRow .. NumRows
        /\ row[w] \in Rows /\ col[w] \in 0 .. NumCols - 1
    BY <1>t DEF TypeOK, RowStep
  <2>b. RowState(r) /\ OwnRow(w)
    BY DEF IndInv
  <2>1. CASE r >= lfRow'
    <3>1. filtered[r] = 0
      BY <2>a, <2>b, <2>1 DEF RowState
    <3>2. ~(InHand(w) /\ r = row[w])
      BY <2>a, <2>b, <2>1 DEF OwnRow
    <3> QED
      BY <2>1, <3>1, <3>2 DEF RowState, RowStep
  <2>2. CASE lfRow <= r /\ r < lfRow'
    BY <2>a, <2>2 DEF RowState, RowStep
  <2>3. CASE r < lfRow
    <3>1. CASE lfCorrupted
      BY <1>0, <2>a, <2>3, <3>1 DEF RowState
    <3>2. CASE InHand(w) /\ r = row[w]
      <4>1. InHand(w)' /\ row'[w] = row[w] => RowState(r)'
        BY <2>a, <2>3, <3>2 DEF RowState
      <4>2. filtered'[row[w]] = NumCols => RowState(r)'
        BY <2>a, <2>3, <3>2 DEF RowState
      <4>3. lfCorrupted => RowState(r)'
        BY <1>0, <2>a, <2>3 DEF RowState
      <4> QED
        BY <3>2, <4>1, <4>2, <4>3 DEF RowStep
    <3>3. CASE filtered[r] = NumCols /\ ~(InHand(w) /\ r = row[w])
      BY <2>a, <2>3, <3>3 DEF RowState, RowStep
    <3>4. ASSUME NEW u \in Workers \ {w}, InHand(u), row[u] = r PROVE RowState(r)'
      <4>1. Same(u)
        BY <1>0
      <4>2. InHand(u)' /\ row'[u] = r
        BY <3>4, <4>1 DEF Same, InHand, Filtering
      <4> QED
        BY <2>a, <2>3, <4>2 DEF RowState
    <3> QED
      BY <2>a, <2>b, <2>3, <3>1, <3>2, <3>3, <3>4 DEF RowState
  <2> QED
    BY <2>a, <2>1, <2>2, <2>3
<1>4. \A v \in Workers : Place(v)' /\ Cleared(v)' /\ OwnRow(v)'
  BY <1>1, <1>2, FilterTiles
<1> QED
  BY <1>3, <1>4, FilterTiles DEF IndInv

\* The others, when w goes on from one place to another.
LEMMA OthersSame ==
  ASSUME TypeOK, NEW w \in Workers, NEW p, NEW x, NEW y,
         pc' = [pc EXCEPT ![w] = p], row' = [row EXCEPT ![w] = x],
         col' = [col EXCEPT ![w] = y], UNCHANGED <<tile, left, bad>>
  PROVE  /\ \A u \in Workers \ {w} : Same(u)
         /\ pc'[w] = p /\ row'[w] = x /\ col'[w] = y
BY DEF TypeOK, Same

\* The types, when w goes on from one place to another.
LEMMA FilterTypes ==
  ASSUME TypeOK, NEW w \in Workers, NEW p \in Labels, NEW x \in Rows,
         NEW y \in 0 .. NumCols - 1,
         pc' = [pc EXCEPT ![w] = p], row' = [row EXCEPT ![w] = x],
         col' = [col EXCEPT ![w] = y], UNCHANGED <<tile, left, bad>>,
         SameDeal, UNCHANGED <<lfCorrupted, tilesDone, decoded>>,
         lfRow' \in 0 .. NumRows, curSbCol' \in [Rows -> Int],
         waiting' \in SUBSET Workers, filtered' \in [Rows -> 0 .. NumCols]
  PROVE  TypeOK'
<1>1. MainType'
  <2>1. MainType
    BY DEF TypeOK
  <2> QED
    BY <2>1 DEF SameDeal
<1>2. SyncType'
  <2>1. tilesDone' \in [Rows -> Nat]
    BY DEF TypeOK
  <2> QED
    BY <2>1
<1>3. PlaceType'
  <2>1. PlaceType
    BY DEF TypeOK
  <2>2. pc' \in [Workers -> Labels] /\ row' \in [Workers -> Rows]
    BY <2>1
  <2>3. col' \in [Workers -> 0 .. NumCols - 1]
    BY <2>1
  <2> QED
    BY <2>1, <2>2, <2>3
<1>4. HistoryType'
  BY DEF TypeOK
<1>5. FlagType'
  <2>1. FlagType
    BY DEF TypeOK
  <2> QED
    BY <2>1 DEF SameDeal
<1> QED
  BY <1>1, <1>2, <1>3, <1>4, <1>5 DEF TypeOK

\* get_next_row() gives every row to one worker.
LEMMA TakeInv ==
  ASSUME IndInv, NEW w \in Workers, TakeRow(w)
  PROVE  IndInv'
<1>t. /\ TypeOK /\ pc[w] = "next" /\ ~InHand(w) /\ lfRow \in 0 .. NumRows
      /\ row \in [Workers -> Rows] /\ col \in [Workers -> 0 .. NumCols - 1]
      /\ filtered \in [Rows -> 0 .. NumCols] /\ curSbCol \in [Rows -> Int]
      /\ waiting \in SUBSET Workers
  BY DEF IndInv, TypeOK, TakeRow, InHand, Filtering
<1>0. /\ UNCHANGED <<lfCorrupted, tilesDone, tile, left, bad, decoded, curSbCol,
                     waiting, filtered>>
      /\ SameDeal /\ col' = [col EXCEPT ![w] = col[w]]
  BY <1>t DEF TakeRow, SameDeal, mainVars
<1>w. w \notin waiting
  BY <1>t DEF IndInv, Place
<1>1. CASE lfRow < NumRows
  <2>0. /\ pc' = [pc EXCEPT ![w] = "recon"] /\ row' = [row EXCEPT ![w] = lfRow]
        /\ lfRow' = lfRow + 1
    BY <1>1 DEF TakeRow, GoTo
  <2>1. /\ \A u \in Workers \ {w} : Same(u)
        /\ pc'[w] = "recon" /\ row'[w] = lfRow
    BY <1>0, <1>t, <2>0, OthersSame
  <2>2. InHand(w)' /\ ~Filtering(w)' /\ Cleared(w)'
    BY <2>1 DEF InHand, Filtering, Cleared, Woken
  <2>3. TypeOK'
    <3>1. "recon" \in Labels /\ lfRow \in Rows /\ col[w] \in 0 .. NumCols - 1
      BY <1>1, <1>t DEF Labels
    <3>2. lfRow' \in 0 .. NumRows
      BY <1>1, <1>t, <2>0
    <3> QED
      BY <1>0, <1>t, <2>0, <3>1, <3>2, FilterTypes
  <2>4. FilterStep(w)
    BY <1>0, <1>t, <1>w, <2>1, <2>2 DEF FilterStep
  <2>5. filtered[lfRow] = 0
    BY <1>1, <1>t DEF IndInv, RowState
  <2>6. RowStep(w)
    <3>1. /\ lfRow' \in lfRow .. NumRows /\ row'[w] < lfRow'
          /\ \A r \in Rows : lfRow <= r /\ r < lfRow' => row'[w] = r
      BY <1>1, <1>t, <2>0, <2>1
    <3>2. filtered' = filtered /\ filtered[row'[w]] = 0
      BY <1>0, <2>1, <2>5
    <3> QED
      BY <1>t, <2>1, <2>2, <3>1, <3>2 DEF RowStep
  <2> QED
    BY <2>2, <2>3, <2>4, <2>6, FilterFrame
<1>2. CASE ~(lfRow < NumRows)
  <2>0. /\ pc' = [pc EXCEPT ![w] = "done"] /\ row' = [row EXCEPT ![w] = row[w]]
        /\ lfRow' = lfRow
    BY <1>2, <1>t DEF TakeRow, GoTo
  <2>1. \A u \in Workers \ {w} : Same(u) /\ pc'[w] = "done"
    BY <1>0, <1>t, <2>0, OthersSame
  <2>a. pc'[w] = "done"
    BY <1>t, <2>0 DEF TypeOK
  <2>2. ~InHand(w)' /\ Cleared(w)'
    BY <2>a DEF InHand, Filtering, Cleared, Woken
  <2>3. TypeOK'
    <3>1. "done" \in Labels /\ row[w] \in Rows /\ col[w] \in 0 .. NumCols - 1
      BY <1>t DEF Labels
    <3> QED
      BY <1>0, <1>t, <2>0, <3>1, FilterTypes
  <2>4. FilterStep(w)
    BY <1>0, <1>t, <1>w, <2>1, <2>a DEF FilterStep
  <2>6. RowStep(w)
    BY <1>0, <1>2, <1>t, <2>0, <2>2, SMTT(30) DEF RowStep
  <2> QED
    BY <2>2, <2>3, <2>4, <2>6, FilterFrame
<1> QED
  BY <1>1, <1>2

\* A signal to the workers that wait for row r wakes nobody who waits for tiles.
LEMMA SignalRow ==
  ASSUME TypeOK, NEW r, Signal(RowWaiters(r))
  PROVE  /\ waiting' \in SUBSET Workers /\ waiting' \subseteq waiting
         /\ \A u \in waiting : pc[u] = "rwait" => u \in waiting'
<1>1. waiting \in SUBSET Workers
  BY DEF TypeOK
<1>2. CASE RowWaiters(r) = {}
  BY <1>1, <1>2 DEF Signal
<1>3. CASE RowWaiters(r) # {}
  <2>1. PICK v \in RowWaiters(r) : waiting' = waiting \ {v}
    BY <1>3 DEF Signal
  <2>2. pc[v] = "wait"
    BY DEF RowWaiters
  <2> QED
    BY <1>1, <2>1, <2>2
<1> QED
  BY <1>2, <1>3

\* The row is in the hands of w, and stays there.
LEMMA KeepRow ==
  ASSUME IndInv, NEW w \in Workers, InHand(w), InHand(w)', row'[w] = row[w],
         Filtering(w)' => Filtering(w), col'[w] = col[w],
         Filtering(w) => Filtering(w)', UNCHANGED <<lfRow, filtered>>
  PROVE  RowStep(w)
<1>1. OwnRow(w) /\ lfRow \in 0 .. NumRows /\ row[w] \in Rows
  BY DEF IndInv, TypeOK
<1>2. pc'[w] # "done"
  BY DEF InHand, Filtering
<1>3. \A r \in Rows : ~(lfRow <= r /\ r < lfRow')
  BY <1>1
<1>4. row[w] < lfRow /\ filtered[row[w]] = IF Filtering(w) THEN col[w] ELSE 0
  BY <1>1 DEF OwnRow
<1> QED
  BY <1>1, <1>2, <1>3, <1>4 DEF RowStep

\* The wait for the tiles is left by a worker only when they are decoded.
LEMMA ReconInv ==
  ASSUME IndInv, NEW w \in Workers, ReconTest(w)
  PROVE  IndInv'
<1>t. /\ TypeOK /\ pc[w] = "recon" /\ InHand(w) /\ ~Filtering(w)
      /\ row \in [Workers -> Rows] /\ col \in [Workers -> 0 .. NumCols - 1]
      /\ waiting \in SUBSET Workers
  BY DEF IndInv, TypeOK, ReconTest, InHand, Filtering
<1>0. /\ UNCHANGED <<lfCorrupted, tilesDone, tile, left, bad, decoded, curSbCol,
                     lfRow, filtered>>
      /\ SameDeal /\ col' = [col EXCEPT ![w] = col[w]]
      /\ row' = [row EXCEPT ![w] = row[w]]
  BY <1>t DEF ReconTest, SameDeal, mainVars, placeVars
<1>w. w \notin waiting
  BY <1>t DEF IndInv, Place
<1>d. tilesDone[NeededRow(row[w])] \in 0 .. NumTiles
  <2>1. row[w] \in Rows
    BY <1>t
  <2>2. NeededRow(row[w]) \in Rows
    BY <2>1, NeededIs
  <2> QED
    BY <2>2, CountedIs DEF IndInv
<1>1. PICK p \in {"rwait", "check"} :
        /\ pc' = [pc EXCEPT ![w] = p]
        /\ p = "rwait" => waiting' = waiting \cup {w}
        /\ p = "check" => /\ waiting' = waiting
                          /\ ~(tilesDone[NeededRow(row[w])] < NumTiles)
  BY DEF ReconTest, GoTo
<1>2. /\ \A u \in Workers \ {w} : Same(u)
      /\ pc'[w] = p /\ row'[w] = row[w] /\ col'[w] = col[w]
  BY <1>0, <1>t, <1>1, OthersSame
<1>3. InHand(w)' /\ ~Filtering(w)'
  BY <1>2 DEF InHand, Filtering
<1>4. Cleared(w)'
  <2>1. tilesDone' = tilesDone /\ NeededRow(row[w])' = NeededRow(row[w])
    BY <1>0, <1>2 DEF NeededRow
  <2>2. p = "check" => tilesDone[NeededRow(row[w])] = NumTiles
    BY <1>1, <1>d
  <2>3. p = "rwait" => w \in waiting'
    BY <1>1
  <2> QED
    BY <1>2, <1>3, <2>1, <2>2, <2>3 DEF Cleared, Woken
<1>5. TypeOK'
  <2>1. /\ p \in Labels /\ row[w] \in Rows /\ col[w] \in 0 .. NumCols - 1
        /\ waiting' \in SUBSET Workers
    BY <1>t, <1>1 DEF Labels
  <2>2. /\ lfRow' \in 0 .. NumRows /\ curSbCol' \in [Rows -> Int]
        /\ filtered' \in [Rows -> 0 .. NumCols]
    BY <1>0, <1>t DEF TypeOK
  <2> QED
    BY <1>0, <1>t, <1>1, <2>1, <2>2, FilterTypes
<1>6. FilterStep(w)
  <2>1. \A u \in Workers \ {w} : u \in waiting' <=> u \in waiting
    BY <1>1
  <2>2. w \in waiting' => p = "rwait"
    BY <1>1, <1>w
  <2> QED
    BY <1>0, <1>t, <1>2, <1>3, <2>1, <2>2 DEF FilterStep
<1>7. RowStep(w)
  BY <1>0, <1>t, <1>2, <1>3, KeepRow
<1> QED
  BY <1>4, <1>5, <1>6, <1>7, FilterFrame

\* A row is filtered only when no tile was corrupt when it had been counted in
\* all of them.
LEMMA CheckInv ==
  ASSUME IndInv, NEW w \in Workers, CheckCorrupted(w)
  PROVE  IndInv'
<1>t. /\ TypeOK /\ InHand(w) /\ ~Filtering(w) /\ w \notin waiting
      /\ row \in [Workers -> Rows] /\ col \in [Workers -> 0 .. NumCols - 1]
      /\ waiting \in SUBSET Workers /\ lfRow \in 0 .. NumRows
      /\ filtered \in [Rows -> 0 .. NumCols] /\ curSbCol \in [Rows -> Int]
  <2>1. TypeOK /\ Place(w)
    BY DEF IndInv
  <2>2. InHand(w) /\ ~Filtering(w) /\ w \notin waiting
    BY <2>1 DEF CheckCorrupted, Woken, Place, InHand, Filtering
  <2> QED
    BY <2>1, <2>2 DEF TypeOK
<1>0. /\ UNCHANGED <<lfCorrupted, tilesDone, tile, left, bad, decoded, lfRow, filtered>>
      /\ SameDeal /\ col' = [col EXCEPT ![w] = 0]
      /\ row' = [row EXCEPT ![w] = row[w]]
  BY <1>t DEF CheckCorrupted, SameDeal, mainVars
<1>r. row[w] \in Rows /\ row[w] < lfRow /\ filtered[row[w]] = 0
  BY <1>t DEF IndInv, OwnRow
<1>1. CASE lfCorrupted
  <2>1. /\ pc' = [pc EXCEPT ![w] = "done"] /\ Signal(RowWaiters(row[w]))
        /\ curSbCol' = [curSbCol EXCEPT ![row[w]] = INT_MAX]
    BY <1>1 DEF CheckCorrupted, GiveUpRow, GoTo
  <2>2. /\ \A u \in Workers \ {w} : Same(u)
        /\ pc'[w] = "done" /\ row'[w] = row[w] /\ col'[w] = 0
    BY <1>0, <1>t, <2>1, OthersSame
  <2>3. /\ waiting' \in SUBSET Workers /\ waiting' \subseteq waiting
        /\ \A u \in waiting : pc[u] = "rwait" => u \in waiting'
    BY <1>t, <2>1, SignalRow
  <2>4. ~InHand(w)' /\ Cleared(w)'
    BY <2>2 DEF InHand, Filtering, Cleared, Woken
  <2>5. TypeOK'
    <3>1. "done" \in Labels /\ row[w] \in Rows /\ 0 \in 0 .. NumCols - 1
      BY <1>r DEF Labels
    <3>2. curSbCol' \in [Rows -> Int]
      BY <1>t, <1>r, <2>1 DEF INT_MAX
    <3> QED
      BY <1>0, <1>t, <2>1, <2>3, <3>1, <3>2, FilterTypes
  <2>6. FilterStep(w)
    BY <1>0, <1>t, <2>2, <2>3 DEF FilterStep
  <2>7. RowStep(w)
    <3>1. lfRow' \in lfRow .. NumRows /\ \A r \in Rows : ~(lfRow <= r /\ r < lfRow')
      BY <1>0, <1>t
    <3> QED
      BY <1>0, <1>1, <2>4, <3>1 DEF RowStep
  <2> QED
    BY <2>4, <2>5, <2>6, <2>7, FilterFrame
<1>2. CASE ~lfCorrupted
  <2>1. pc' = [pc EXCEPT ![w] = "read"] /\ curSbCol' = curSbCol /\ waiting' = waiting
    BY <1>2 DEF CheckCorrupted, GoTo
  <2>2. /\ \A u \in Workers \ {w} : Same(u)
        /\ pc'[w] = "read" /\ row'[w] = row[w] /\ col'[w] = 0
    BY <1>0, <1>t, <2>1, OthersSame
  <2>4. InHand(w)' /\ Filtering(w)'
    BY <2>2 DEF InHand, Filtering
  <2>3. Cleared(w)'
    <3>1. SpuriousRecon \/ tilesDone[NeededRow(row[w])] = NumTiles
      BY DEF IndInv, Cleared, CheckCorrupted
    <3>2. \/ SpuriousRecon
          \/ \A t \in Tiles : decoded[t] >= row[w] + 2 \/ decoded[t] = NumRows
      BY <1>r, <1>2, <3>1, CountedDecoded
    <3> QED
      BY <1>0, <2>2, <2>4, <3>2 DEF Cleared, Woken
  <2>5. TypeOK'
    <3>1. "read" \in Labels /\ row[w] \in Rows /\ 0 \in 0 .. NumCols - 1
      BY <1>r DEF Labels
    <3> QED
      BY <1>0, <1>t, <2>1, <3>1, FilterTypes
  <2>6. FilterStep(w)
    BY <1>0, <1>t, <2>1, <2>2, <2>4 DEF FilterStep
  <2>7. RowStep(w)
    <3>1. lfRow' \in lfRow .. NumRows /\ \A r \in Rows : ~(lfRow <= r /\ r < lfRow')
      BY <1>0, <1>t
    <3> QED
      BY <1>0, <1>r, <1>t, <2>2, <2>4, <3>1 DEF RowStep
  <2> QED
    BY <2>3, <2>5, <2>6, <2>7, FilterFrame
<1> QED
  BY <1>1, <1>2

\* A worker that goes on filtering its row stays cleared to.
LEMMA StaysCleared ==
  ASSUME NEW w, Cleared(w), Filtering(w), Filtering(w)', row'[w] = row[w],
         decoded' = decoded
  PROVE  Cleared(w)'
BY DEF Cleared, Filtering, Woken

LEMMA ReadInv ==
  ASSUME IndInv, NEW w \in Workers, SyncRead(w)
  PROVE  IndInv'
<1>t. /\ TypeOK /\ Filtering(w) /\ InHand(w) /\ w \notin waiting
      /\ row \in [Workers -> Rows] /\ col \in [Workers -> 0 .. NumCols - 1]
      /\ waiting \in SUBSET Workers
  <2>1. TypeOK /\ Place(w)
    BY DEF IndInv
  <2>2. Filtering(w) /\ InHand(w) /\ w \notin waiting
    BY <2>1 DEF SyncRead, Woken, Place, InHand, Filtering
  <2> QED
    BY <2>1, <2>2 DEF TypeOK
<1>0. /\ UNCHANGED <<lfCorrupted, tilesDone, tile, left, bad, decoded, curSbCol,
                     lfRow, filtered>>
      /\ SameDeal /\ col' = [col EXCEPT ![w] = col[w]]
      /\ row' = [row EXCEPT ![w] = row[w]]
  BY <1>t DEF SyncRead, SameDeal, mainVars, placeVars
<1>1. PICK p \in {"filter", "wait"} :
        /\ pc' = [pc EXCEPT ![w] = p]
        /\ p = "wait" => waiting' = waiting \cup {w}
        /\ p = "filter" => waiting' = waiting
  BY DEF SyncRead, GoTo
<1>2. /\ \A u \in Workers \ {w} : Same(u)
      /\ pc'[w] = p /\ row'[w] = row[w] /\ col'[w] = col[w]
  BY <1>0, <1>t, <1>1, OthersSame
<1>3. InHand(w)' /\ Filtering(w)'
  BY <1>2 DEF InHand, Filtering
<1>4. Cleared(w)'
  BY <1>0, <1>t, <1>2, <1>3, StaysCleared DEF IndInv
<1>5. TypeOK'
  <2>1. /\ p \in Labels /\ row[w] \in Rows /\ col[w] \in 0 .. NumCols - 1
        /\ waiting' \in SUBSET Workers
    BY <1>t, <1>1 DEF Labels
  <2>2. /\ lfRow' \in 0 .. NumRows /\ curSbCol' \in [Rows -> Int]
        /\ filtered' \in [Rows -> 0 .. NumCols]
    BY <1>0, <1>t DEF TypeOK
  <2> QED
    BY <1>0, <1>t, <1>1, <2>1, <2>2, FilterTypes
<1>6. FilterStep(w)
  <2>1. \A u \in Workers \ {w} : u \in waiting' <=> u \in waiting
    BY <1>1
  <2>2. w \in waiting' => p = "wait"
    BY <1>1, <1>t
  <2> QED
    BY <1>0, <1>t, <1>2, <1>3, <2>1, <2>2 DEF FilterStep
<1>7. RowStep(w)
  BY <1>0, <1>t, <1>2, <1>3, KeepRow
<1> QED
  BY <1>4, <1>5, <1>6, <1>7, FilterFrame

LEMMA SpuriousInv ==
  ASSUME IndInv, NEW w \in Workers, SpuriousWakeup(w)
  PROVE  IndInv'
<1>t. /\ TypeOK /\ InHand(w) /\ w \in waiting /\ pc[w] \in {"rwait", "wait"}
      /\ row \in [Workers -> Rows] /\ col \in [Workers -> 0 .. NumCols - 1]
      /\ waiting \in SUBSET Workers /\ pc \in [Workers -> Labels]
  <2>1. TypeOK /\ Place(w) /\ w \in waiting
    BY DEF IndInv, SpuriousWakeup
  <2>2. InHand(w) /\ pc[w] \in {"rwait", "wait"}
    BY <2>1 DEF Place, InHand, Filtering
  <2> QED
    BY <2>1, <2>2 DEF TypeOK
<1>0. /\ UNCHANGED <<lfCorrupted, tilesDone, tile, left, bad, decoded, curSbCol,
                     lfRow, filtered>>
      /\ SameDeal /\ col' = [col EXCEPT ![w] = col[w]]
      /\ row' = [row EXCEPT ![w] = row[w]] /\ pc' = [pc EXCEPT ![w] = pc[w]]
      /\ waiting' = waiting \ {w}
  BY <1>t DEF SpuriousWakeup, SameDeal, mainVars, placeVars
<1>2. /\ \A u \in Workers \ {w} : Same(u)
      /\ pc'[w] = pc[w] /\ row'[w] = row[w] /\ col'[w] = col[w]
  BY <1>0, <1>t, OthersSame
<1>3. InHand(w)' /\ (Filtering(w)' <=> Filtering(w))
  BY <1>2, <1>t DEF InHand, Filtering
<1>4. Cleared(w)'
  <2>1. CASE pc[w] = "wait"
    <3>1. Filtering(w)
      BY <2>1 DEF Filtering
    <3> QED
      BY <1>0, <1>2, <1>3, <3>1, StaysCleared DEF IndInv
  <2>2. CASE pc[w] = "rwait"
    <3>1. SpuriousRecon
      BY <2>2 DEF SpuriousWakeup
    <3> QED
      BY <3>1 DEF Cleared
  <2> QED
    BY <1>t, <2>1, <2>2
<1>5. TypeOK'
  <2>1. /\ pc[w] \in Labels /\ row[w] \in Rows /\ col[w] \in 0 .. NumCols - 1
        /\ waiting' \in SUBSET Workers
    BY <1>0, <1>t
  <2>2. /\ lfRow' \in 0 .. NumRows /\ curSbCol' \in [Rows -> Int]
        /\ filtered' \in [Rows -> 0 .. NumCols]
    BY <1>0, <1>t DEF TypeOK
  <2> QED
    BY <1>0, <1>t, <2>1, <2>2, FilterTypes
<1>6. FilterStep(w)
  BY <1>0, <1>t, <1>2, <1>3 DEF FilterStep
<1>7. RowStep(w)
  BY <1>0, <1>t, <1>2, <1>3, KeepRow
<1> QED
  BY <1>4, <1>5, <1>6, <1>7, FilterFrame

\* The superblocks of a row are filtered in turn by the worker that holds it.
LEMMA FilterInv ==
  ASSUME IndInv, NEW w \in Workers, FilterSb(w)
  PROVE  IndInv'
<1>t. /\ TypeOK /\ Filtering(w) /\ InHand(w) /\ w \notin waiting
      /\ row \in [Workers -> Rows] /\ col \in [Workers -> 0 .. NumCols - 1]
      /\ waiting \in SUBSET Workers /\ lfRow \in 0 .. NumRows
      /\ filtered \in [Rows -> 0 .. NumCols] /\ curSbCol \in [Rows -> Int]
  <2>1. TypeOK /\ Place(w) /\ pc[w] = "filter"
    BY DEF IndInv, FilterSb
  <2>2. Filtering(w) /\ InHand(w) /\ w \notin waiting
    BY <2>1 DEF Place, InHand, Filtering
  <2> QED
    BY <2>1, <2>2 DEF TypeOK
<1>r. /\ row[w] \in Rows /\ row[w] < lfRow /\ filtered[row[w]] = col[w]
      /\ col[w] \in 0 .. NumCols - 1
  BY <1>t DEF IndInv, OwnRow
<1>0. /\ UNCHANGED <<lfCorrupted, tilesDone, tile, left, bad, decoded, lfRow>>
      /\ SameDeal /\ row' = [row EXCEPT ![w] = row[w]]
      /\ filtered' = [filtered EXCEPT ![row[w]] = @ + 1]
  BY <1>t DEF FilterSb, SameDeal, mainVars
<1>a. /\ curSbCol' \in [Rows -> Int]
      /\ waiting' \in SUBSET Workers /\ waiting' \subseteq waiting
      /\ \A u \in waiting : pc[u] = "rwait" => u \in waiting'
  <2>1. NumCols + SyncRange \in Int /\ col[w] \in Int
    BY <1>r
  <2>2. CASE curSbCol' = curSbCol /\ waiting' = waiting
    BY <1>t, <2>2
  <2>3. CASE \E n \in Int : /\ curSbCol' = [curSbCol EXCEPT ![row[w]] = n]
                             /\ Signal(RowWaiters(row[w]))
    BY <1>t, <1>r, <2>3, SignalRow
  <2>4. (curSbCol' = curSbCol /\ waiting' = waiting)
          \/ \E n \in Int : /\ curSbCol' = [curSbCol EXCEPT ![row[w]] = n]
                            /\ Signal(RowWaiters(row[w]))
    BY <2>1 DEF FilterSb
  <2> QED
    BY <2>2, <2>3, <2>4
<1>f. /\ filtered'[row[w]] = col[w] + 1
      /\ \A r \in Rows : r # row[w] => filtered'[r] = filtered[r]
      /\ filtered' \in [Rows -> 0 .. NumCols]
  <2>1. /\ filtered' = [filtered EXCEPT ![row[w]] = filtered[row[w]] + 1]
        /\ filtered \in [Rows -> 0 .. NumCols]
    BY <1>0, <1>t
  <2>2. filtered[row[w]] + 1 \in 0 .. NumCols
    BY <1>r
  <2> QED
    BY <1>r, <2>1, <2>2
<1>g. lfRow' \in lfRow .. NumRows /\ \A r \in Rows : ~(lfRow <= r /\ r < lfRow')
  BY <1>0, <1>t
<1>1. CASE col[w] = NumCols - 1
  <2>1. pc' = [pc EXCEPT ![w] = "next"] /\ col' = [col EXCEPT ![w] = 0]
    BY <1>1 DEF FilterSb, GoTo
  <2>2. /\ \A u \in Workers \ {w} : Same(u)
        /\ pc'[w] = "next" /\ row'[w] = row[w] /\ col'[w] = 0
    BY <1>0, <1>t, <2>1, OthersSame
  <2>3. ~InHand(w)' /\ Cleared(w)'
    BY <2>2 DEF InHand, Filtering, Cleared, Woken
  <2>4. TypeOK'
    <3>1. "next" \in Labels /\ 0 \in 0 .. NumCols - 1
      BY DEF Labels
    <3> QED
      BY <1>0, <1>t, <1>r, <1>a, <1>f, <2>1, <3>1, FilterTypes
  <2>5. FilterStep(w)
    BY <1>0, <1>t, <1>a, <2>2 DEF FilterStep
  <2>6. RowStep(w)
    <3>1. filtered'[row[w]] = NumCols
      BY <1>1, <1>f
    <3> QED
      BY <1>f, <1>g, <1>t, <2>2, <2>3, <3>1 DEF RowStep
  <2> QED
    BY <2>3, <2>4, <2>5, <2>6, FilterFrame
<1>2. CASE col[w] # NumCols - 1
  <2>1. pc' = [pc EXCEPT ![w] = "read"] /\ col' = [col EXCEPT ![w] = col[w] + 1]
    BY <1>2 DEF FilterSb, GoTo
  <2>2. /\ \A u \in Workers \ {w} : Same(u)
        /\ pc'[w] = "read" /\ row'[w] = row[w] /\ col'[w] = col[w] + 1
    BY <1>0, <1>t, <2>1, OthersSame
  <2>3. InHand(w)' /\ Filtering(w)'
    BY <2>2 DEF InHand, Filtering
  <2>c. Cleared(w)'
    BY <1>0, <1>t, <2>2, <2>3, StaysCleared DEF IndInv
  <2>4. TypeOK'
    <3>1. "read" \in Labels /\ col[w] + 1 \in 0 .. NumCols - 1
      BY <1>r, <1>2 DEF Labels
    <3> QED
      BY <1>0, <1>t, <1>r, <1>a, <1>f, <2>1, <3>1, FilterTypes
  <2>5. FilterStep(w)
    BY <1>0, <1>t, <1>a, <2>2, <2>3 DEF FilterStep
  <2>6. RowStep(w)
    <3>1. row'[w] < lfRow' /\ filtered'[row'[w]] = col'[w]
      BY <1>0, <1>r, <1>f, <2>2
    <3> QED
      BY <1>f, <1>g, <1>t, <2>2, <2>3, <3>1 DEF RowStep
  <2> QED
    BY <2>c, <2>4, <2>5, <2>6, FilterFrame
<1> QED
  BY <1>1, <1>2

-----------------------------------------------------------------------------
(* A worker that decodes.                                                  *)

\* The worker of a tile.
LEMMA DecoderAt ==
  ASSUME IndInv, NEW w \in Workers, Decoding(w)
  PROVE  /\ TypeOK /\ TilesDealt /\ w \in Launched /\ main = "busy"
         /\ At(w) \in Own(w) /\ At(w) \in Tiles
         /\ buf[w].start \in Tiles /\ buf[w].end \in Tiles
         /\ row[w] \in Rows /\ tile[w] \in Nat /\ left[w] \in Int
         /\ w \notin waiting /\ ~InHand(w)
<1>1. TypeOK /\ TilesDealt /\ Place(w)
  BY DEF IndInv
<1>2. w \in Launched /\ main = "busy"
  BY Acting DEF Decoding
<1>3. w \notin waiting /\ ~InHand(w) /\ At(w) \in Own(w)
  BY <1>1 DEF Place, Decoding, InHand, Filtering
<1>4. buf[w].start \in Tiles /\ buf[w].end \in Tiles /\ Own(w) \subseteq Tiles
  BY <1>1, <1>2, OwnTiles
<1>5. row[w] \in Rows /\ tile[w] \in Nat /\ left[w] \in Int
  BY <1>1 DEF TypeOK
<1> QED
  BY <1>1, <1>2, <1>3, <1>4, <1>5

\* A row of a tile, with or without (b) an error, before it is counted.
DecodeStep(w, b, l) ==
  /\ pc[w] = "decode" /\ pc' = [pc EXCEPT ![w] = "count"]
  /\ bad[w] => b
  /\ bad' = [bad EXCEPT ![w] = b] /\ left' = [left EXCEPT ![w] = l]
  /\ lfCorrupted' <=> (lfCorrupted \/ b)
  /\ l = -1 \/ (b /\ l = buf[w].end - tile[w])
  /\ b => decoded' = decoded
  /\ ~b => decoded' = [decoded EXCEPT ![tile[w]] = row[w] + 1]
  /\ SameDeal /\ UNCHANGED <<tilesDone, lfRow, curSbCol, waiting, tile, row, col,
                             filtered>>

LEMMA DecodeTypes ==
  ASSUME IndInv, NEW w \in Workers, NEW b \in BOOLEAN, NEW l \in Int,
         DecodeStep(w, b, l), lfCorrupted' \in BOOLEAN
  PROVE  TypeOK'
<1>t. /\ TypeOK /\ row[w] \in Rows /\ w \in Launched
      /\ At(w) \in Tiles /\ left[w] = -1 /\ tile[w] \in Nat
  <2>1. Decoding(w)
    BY DEF DecodeStep, Decoding
  <2>2. left[w] = -1
    BY DEF DecodeStep, IndInv, Place
  <2> QED
    BY <2>1, <2>2, DecoderAt
<1>a. tile[w] \in Tiles
  BY <1>t DEF At
<1>1. MainType'
  <2>1. MainType
    BY <1>t DEF TypeOK
  <2> QED
    BY <2>1 DEF SameDeal, DecodeStep
<1>2. SyncType'
  <2>1. SyncType /\ UNCHANGED <<tilesDone, lfRow, curSbCol, waiting>>
    BY <1>t DEF TypeOK, DecodeStep
  <2> QED
    BY <2>1
<1>3. PlaceType'
  <2>1. PlaceType /\ UNCHANGED <<tile, row, col>>
    BY <1>t DEF TypeOK, DecodeStep
  <2>2. pc' \in [Workers -> Labels]
    BY <2>1 DEF DecodeStep, Labels
  <2>3. left' \in [Workers -> Int]
    BY <2>1 DEF DecodeStep
  <2> QED
    BY <2>1, <2>2, <2>3
<1>4. HistoryType'
  <2>1. HistoryType /\ filtered' = filtered
    BY <1>t DEF TypeOK, DecodeStep
  <2>2. row[w] + 1 \in 0 .. NumRows
    BY <1>t
  <2>3. decoded' \in [Tiles -> 0 .. NumRows]
    <3>1. CASE b
      BY <2>1, <3>1 DEF DecodeStep
    <3>2. CASE ~b
      <4>1. decoded' = [decoded EXCEPT ![tile[w]] = row[w] + 1]
        BY <3>2 DEF DecodeStep
      <4> QED
        BY <1>a, <2>1, <2>2, <4>1
    <3> QED
      BY <3>1, <3>2
  <2> QED
    BY <2>1, <2>3
<1>5. FlagType'
  <2>1. FlagType
    BY <1>t DEF TypeOK
  <2>2. bad' \in [Workers -> BOOLEAN]
    <3>1. bad \in [Workers -> BOOLEAN] /\ bad' = [bad EXCEPT ![w] = b]
      BY <2>1 DEF DecodeStep
    <3> QED
      BY <3>1
  <2>3. reported' \in BOOLEAN
    BY <2>1 DEF DecodeStep, SameDeal
  <2> QED
    BY <2>2, <2>3
<1> QED
  BY <1>1, <1>2, <1>3, <1>4, <1>5 DEF TypeOK

LEMMA DecodeFrame ==
  ASSUME IndInv, NEW w \in Workers, NEW b \in BOOLEAN, NEW l \in Int,
         DecodeStep(w, b, l), lfCorrupted' \in BOOLEAN
  PROVE  IndInv'
<1>t. /\ TypeOK /\ TilesDealt /\ Untouched /\ row[w] \in Rows /\ w \in Launched
      /\ main = "busy" /\ At(w) \in Own(w) /\ At(w) \in Tiles /\ buf[w].end \in Tiles
      /\ buf[w].start \in Tiles
      /\ left[w] = -1 /\ tile[w] \in Nat /\ w \notin waiting /\ ~InHand(w)
  <2>1. Decoding(w)
    BY DEF DecodeStep, Decoding
  <2>2. left[w] = -1 /\ Untouched
    BY DEF DecodeStep, IndInv, Place
  <2> QED
    BY <2>1, <2>2, DecoderAt
<1>0. /\ pc[w] = "decode" /\ pc'[w] = "count" /\ tile'[w] = tile[w]
      /\ row'[w] = row[w] /\ left'[w] = l /\ (bad'[w] <=> b)
      /\ \A u \in Workers \ {w} : Same(u)
      /\ SameDeal /\ UNCHANGED <<tilesDone, lfRow, waiting, filtered>>
      /\ lfCorrupted => lfCorrupted'
  <2>1. /\ pc' = [pc EXCEPT ![w] = "count"] /\ left' = [left EXCEPT ![w] = l]
        /\ bad' = [bad EXCEPT ![w] = b] /\ UNCHANGED <<tile, row, col>>
    BY DEF DecodeStep
  <2>2. pc \in [Workers -> Labels] /\ left \in [Workers -> Int]
    BY <1>t DEF TypeOK
  <2>3. bad \in [Workers -> BOOLEAN]
    BY <1>t DEF TypeOK
  <2>4. bad'[w] = b /\ \A u \in Workers \ {w} : bad'[u] = bad[u]
    BY <2>1, <2>3
  <2>5. pc'[w] = "count" /\ left'[w] = l
    BY <2>1, <2>2
  <2>6. \A u \in Workers \ {w} : pc'[u] = pc[u] /\ left'[u] = left[u]
    BY <2>1, <2>2
  <2> QED
    BY <2>1, <2>4, <2>5, <2>6 DEF DecodeStep, Same
<1>a. /\ tile[w] \in Own(w) /\ tile[w] \in Tiles /\ tile[w] <= buf[w].end
      /\ At(w)' = At(w) /\ At(w) = tile[w]
  <2>1. At(w) = tile[w]
    BY <1>t DEF At
  <2>2. tile[w] <= buf[w].end
    BY <1>t, <2>1 DEF Own
  <2>3. buf' = buf /\ (l = -1 \/ l = buf[w].end - tile[w])
    BY DEF DecodeStep, SameDeal
  <2>4. At(w)' = tile[w]
    BY <1>0, <1>t, <2>2, <2>3 DEF At
  <2> QED
    BY <1>t, <2>1, <2>2, <2>4
<1>b. Launched' = Launched /\ \A v : Own(v)' = Own(v)
  BY <1>0 DEF SameDeal, Launched, Own
<1>c. TypeOK'
  BY DecodeTypes
<1>d. /\ \A t \in Tiles : decoded[t] \in 0 .. NumRows /\ decoded'[t] \in 0 .. NumRows
      /\ \A t \in Tiles : t # tile[w] => decoded'[t] = decoded[t]
      /\ ~b => decoded'[tile[w]] = row[w] + 1
      /\ b => decoded' = decoded
  <2>1. decoded \in [Tiles -> 0 .. NumRows] /\ decoded' \in [Tiles -> 0 .. NumRows]
    BY <1>t, <1>c DEF TypeOK
  <2>2. b \/ decoded' = [decoded EXCEPT ![tile[w]] = row[w] + 1]
    BY DEF DecodeStep
  <2>3. b => decoded' = decoded
    BY DEF DecodeStep
  <2> QED
    BY <1>a, <2>1, <2>2, <2>3
<1>e. ~b => ~bad[w] /\ decoded[tile[w]] = row[w]
  <2> SUFFICES ASSUME ~b PROVE ~bad[w] /\ decoded[tile[w]] = row[w]
    OBVIOUS
  <2>1. ~bad[w]
    BY DEF DecodeStep
  <2>2. OwnDecoded(w)
    BY <1>t DEF IndInv
  <2> QED
    BY <1>0, <1>a, <1>t, <2>1, <2>2 DEF OwnDecoded, Decoding
<1>f. \A t \in Tiles : decoded'[t] \in decoded[t] .. NumRows
  <2> SUFFICES ASSUME NEW t \in Tiles PROVE decoded'[t] \in decoded[t] .. NumRows
    OBVIOUS
  <2>1. CASE t = tile[w] /\ ~b
    BY <1>d, <1>e, <1>t, <2>1
  <2>2. CASE t # tile[w] \/ b
    BY <1>d, <2>2
  <2> QED
    BY <2>1, <2>2
<1>1. TilesDealt'
  BY <1>0, <1>b, <1>t DEF TilesDealt, SameDeal, Dealt
<1>2. Untouched'
  <2>1. buf[w].end < bufStart /\ bufStart' = bufStart /\ bufStart \in Nat
    BY <1>0, <1>t DEF TilesDealt, SameDeal, TypeOK
  <2> QED
    BY <1>a, <1>d, <1>t, <2>1 DEF Untouched
<1>3. Between'
  BY <1>0, <1>t DEF Between, SameDeal
<1>4. lfCorrupted' => SomeHookFailed'
  <2>1. CASE b
    BY <1>0, <2>1 DEF SomeHookFailed
  <2>2. CASE lfCorrupted
    <3>1. PICK v \in Workers : bad[v]
      BY <2>2 DEF IndInv, SomeHookFailed
    <3>2. bad'[v]
      BY <1>0, <3>1 DEF Same, DecodeStep
    <3> QED
      BY <3>2 DEF SomeHookFailed
  <2> QED
    BY <2>1, <2>2 DEF DecodeStep
<1>5. ASSUME NEW v \in Workers PROVE Place(v)'
  <2>1. CASE v = w
    <3>1. At(w)' \in Own(w)'
      BY <1>a, <1>b
    <3>2. (l >= 0 => b) /\ (b => lfCorrupted') /\ w \notin waiting'
      BY <1>0, <1>t DEF DecodeStep
    <3>3. l >= -1
      BY <1>a, <1>t DEF DecodeStep
    <3> QED
      BY <1>0, <1>b, <1>t, <2>1, <3>1, <3>2, <3>3 DEF Place, InHand, Filtering
  <2>2. CASE v # w
    <3>1. Place(v) /\ Same(v)
      BY <1>0, <2>2 DEF IndInv
    <3> QED
      BY <1>0, <3>1, PlaceSame
  <2> QED
    BY <2>1, <2>2
<1>6. ASSUME NEW v \in Workers PROVE Cleared(v)'
  <2>1. CASE v = w
    BY <1>0, <2>1 DEF Cleared, Woken, Filtering
  <2>2. CASE v # w
    <3>1. Cleared(v) /\ Same(v) /\ row[v] \in Rows
      BY <1>0, <1>t, <2>2 DEF IndInv, TypeOK
    <3>2. waiting' = waiting /\ tilesDone' = tilesDone
      BY <1>0
    <3>3. \A t \in Tiles : /\ decoded[t] \in 0 .. NumRows
                           /\ decoded'[t] \in decoded[t] .. NumRows
      BY <1>d, <1>f
    <3> QED
      BY <3>1, <3>2, <3>3, ClearedSame
  <2> QED
    BY <2>1, <2>2
<1>h. ~InHand(w)'
  BY <1>0 DEF InHand, Filtering
<1>7. ASSUME NEW v \in Workers PROVE OwnRow(v)'
  <2>1. CASE v = w
    BY <1>0, <1>h, <2>1 DEF OwnRow
  <2>2. CASE v # w
    <3>1. OwnRow(v) /\ lfRow' \in lfRow .. NumRows
      BY <1>0, <1>t DEF IndInv, TypeOK
    <3> QED
      BY <1>0, <1>h, <1>t, <2>2, <3>1, OwnRowSame
  <2> QED
    BY <2>1, <2>2
<1>8. ASSUME NEW v \in Launched' PROVE OwnDecoded(v)'
  <2>a. v \in Launched /\ v \in Workers /\ OwnDecoded(v)
    BY <1>b, <1>t, LaunchedIs DEF IndInv
  <2>1. CASE v = w
    <3> SUFFICES ASSUME ~bad'[w], NEW t \in Own(w)
                 PROVE  decoded'[t] = IF t < tile[w] THEN NumRows
                                      ELSE IF t > tile[w] THEN 0 ELSE row[w] + 1
      BY <1>0, <1>b, <2>1 DEF OwnDecoded, Decoding
    <3>1. ~b /\ ~bad[w] /\ t \in Tiles
      BY <1>0, <1>e, <1>t, OwnTiles
    <3>2. CASE t = tile[w]
      BY <1>d, <1>t, <3>1, <3>2
    <3>3. CASE t # tile[w]
      <4>1. decoded[t] = IF t < tile[w] THEN NumRows ELSE 0
        BY <1>0, <1>t, <2>1, <2>a, <3>1, <3>3 DEF OwnDecoded, Decoding
      <4> QED
        BY <1>d, <1>t, <3>1, <3>3, <4>1
    <3> QED
      BY <3>2, <3>3
  <2>2. CASE v # w
    <3>1. Same(v)
      BY <1>0, <2>a, <2>2
    <3>2. \A t \in Own(v) : t \in Tiles /\ t # tile[w]
      BY <1>a, <1>t, <2>a, <2>2, OneOwner, OwnTiles
    <3>3. \A t \in Own(v) : decoded'[t] = decoded[t]
      BY <1>d, <3>2
    <3> QED
      BY <1>b, <2>a, <3>1, <3>3 DEF OwnDecoded, Same, Decoding
  <2> QED
    BY <2>1, <2>2
<1>9. ASSUME NEW r \in Rows
      PROVE  RowState(r)' /\ tilesDone'[r] = Cardinality(Counted(r)')
  <2>1. ASSUME NEW v \in Launched, NEW t \in Tiles
        PROVE  Owes(v, t, r)' <=> Owes(v, t, r)
    <3>1. CASE v = w
      BY <1>0, <1>a, <3>1 DEF Owes, Decoding
    <3>2. CASE v # w
      <4>1. Same(v) /\ buf' = buf
        BY <1>0, <1>t, <3>2, LaunchedIs DEF SameDeal
      <4> QED
        BY <4>1 DEF Owes, Decoding, At, Same
    <3> QED
      BY <3>1, <3>2
  <2>2. Counted(r)' = Counted(r)
    BY <1>0, <2>1, CountedSame
  <2>3. ASSUME NEW v \in Workers, InHand(v) PROVE InHand(v)' /\ row'[v] = row[v]
    BY <1>0, <1>t, <2>3 DEF Same, InHand, Filtering
  <2> QED
    BY <1>0, <2>2, <2>3 DEF IndInv, RowState
<1> QED
  BY <1>c, <1>1, <1>2, <1>3, <1>4, <1>5, <1>6, <1>7, <1>8, <1>9 DEF IndInv

LEMMA DecodeRowInv ==
  ASSUME IndInv, NEW w \in Workers, NEW c \in BOOLEAN, DecodeRow(w, c)
  PROVE  IndInv'
<1>p. PICK b \in BOOLEAN : b = (bad[w] \/ c)
  OBVIOUS
<1>t. TypeOK /\ left[w] = -1 /\ pc[w] = "decode" /\ Decoding(w)
  BY DEF IndInv, Place, DecodeRow, Decoding
<1>1. left' = [left EXCEPT ![w] = -1]
  <2>1. left \in [Workers -> Int] /\ left' = left
    BY <1>t DEF TypeOK, DecodeRow, placeVars
  <2> QED
    BY <1>t, <2>1
<1>2. ~b => decoded' = [decoded EXCEPT ![tile[w]] = row[w] + 1]
  <2> SUFFICES ASSUME ~b
               PROVE  decoded' = [decoded EXCEPT ![tile[w]] = row[w] + 1]
    OBVIOUS
  <2>1. decoded' = [decoded EXCEPT ![tile[w]] = decoded[tile[w]] + 1] /\ ~bad[w]
    BY <1>p DEF DecodeRow
  <2>2. OwnDecoded(w) /\ tile[w] \in Own(w) /\ tile[w] \in Nat
    BY <1>t, DecoderAt DEF IndInv, At
  <2>3. decoded[tile[w]] = row[w]
    BY <1>t, <2>1, <2>2 DEF OwnDecoded
  <2> QED
    BY <2>1, <2>3
<1>3. b => decoded' = decoded
  BY <1>p DEF DecodeRow
<1>4. /\ lfCorrupted' \in BOOLEAN /\ (lfCorrupted' <=> (lfCorrupted \/ b))
      /\ bad' = [bad EXCEPT ![w] = b] /\ (bad[w] => b)
  BY <1>p DEF DecodeRow
<1>5. /\ pc' = [pc EXCEPT ![w] = "count"] /\ SameDeal
      /\ UNCHANGED <<tilesDone, lfRow, curSbCol, waiting, tile, row, col, filtered>>
  BY DEF DecodeRow, GoTo, SameDeal, mainVars, placeVars
<1>6. DecodeStep(w, b, -1)
  BY <1>t, <1>1, <1>2, <1>3, <1>4, <1>5 DEF DecodeStep
<1> QED
  BY <1>4, <1>6, DecodeFrame

LEMMA DecodeErrorInv ==
  ASSUME IndInv, NEW w \in Workers, DecodeError(w)
  PROVE  IndInv'
<1>t. pc[w] = "decode" /\ Decoding(w)
  BY DEF DecodeError, Decoding
<1>1. buf[w].end - tile[w] \in Int
  BY <1>t, DecoderAt
<1>2. PICK l \in Int : l = buf[w].end - tile[w]
  BY <1>1
<1>3. /\ pc' = [pc EXCEPT ![w] = "count"] /\ SameDeal
      /\ UNCHANGED <<tilesDone, lfRow, curSbCol, waiting, tile, row, col, filtered>>
      /\ left' = [left EXCEPT ![w] = l] /\ decoded' = decoded
  BY <1>2 DEF DecodeError, GoTo, SameDeal, mainVars, TilesLeft
<1>4. lfCorrupted' = TRUE /\ bad' = [bad EXCEPT ![w] = TRUE]
  BY DEF DecodeError
<1>5. DecodeStep(w, TRUE, l)
  BY <1>t, <1>2, <1>3, <1>4 DEF DecodeStep
<1> QED
  BY <1>4, <1>5, DecodeFrame

-----------------------------------------------------------------------------
(* A worker that counts a row.                                             *)

\* Those who wait for the tiles of a row wake up when the last is counted.
LEMMA WakeReconIs ==
  ASSUME TypeOK, NEW r, WakeRecon(r)
  PROVE  /\ waiting' \in SUBSET Workers /\ waiting' \subseteq waiting
         /\ \A u \in waiting : pc[u] = "rwait" /\ NeededRow(row[u]) # r => u \in waiting'
<1>1. waiting \in SUBSET Workers
  BY DEF TypeOK
<1>2. CASE waiting' = waiting \ ReconWaiters(r)
  BY <1>1, <1>2 DEF ReconWaiters
<1>3. CASE waiting' = waiting
  BY <1>1, <1>3
<1>4. ASSUME NEW v \in ReconWaiters(r), waiting' = waiting \ {v}
      PROVE  /\ waiting' \in SUBSET Workers /\ waiting' \subseteq waiting
             /\ \A u \in waiting : pc[u] = "rwait" /\ NeededRow(row[u]) # r => u \in waiting'
  BY <1>1, <1>4 DEF ReconWaiters
<1> QED
  BY <1>2, <1>3, <1>4 DEF WakeRecon, Signal

\* Where a worker goes after it has counted a row of its tile.
CountStep(w, p, n, x, l) ==
  /\ pc' = [pc EXCEPT ![w] = p] /\ tile' = [tile EXCEPT ![w] = n]
  /\ row' = [row EXCEPT ![w] = x] /\ left' = [left EXCEPT ![w] = l]

\* The next row of the tile ...
Onward(w, p, n, x, l) ==
  /\ row[w] + 1 < NumRows /\ x = row[w] + 1 /\ n = tile[w] /\ l = left[w]
  /\ p = IF left[w] >= 0 THEN "count" ELSE "decode"

\* ... row 0 of the next tile ...
Another(w, p, n, x, l) ==
  /\ row[w] + 1 >= NumRows /\ At(w) < buf[w].end /\ x = 0
  /\ \/ left[w] >= 0 /\ l = left[w] - 1 /\ n = tile[w] /\ p = "count"
     \/ /\ left[w] < 0 /\ n = tile[w] + 1
        /\ \/ bad[w] /\ l = buf[w].end - n /\ p = "count"
           \/ ~bad[w] /\ l = left[w] /\ p = "decode"

\* ... or, after the last tile, the filter or the end.
Leave(w, p, n, x, l) ==
  /\ row[w] + 1 >= NumRows /\ At(w) >= buf[w].end
  /\ n = tile[w] /\ x = row[w] /\ l = -1
  /\ p = IF bad[w] THEN "done" ELSE "next"

LEMMA CountSteps ==
  ASSUME IndInv, NEW w \in Workers, SetRowCount(w)
  PROVE  \E p \in Labels, n \in Nat, x \in Rows, l \in Int :
           /\ CountStep(w, p, n, x, l)
           /\ Onward(w, p, n, x, l) \/ Another(w, p, n, x, l) \/ Leave(w, p, n, x, l)
<1>t. /\ TypeOK /\ Decoding(w) /\ pc[w] = "count"
      /\ tile \in [Workers -> Nat] /\ row \in [Workers -> Rows]
      /\ left \in [Workers -> Int]
  BY DEF IndInv, TypeOK, SetRowCount, Decoding
<1>a. /\ At(w) \in Own(w) /\ buf[w].end \in Tiles /\ buf[w].start \in Tiles
      /\ row[w] \in Rows /\ tile[w] \in Nat /\ left[w] \in Int
      /\ left[w] >= -1 /\ (left[w] >= 0 => bad[w])
  BY <1>t, DecoderAt DEF IndInv, Place
<1>b. /\ tile = [tile EXCEPT ![w] = tile[w]] /\ row = [row EXCEPT ![w] = row[w]]
      /\ left = [left EXCEPT ![w] = left[w]]
  BY <1>t
<1>c. {"decode", "count", "next", "done"} \subseteq Labels
  BY DEF Labels
<1>d. NextRow(w)
  BY DEF SetRowCount
<1>1. CASE row[w] + 1 < NumRows
  <2>1. PICK p \in Labels : p = IF left[w] >= 0 THEN "count" ELSE "decode"
    BY <1>c
  <2>2. pc' = [pc EXCEPT ![w] = p] /\ row' = [row EXCEPT ![w] = row[w] + 1]
        /\ tile' = tile /\ left' = left
    BY <1>1, <1>d, <2>1 DEF NextRow, GoTo
  <2>3. CountStep(w, p, tile[w], row[w] + 1, left[w])
    BY <1>b, <2>2 DEF CountStep
  <2>4. Onward(w, p, tile[w], row[w] + 1, left[w])
    BY <1>1, <2>1 DEF Onward
  <2>5. row[w] + 1 \in Rows
    BY <1>1, <1>a
  <2> QED
    BY <1>a, <2>1, <2>3, <2>4, <2>5
<1>2. CASE row[w] + 1 >= NumRows /\ left[w] >= 0
  <2>0. NextLeft(w) /\ At(w) = buf[w].end - left[w] /\ bad[w]
    BY <1>2, <1>a, <1>d DEF NextRow, At
  <2>1. CASE left[w] > 0
    <3>1. CountStep(w, "count", tile[w], 0, left[w] - 1)
      BY <1>b, <2>0, <2>1 DEF NextLeft, GoTo, CountStep
    <3>2. Another(w, "count", tile[w], 0, left[w] - 1)
      BY <1>2, <1>a, <2>0, <2>1 DEF Another
    <3>3. left[w] - 1 \in Int /\ 0 \in Rows
      BY <1>a
    <3> QED
      BY <1>a, <1>c, <3>1, <3>2, <3>3
  <2>2. CASE left[w] <= 0
    <3>1. CountStep(w, "done", tile[w], row[w], left[w] - 1)
      BY <1>a, <1>b, <2>0, <2>2 DEF NextLeft, GoTo, CountStep
    <3>2. Leave(w, "done", tile[w], row[w], left[w] - 1)
      BY <1>2, <1>a, <2>0, <2>2 DEF Leave
    <3>3. left[w] - 1 \in Int
      BY <1>a
    <3> QED
      BY <1>a, <1>c, <3>1, <3>2, <3>3
  <2> QED
    BY <1>a, <2>1, <2>2
<1>3. CASE row[w] + 1 >= NumRows /\ left[w] < 0
  <2>0. EndTile(w) /\ At(w) = tile[w]
    BY <1>3, <1>a, <1>d DEF NextRow, At
  <2>1. CASE tile[w] < buf[w].end /\ bad[w]
    <3>1. PICK l \in Int : l = buf[w].end - (tile[w] + 1)
      BY <1>a
    <3>2. CountStep(w, "count", tile[w] + 1, 0, l)
      BY <2>0, <2>1, <3>1 DEF EndTile, GoTo, CountStep, TilesLeft
    <3>3. Another(w, "count", tile[w] + 1, 0, l)
      BY <1>3, <1>a, <2>0, <2>1, <3>1 DEF Another
    <3>4. tile[w] + 1 \in Nat /\ 0 \in Rows
      BY <1>a
    <3> QED
      BY <1>c, <3>2, <3>3, <3>4
  <2>2. CASE tile[w] < buf[w].end /\ ~bad[w]
    <3>2. CountStep(w, "decode", tile[w] + 1, 0, left[w])
      BY <1>b, <2>0, <2>2 DEF EndTile, GoTo, CountStep
    <3>3. Another(w, "decode", tile[w] + 1, 0, left[w])
      BY <1>3, <1>a, <2>0, <2>2 DEF Another
    <3>4. tile[w] + 1 \in Nat /\ 0 \in Rows
      BY <1>a
    <3> QED
      BY <1>a, <1>c, <3>2, <3>3, <3>4
  <2>3. CASE ~(tile[w] < buf[w].end)
    <3>1. PICK p \in Labels : p = IF bad[w] THEN "done" ELSE "next"
      BY <1>c
    <3>2. CountStep(w, p, tile[w], row[w], left[w])
      BY <1>b, <2>0, <2>3, <3>1 DEF EndTile, GoTo, CountStep
    <3>3. Leave(w, p, tile[w], row[w], left[w])
      BY <1>3, <1>a, <2>0, <2>3, <3>1 DEF Leave
    <3> QED
      BY <1>a, <3>1, <3>2, <3>3
  <2> QED
    BY <2>1, <2>2, <2>3
<1> QED
  BY <1>a, <1>1, <1>2, <1>3

\* What w owes after it has counted a row is what it owed, but for that row.
LEMMA CountOwes ==
  ASSUME IndInv, NEW w \in Workers, pc[w] = "count", SameDeal,
         NEW p \in Labels, NEW n \in Nat, NEW x \in Rows, NEW l \in Int,
         pc'[w] = p, tile'[w] = n, row'[w] = x, left'[w] = l,
         Onward(w, p, n, x, l) \/ Another(w, p, n, x, l) \/ Leave(w, p, n, x, l)
  PROVE  /\ Decoding(w)' => At(w)' \in Own(w)
         /\ \A t \in Own(w), r \in Rows :
              Owes(w, t, r)' <=> Owes(w, t, r) /\ ~(t = At(w) /\ r = row[w])
<1>a. /\ At(w) \in Own(w) /\ buf[w].end \in Tiles /\ buf[w].start \in Tiles
      /\ row[w] \in Rows /\ tile[w] \in Nat /\ left[w] \in Int /\ Decoding(w)
      /\ left[w] >= -1 /\ (left[w] >= 0 => bad[w])
  BY DecoderAt DEF IndInv, Place, Decoding
<1>b. buf' = buf /\ Own(w) \subseteq Int
  BY <1>a DEF SameDeal, Own
<1>1. CASE Onward(w, p, n, x, l)
  <2>1. Decoding(w)' /\ At(w)' = At(w) /\ x = row[w] + 1
    BY <1>1, <1>b DEF Onward, Decoding, At
  <2> QED
    BY <1>a, <1>b, <2>1 DEF Owes
<1>2. CASE Another(w, p, n, x, l)
  <2>1. Decoding(w)' /\ x = 0 /\ row[w] = NumRows - 1 /\ At(w) < buf[w].end
    BY <1>2, <1>a DEF Another, Decoding
  <2>2. At(w)' = At(w) + 1
    BY <1>2, <1>a, <1>b DEF Another, At
  <2> QED
    BY <1>a, <1>b, <2>1, <2>2 DEF Owes, Own
<1>3. CASE Leave(w, p, n, x, l)
  <2>1. ~Decoding(w)' /\ row[w] = NumRows - 1 /\ At(w) = buf[w].end
    BY <1>3, <1>a DEF Leave, Decoding, Own
  <2> QED
    BY <1>a, <1>b, <2>1 DEF Owes, Own
<1> QED
  BY <1>1, <1>2, <1>3

\* ... so that the row is counted in one tile more.
LEMMA CountedMore ==
  ASSUME IndInv, NEW w \in Workers, Decoding(w), SameDeal,
         \A v \in Workers \ {w} : Same(v), NEW r \in Rows,
         \A t \in Own(w) :
           Owes(w, t, r)' <=> Owes(w, t, r) /\ ~(t = At(w) /\ r = row[w])
  PROVE  IF r = row[w]
           THEN Counted(r)' = Counted(r) \cup {At(w)} /\ At(w) \notin Counted(r)
           ELSE Counted(r)' = Counted(r)
<1>t. /\ TypeOK /\ TilesDealt /\ w \in Launched
      /\ At(w) \in Own(w) /\ At(w) \in Tiles /\ row[w] \in Rows
  BY DecoderAt
<1>b. Launched' = Launched /\ (\A v : Own(v)' = Own(v)) /\ buf' = buf
  BY DEF SameDeal, Launched, Own
<1>1. ASSUME NEW v \in Launched, v # w, NEW t \in Tiles
      PROVE  Owes(v, t, r)' <=> Owes(v, t, r)
  <2>1. Same(v)
    BY <1>t, <1>1, LaunchedIs
  <2> QED
    BY <1>b, <2>1 DEF Owes, Decoding, At, Same
<1>2. Owes(w, At(w), r) <=> r >= row[w]
  BY <1>t DEF Owes
<1>3. ASSUME NEW v \in Launched, At(w) \in Own(v) PROVE v = w
  BY <1>t, <1>3, OneOwner
<1>4. r = row[w] => At(w) \notin Counted(r)
  <2>1. row[w] >= row[w]
    BY <1>t
  <2> QED
    BY <1>2, <1>3, <2>1 DEF Counted
<1>5. ASSUME NEW t \in Tiles
      PROVE  t \in Counted(r)' <=> t \in Counted(r) \/ (t = At(w) /\ r = row[w])
  <2>1. t \in Counted(r)' <=> \E v \in Launched : t \in Own(v) /\ ~Owes(v, t, r)'
    BY <1>b DEF Counted
  <2>2. t \in Counted(r) <=> \E v \in Launched : t \in Own(v) /\ ~Owes(v, t, r)
    BY DEF Counted
  <2>3. CASE t \in Own(w)
    <3>1. \A v \in Launched : t \in Own(v) => v = w
      BY <1>t, <2>3, OneOwner
    <3>2. (t \in Counted(r)' <=> ~Owes(w, t, r)') /\ (t \in Counted(r) <=> ~Owes(w, t, r))
      BY <1>t, <2>1, <2>2, <2>3, <3>1
    <3> QED
      BY <2>3, <3>2
  <2>4. CASE t \notin Own(w)
    <3>1. t # At(w)
      BY <1>t, <2>4
    <3> QED
      BY <1>1, <2>1, <2>2, <2>4, <3>1
  <2> QED
    BY <2>3, <2>4
<1>6. Counted(r)' \subseteq Tiles /\ Counted(r) \subseteq Tiles
  BY DEF Counted
<1> QED
  BY <1>t, <1>4, <1>5, <1>6

LEMMA CountInv ==
  ASSUME IndInv, NEW w \in Workers, SetRowCount(w)
  PROVE  IndInv'
<1>p. PICK p \in Labels, n \in Nat, x \in Rows, l \in Int :
        /\ CountStep(w, p, n, x, l)
        /\ Onward(w, p, n, x, l) \/ Another(w, p, n, x, l) \/ Leave(w, p, n, x, l)
  BY CountSteps
<1>t. /\ TypeOK /\ TilesDealt /\ Untouched /\ pc[w] = "count" /\ Decoding(w)
      /\ w \in Launched /\ main = "busy" /\ At(w) \in Own(w) /\ At(w) \in Tiles
      /\ buf[w].start \in Tiles /\ buf[w].end \in Tiles
      /\ row[w] \in Rows /\ tile[w] \in Nat /\ left[w] \in Int
      /\ w \notin waiting /\ ~InHand(w)
      /\ left[w] >= -1 /\ (left[w] >= 0 => bad[w]) /\ (bad[w] => lfCorrupted)
  <2>1. pc[w] = "count" /\ Decoding(w)
    BY DEF SetRowCount, Decoding
  <2> QED
    BY <2>1, DecoderAt DEF IndInv, Place
<1>0. /\ SameDeal
      /\ UNCHANGED <<lfCorrupted, lfRow, curSbCol, col, bad, decoded, filtered>>
      /\ tilesDone' = [tilesDone EXCEPT ![row[w]] = @ + 1]
      /\ IF tilesDone[row[w]] + 1 = NumTiles THEN WakeRecon(row[w])
         ELSE waiting' = waiting
  BY DEF SetRowCount, SameDeal, mainVars
<1>a. /\ pc'[w] = p /\ tile'[w] = n /\ row'[w] = x /\ left'[w] = l
      /\ \A v \in Workers \ {w} : Same(v)
  BY <1>0, <1>p, <1>t DEF CountStep, TypeOK, Same
<1>b. Launched' = Launched /\ \A v : Own(v)' = Own(v)
  BY <1>0 DEF SameDeal, Launched, Own
<1>c. /\ Decoding(w)' => At(w)' \in Own(w)
      /\ \A t \in Own(w), r \in Rows :
           Owes(w, t, r)' <=> Owes(w, t, r) /\ ~(t = At(w) /\ r = row[w])
  BY <1>0, <1>a, <1>p, <1>t, CountOwes
<1>d. /\ p \in {"decode", "count", "next", "done"} /\ l >= -1 /\ (l >= 0 => bad[w])
      /\ p = "decode" => l = -1
      /\ p = "next" => ~bad[w]
      /\ p = "done" => lfCorrupted
  BY <1>p, <1>t DEF Onward, Another, Leave, At
<1>e. ~InHand(w)' /\ ~Filtering(w)'
  BY <1>a, <1>d DEF InHand, Filtering
<1>f. /\ waiting' \in SUBSET Workers /\ waiting' \subseteq waiting
      /\ \A u \in waiting : pc[u] = "rwait" /\ u \notin waiting' =>
           NeededRow(row[u]) = row[w] /\ tilesDone[row[w]] + 1 = NumTiles
  <2>1. waiting \in SUBSET Workers
    BY <1>t DEF TypeOK
  <2> QED
    BY <1>0, <1>t, <2>1, WakeReconIs
<1>g. \A r \in Rows : tilesDone[r] \in Nat /\ tilesDone'[r] = IF r = row[w] THEN tilesDone[r] + 1 ELSE tilesDone[r]
  <2>1. tilesDone \in [Rows -> Nat]
    BY <1>t DEF TypeOK
  <2> QED
    BY <1>0, <1>t, <2>1
<1>h. \A r \in Rows : tilesDone'[r] = Cardinality(Counted(r)') /\ tilesDone'[r] <= NumTiles
  <2> SUFFICES ASSUME NEW r \in Rows
               PROVE  /\ tilesDone'[r] = Cardinality(Counted(r)')
                      /\ tilesDone'[r] <= NumTiles
    OBVIOUS
  <2>1. tilesDone[r] = Cardinality(Counted(r)) /\ IsFiniteSet(Counted(r))
    BY CountedIs DEF IndInv
  <2>2. IF r = row[w]
          THEN Counted(r)' = Counted(r) \cup {At(w)} /\ At(w) \notin Counted(r)
          ELSE Counted(r)' = Counted(r)
    BY <1>0, <1>a, <1>c, <1>t, CountedMore
  <2>3. tilesDone'[r] = Cardinality(Counted(r)')
    BY <1>g, <2>1, <2>2, FS_AddElement
  <2>4. Counted(r)' \subseteq Tiles
    BY DEF Counted
  <2>5. Cardinality(Counted(r)') <= NumTiles
    <3>1. IsFiniteSet(Tiles) /\ Cardinality(Tiles) = NumTiles
      BY FS_Interval
    <3> QED
      BY <2>4, <3>1, FS_Subset
  <2> QED
    BY <2>3, <2>5
<1>1. TypeOK'
  <2>1. MainType'
    <3>1. MainType
      BY <1>t DEF TypeOK
    <3> QED
      BY <1>0, <3>1 DEF SameDeal
  <2>2. SyncType'
    <3>1. SyncType
      BY <1>t DEF TypeOK
    <3>2. tilesDone' \in [Rows -> Nat]
      <4>1. /\ tilesDone \in [Rows -> Nat] /\ row[w] \in Rows
            /\ tilesDone' = [tilesDone EXCEPT ![row[w]] = tilesDone[row[w]] + 1]
        BY <1>0, <1>t, <3>1
      <4>2. tilesDone[row[w]] + 1 \in Nat
        BY <4>1
      <4> QED
        BY <4>1, <4>2
    <3> QED
      BY <1>0, <1>f, <3>1, <3>2
  <2>3. PlaceType'
    <3>1. PlaceType
      BY <1>t DEF TypeOK
    <3>2. pc' \in [Workers -> Labels] /\ tile' \in [Workers -> Nat]
      BY <1>p, <3>1 DEF CountStep
    <3>3. row' \in [Workers -> Rows] /\ left' \in [Workers -> Int]
      BY <1>p, <3>1 DEF CountStep
    <3>4. col' \in [Workers -> 0 .. NumCols - 1]
      BY <1>0, <3>1
    <3> QED
      BY <3>2, <3>3, <3>4
  <2>4. HistoryType' /\ FlagType'
    <3>1. HistoryType /\ FlagType
      BY <1>t DEF TypeOK
    <3> QED
      BY <1>0, <3>1 DEF SameDeal
  <2> QED
    BY <2>1, <2>2, <2>3, <2>4 DEF TypeOK
<1>2. TilesDealt' /\ Untouched' /\ Between'
  BY <1>0, <1>b, <1>t DEF TilesDealt, Untouched, Between, SameDeal, Dealt
<1>3. lfCorrupted' => SomeHookFailed'
  BY <1>0 DEF IndInv, SomeHookFailed
<1>4. ASSUME NEW v \in Workers PROVE Place(v)'
  <2>1. CASE v = w
    <3>1. w \notin waiting' /\ bad' = bad /\ lfCorrupted' = lfCorrupted
      BY <1>0, <1>f, <1>t
    <3> QED
      BY <1>a, <1>b, <1>c, <1>d, <1>e, <1>t, <2>1, <3>1 DEF Place
  <2>2. CASE v # w
    <3>1. Place(v) /\ Same(v)
      BY <1>a, <2>2 DEF IndInv
    <3> QED
      BY <1>0, <1>f, <3>1, PlaceSame
  <2> QED
    BY <2>1, <2>2
<1>5. ASSUME NEW v \in Workers PROVE Cleared(v)'
  <2>1. CASE v = w
    BY <1>a, <1>d, <1>e, <2>1 DEF Cleared, Woken
  <2>2. CASE v # w
    <3>1. Cleared(v) /\ Same(v) /\ row[v] \in Rows
      BY <1>a, <1>t, <2>2 DEF IndInv, TypeOK
    <3>2. PICK k \in Rows : k = NeededRow(row[v])
      BY <3>1, NeededIs
    <3>3. v \in waiting /\ v \notin waiting' /\ pc[v] = "rwait" => tilesDone'[k] = NumTiles
      BY <1>f, <1>g, <1>t, <3>2
    <3>4. tilesDone[k] = NumTiles => tilesDone'[k] = NumTiles
      BY <1>g, <1>h
    <3>5. \A t \in Tiles : decoded[t] \in 0 .. NumRows /\ decoded'[t] = decoded[t]
      BY <1>0, <1>t DEF TypeOK
    <3> QED
      BY <3>1, <3>2, <3>3, <3>4, <3>5, ClearedSame
  <2> QED
    BY <2>1, <2>2
<1>6. ASSUME NEW v \in Workers PROVE OwnRow(v)'
  <2>1. CASE v = w
    BY <1>0, <1>a, <1>d, <1>e, <2>1 DEF OwnRow
  <2>2. CASE v # w
    <3>1. OwnRow(v) /\ lfRow' \in lfRow .. NumRows
      BY <1>0, <1>t DEF IndInv, TypeOK
    <3> QED
      BY <1>0, <1>a, <1>e, <1>t, <2>2, <3>1, OwnRowSame
  <2> QED
    BY <2>1, <2>2
<1>7. ASSUME NEW v \in Launched' PROVE OwnDecoded(v)'
  <2>a. v \in Launched /\ v \in Workers /\ OwnDecoded(v)
    BY <1>b, <1>t, LaunchedIs DEF IndInv
  <2>1. CASE v = w
    <3> SUFFICES ASSUME ~bad[w], NEW t \in Own(w)
                 PROVE  decoded[t] = IF ~Decoding(w)' \/ t < n THEN NumRows
                                     ELSE IF t > n THEN 0
                                     ELSE IF p = "count" THEN x + 1 ELSE x
      BY <1>0, <1>a, <1>b, <2>1 DEF OwnDecoded
    <3>1. t \in Int /\ left[w] < 0 /\ At(w) = tile[w] /\ t <= buf[w].end
      BY <1>t DEF At, Own
    <3>2. decoded[t] = IF t < tile[w] THEN NumRows ELSE IF t > tile[w] THEN 0
                       ELSE row[w] + 1
      BY <1>t, <2>a, <2>1 DEF OwnDecoded
    <3>3. CASE Onward(w, p, n, x, l)
      <4>1. p = "decode" /\ n = tile[w] /\ x = row[w] + 1 /\ Decoding(w)'
        BY <1>a, <3>1, <3>3 DEF Onward, Decoding
      <4> QED
        BY <3>2, <4>1
    <3>4. CASE Another(w, p, n, x, l)
      <4>1. /\ p = "decode" /\ n = tile[w] + 1 /\ x = 0 /\ row[w] + 1 = NumRows
            /\ Decoding(w)'
        BY <1>a, <1>t, <3>1, <3>4 DEF Another, Decoding
      <4> QED
        BY <1>t, <3>1, <3>2, <4>1
    <3>5. CASE Leave(w, p, n, x, l)
      <4>1. ~Decoding(w)' /\ row[w] + 1 = NumRows /\ t <= tile[w]
        BY <1>a, <1>t, <3>1, <3>5 DEF Leave, Decoding
      <4> QED
        BY <1>t, <3>1, <3>2, <4>1
    <3> QED
      BY <1>p, <3>3, <3>4, <3>5
  <2>2. CASE v # w
    <3>1. Same(v)
      BY <1>a, <2>a, <2>2
    <3> QED
      BY <1>0, <1>b, <2>a, <3>1 DEF OwnDecoded, Same, Decoding
  <2> QED
    BY <2>1, <2>2
<1>8. ASSUME NEW r \in Rows PROVE RowState(r)'
  <2>1. ASSUME NEW v \in Workers, InHand(v) PROVE InHand(v)' /\ row'[v] = row[v]
    BY <1>a, <1>t, <2>1 DEF Same, InHand, Filtering
  <2> QED
    BY <1>0, <2>1 DEF IndInv, RowState
<1> QED
  BY <1>h, <1>1, <1>2, <1>3, <1>4, <1>5, <1>6, <1>7, <1>8 DEF IndInv

-----------------------------------------------------------------------------
(* The theorems.                                                           *)

LEMMA NextInv == IndInv /\ [Next]_vars => IndInv'
<1> SUFFICES ASSUME IndInv, [Next]_vars PROVE IndInv'
  OBVIOUS
<1>1. CASE UNCHANGED vars
  <2>0. /\ UNCHANGED <<main, launched, bufStart, buf, reported>>
        /\ UNCHANGED <<lfCorrupted, tilesDone, lfRow, curSbCol, waiting>>
        /\ UNCHANGED <<tile, row, col, left, pc, bad, decoded, filtered>>
    BY <1>1 DEF vars, syncVars, placeVars, mainVars
  <2>1. TypeOK' <=> TypeOK
    BY <2>0 DEF TypeOK
  <2>2. \A w : /\ (Decoding(w)' <=> Decoding(w)) /\ (Filtering(w)' <=> Filtering(w))
              /\ (InHand(w)' <=> InHand(w)) /\ At(w)' = At(w) /\ Own(w)' = Own(w)
    BY <2>0 DEF Decoding, Filtering, InHand, At, Own
  <2>3. Launched' = Launched /\ (SomeHookFailed' <=> SomeHookFailed)
    BY <2>0 DEF Launched, SomeHookFailed
  <2>4. TilesDealt' /\ Untouched' /\ Between'
    BY <2>0, <2>2, <2>3 DEF IndInv, TilesDealt, Untouched, Between, Dealt
  <2>5. \A w \in Workers : Place(w)' /\ Cleared(w)' /\ OwnRow(w)'
    BY <2>0, <2>2, <2>3 DEF IndInv, Place, Cleared, OwnRow, Woken, NeededRow
  <2>6. \A w \in Launched' : OwnDecoded(w)'
    BY <2>0, <2>2, <2>3 DEF IndInv, OwnDecoded
  <2>7. \A r \in Rows : RowState(r)' /\ Counted(r)' = Counted(r)
    BY <2>0, <2>2, <2>3 DEF IndInv, RowState, Counted, Owes
  <2> QED
    BY <2>0, <2>1, <2>3, <2>4, <2>5, <2>6, <2>7 DEF IndInv
<1>2. ASSUME NEW w \in Workers, WorkerStep(w) PROVE IndInv'
  BY <1>2, DecodeRowInv, DecodeErrorInv, CountInv, TakeInv, ReconInv, CheckInv,
     ReadInv, FilterInv DEF WorkerStep, Decode
<1> QED
  BY <1>1, <1>2, StartInv, LaunchInv, EndInv, SpuriousInv DEF Next

\* The inductive invariant of decode_tiles_mt(): how the tiles are dealt out,
\* decoded and counted, and who holds which row, whatever tile is corrupt.
THEOREM Invariance == Spec => []IndInv
<1> QED
  BY InitInv, NextInv, PTL DEF Spec

\* vp9_loopfilter_rows() filters no superblock before every tile has decoded its
\* row and the one below, for any number of tiles, workers, rows and columns,
\* provided that the one wait of the filter for a decoded row returns only when
\* it was signalled: the code tests the count once.
THEOREM FilterOrder ==
  ASSUME ~SpuriousRecon
  PROVE  Spec => []FilterAfterDecode
<1>1. IndInv => FilterAfterDecode
  <2> SUFFICES ASSUME IndInv, NEW w \in Workers, pc[w] = "filter", NEW t \in Tiles
               PROVE  decoded[t] >= row[w] + 2 \/ decoded[t] = NumRows
    BY DEF FilterAfterDecode
  <2>1. Cleared(w) /\ Filtering(w)
    BY DEF IndInv, Filtering
  <2> QED
    BY <2>1 DEF Cleared
<1> QED
  BY Invariance, <1>1, PTL

\* A frame that decode_tiles_mt() does not report as corrupt is decoded and
\* filtered everywhere and every superblock once, whoever decoded and filtered
\* it and even when a wait returns unasked.
THEOREM CleanComplete == Spec => []CleanIsComplete
<1>1. IndInv => CleanIsComplete
  <2> SUFFICES ASSUME IndInv, main = "idle", ~reported
               PROVE  /\ \A t \in Tiles : decoded[t] = NumRows
                      /\ \A r \in Rows : filtered[r] = NumCols
    BY DEF CleanIsComplete
  <2>1. /\ launched = NumWorkers /\ ~SomeHookFailed /\ ~lfCorrupted
        /\ \A w \in Workers : pc[w] = "done"
    BY DEF IndInv, Between
  <2>2. /\ Launched = Workers /\ TypeOK /\ TilesDealt
        /\ \A w \in Workers : ~bad[w] /\ ~InHand(w) /\ ~Decoding(w)
    BY <2>1 DEF IndInv, Launched, SomeHookFailed, InHand, Filtering, Decoding
  <2>3. ASSUME NEW t \in Tiles PROVE decoded[t] = NumRows
    <3>1. bufStart = NumTiles
      BY <2>1, <2>2, DealtFacts DEF TilesDealt
    <3>2. PICK w \in Launched : t \in Own(w)
      BY <2>2, <3>1 DEF TilesDealt
    <3>3. OwnDecoded(w) /\ w \in Workers
      BY <2>2 DEF IndInv
    <3> QED
      BY <2>2, <3>2, <3>3 DEF OwnDecoded
  <2>4. ASSUME NEW r \in Rows PROVE filtered[r] = NumCols
    <3>1. 0 \in Workers /\ 0 \in Launched
      BY <2>2
    <3>2. lfRow = NumRows
      BY <2>1, <3>1 DEF IndInv, OwnRow
    <3> QED
      BY <2>1, <2>2, <3>2 DEF IndInv, RowState
  <2> QED
    BY <2>3, <2>4
<1> QED
  BY Invariance, <1>1, PTL
=============================================================================
