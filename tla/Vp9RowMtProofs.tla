--------------------------- MODULE Vp9RowMtProofs ---------------------------
(***************************************************************************)
(* The safety of row-based multithreaded decoding, for any number of       *)
(* tiles, rows, columns and workers.                                       *)
(***************************************************************************)
EXTENDS Vp9RowMt, FiniteSetTheorems, WellFoundedInduction, TLAPS

USE RowMtAssumption

-----------------------------------------------------------------------------
(* Numbers, tiles and columns.                                             *)

\* A set of natural numbers that is not empty has a least element.
LEMMA LeastNumber ==
  ASSUME NEW T \in SUBSET Nat, T # {}
  PROVE  \E n \in T : \A m \in T : n <= m
<1>1. IsWellFoundedOn(OpToRel(<, Nat), Nat)
  BY NatLessThanWellFounded
<1>2. PICK n \in T : \A m \in T : ~(<<m, n>> \in OpToRel(<, Nat))
  BY <1>1, WFMin
<1>3. \A m \in T : ~(m < n)
  BY <1>2 DEF OpToRel
<1> QED
  BY <1>3

\* A tile ends where the next one begins, or earlier than any later one does.
LEMMA TileOrder ==
  ASSUME NEW t \in Int, NEW u \in Int, t < u
  PROVE  /\ t * TileCols \in Int /\ u * TileCols \in Int
         /\ (t + 1) * TileCols = t * TileCols + TileCols
         /\ t * TileCols + TileCols <= u * TileCols
<1>1. PICK d \in Nat : u = t + 1 + d
  <2> WITNESS u - t - 1 \in Nat
  <2> QED OBVIOUS
<1>2. d * TileCols \in Nat
  OBVIOUS
<1>3. u * TileCols = t * TileCols + TileCols + d * TileCols
  BY <1>1
<1> QED
  BY <1>2, <1>3

\* What is in a tile is in the frame.
LEMMA TileInside ==
  ASSUME NEW t \in Tiles
  PROVE  /\ TileSbs(t) \subseteq Cols
         /\ t * TileCols \in TileSbs(t)
         /\ (t + 1) * TileCols - 1 \in TileSbs(t)
         /\ t * TileCols \in Nat /\ (t + 1) * TileCols = t * TileCols + TileCols
         /\ NumCols \in Nat \ {0}
<1>1. t \in Nat /\ t < NumTiles /\ NumTiles \in Nat
  BY DEF Tiles
<1>2. t * TileCols \in Nat
  BY <1>1
<1>3. /\ (t + 1) * TileCols = t * TileCols + TileCols
      /\ t * TileCols + TileCols <= NumTiles * TileCols
  BY <1>1, TileOrder
<1> QED
  BY <1>1, <1>2, <1>3 DEF TileSbs, Cols, NumCols

\* A column is in one tile.
LEMMA TilesApart ==
  ASSUME NEW t \in Tiles, NEW u \in Tiles, NEW c \in TileSbs(t), c \in TileSbs(u)
  PROVE  t = u
<1> SUFFICES ASSUME NEW x \in Tiles, NEW y \in Tiles, x < y,
                    c \in TileSbs(x), c \in TileSbs(y)
             PROVE  FALSE
  BY DEF Tiles
<1>1. (x + 1) * TileCols <= y * TileCols
  BY TileOrder DEF Tiles
<1>2. x * TileCols \in Int /\ (x + 1) * TileCols \in Int /\ y * TileCols \in Int
  BY TileOrder DEF Tiles
<1> QED
  BY <1>1, <1>2 DEF TileSbs

\* Every column is in a tile.
LEMMA TilesCover ==
  ASSUME NEW c \in Cols
  PROVE  \E t \in Tiles : c \in TileSbs(t)
<1>1. NumTiles * TileCols \in Nat /\ c \in Nat /\ c < NumTiles * TileCols
  BY DEF Cols, NumCols
<1> DEFINE T == {n \in Nat : c < n * TileCols}
<1>2. T \in SUBSET Nat /\ T # {}
  <2>1. NumTiles \in T
    BY <1>1
  <2> QED
    BY <2>1
<1>3. PICK n \in T : \A m \in T : n <= m
  BY <1>2, LeastNumber
<1>4. n \in Nat /\ c < n * TileCols /\ n <= NumTiles
  BY <1>1, <1>3
<1>5. n # 0
  <2>1. 0 * TileCols = 0
    OBVIOUS
  <2> QED
    BY <1>1, <1>4, <2>1
<1>6. n - 1 \in Nat /\ n - 1 \notin T
  BY <1>3, <1>4, <1>5
<1>7. ~(c < (n - 1) * TileCols)
  BY <1>6
<1>8. (n - 1) * TileCols \in Int /\ n * TileCols \in Int
  BY <1>4
<1>9. n - 1 \in Tiles
  BY <1>4, <1>5 DEF Tiles
<1>10. ((n - 1) + 1) * TileCols = n * TileCols
  BY <1>4
<1> QED
  BY <1>1, <1>4, <1>7, <1>8, <1>9, <1>10 DEF TileSbs

-----------------------------------------------------------------------------
(* The jobs and their queue.                                               *)

\* A job is known by its kind, row and tile.
LEMMA JobFacts ==
  ASSUME NEW r \in Rows, NEW t \in Tiles
  PROVE  /\ ParseJob(r, t) \in AllJobs /\ ParseJob(r, t).type = "parse"
         /\ ParseJob(r, t).row = r /\ ParseJob(r, t).tile = t
         /\ ReconJob(r, t) \in AllJobs /\ ReconJob(r, t).type = "recon"
         /\ ReconJob(r, t).row = r /\ ReconJob(r, t).tile = t
         /\ LpfJob(r) \in AllJobs /\ LpfJob(r).type = "lpf"
         /\ LpfJob(r).row = r
BY DEF ParseJob, ReconJob, LpfJob, AllJobs, Tiles

LEMMA JobKinds ==
  ASSUME NEW j \in AllJobs
  PROVE  /\ j.row \in Rows /\ j.tile \in Tiles /\ j.type \in {"parse", "recon", "lpf"}
         /\ j.type = "parse" => j = ParseJob(j.row, j.tile)
         /\ j.type = "recon" => j = ReconJob(j.row, j.tile)
         /\ j.type = "lpf" => j = LpfJob(j.row)
BY DEF ParseJob, ReconJob, LpfJob, AllJobs

LEMMA QueuedJobs ==
  ASSUME QueueType
  PROVE  Queued \subseteq AllJobs /\ Taken \subseteq Queued
BY DEF QueueType, Queued, Taken

\* Putting a job into the queue, ...
LEMMA QueueAdd ==
  ASSUME QueueType, NEW j \in AllJobs, jobs' = Append(jobs, j), rd' = rd
  PROVE  Queued' = Queued \cup {j} /\ Taken' = Taken
<1>1. /\ jobs \in Seq(AllJobs) /\ rd \in 0 .. Len(jobs)
      /\ Len(jobs') = Len(jobs) + 1 /\ jobs'[Len(jobs) + 1] = j
      /\ \A i \in 1 .. Len(jobs) : jobs'[i] = jobs[i]
  BY DEF QueueType
<1>2. Queued' = Queued \cup {j}
  BY <1>1 DEF Queued
<1>3. Taken' = Taken
  BY <1>1 DEF Taken
<1> QED
  BY <1>2, <1>3

\* ... and taking the next one.
LEMMA QueueTake ==
  ASSUME QueueType, OneEach, rd < Len(jobs), jobs' = jobs, rd' = rd + 1
  PROVE  /\ Queued' = Queued /\ Taken' = Taken \cup {jobs[rd + 1]}
         /\ jobs[rd + 1] \in Queued /\ jobs[rd + 1] \notin Taken
<1>1. jobs \in Seq(AllJobs) /\ rd \in 0 .. Len(jobs)
  BY DEF QueueType
<1>2. jobs[rd + 1] \notin Taken
  BY <1>1 DEF Taken, OneEach
<1> QED
  BY <1>1, <1>2 DEF Queued, Taken

LEMMA Interval ==
  ASSUME NEW a \in Int, NEW n \in Nat
  PROVE  IsFiniteSet(a .. a + n - 1) /\ Cardinality(a .. a + n - 1) = n
<1> DEFINE b == a + n - 1
<1>1. b \in Int
  OBVIOUS
<1> HIDE DEF b
<1>2. IsFiniteSet(a .. b) /\ Cardinality(a .. b) = IF a > b THEN 0 ELSE b - a + 1
  BY <1>1, FS_Interval
<1> QED
  BY <1>2 DEF b

\* There are as many jobs as the queue can hold.
LEMMA JobsFinite ==
  IsFiniteSet(AllJobs) /\ Cardinality(AllJobs) <= Capacity
<1> DEFINE F == {ParseJob(p[1], p[2]) : p \in Rows \X Tiles}
           G == {ReconJob(p[1], p[2]) : p \in Rows \X Tiles}
           H == {LpfJob(r) : r \in Rows}
<1>1. /\ IsFiniteSet(Rows) /\ Cardinality(Rows) = NumRows
      /\ IsFiniteSet(Tiles) /\ Cardinality(Tiles) = NumTiles
  <2>1. IsFiniteSet(0 .. 0 + NumRows - 1) /\ Cardinality(0 .. 0 + NumRows - 1) = NumRows
    BY Interval
  <2>2. IsFiniteSet(0 .. 0 + NumTiles - 1) /\ Cardinality(0 .. 0 + NumTiles - 1) = NumTiles
    BY Interval
  <2>3. Rows = 0 .. 0 + NumRows - 1 /\ Tiles = 0 .. 0 + NumTiles - 1
    BY DEF Rows, Tiles
  <2> QED
    BY <2>1, <2>2, <2>3
<1>2. /\ IsFiniteSet(Rows \X Tiles)
      /\ Cardinality(Rows \X Tiles) = NumRows * NumTiles
  BY <1>1, FS_Product
<1>3. IsFiniteSet(F) /\ Cardinality(F) <= NumRows * NumTiles
  <2> DEFINE f == [p \in Rows \X Tiles |-> ParseJob(p[1], p[2])]
  <2>1. f \in Surjection(Rows \X Tiles, F)
    BY DEF Surjection
  <2> HIDE DEF f, F
  <2> QED
    BY <1>2, <2>1, FS_Surjection
<1>4. IsFiniteSet(G) /\ Cardinality(G) <= NumRows * NumTiles
  <2> DEFINE f == [p \in Rows \X Tiles |-> ReconJob(p[1], p[2])]
  <2>1. f \in Surjection(Rows \X Tiles, G)
    BY DEF Surjection
  <2> HIDE DEF f, G
  <2> QED
    BY <1>2, <2>1, FS_Surjection
<1>5. IsFiniteSet(H) /\ Cardinality(H) <= NumRows
  <2> DEFINE f == [r \in Rows |-> LpfJob(r)]
  <2>1. f \in Surjection(Rows, H)
    BY DEF Surjection
  <2> HIDE DEF f, H
  <2> QED
    BY <1>1, <2>1, FS_Surjection
<1>6. AllJobs \subseteq (F \cup G) \cup H
  <2> SUFFICES ASSUME NEW j \in AllJobs PROVE j \in (F \cup G) \cup H
    OBVIOUS
  <2>1. j.row \in Rows /\ j.tile \in Tiles /\ <<j.row, j.tile>> \in Rows \X Tiles
    BY JobKinds
  <2> QED
    BY <2>1, JobKinds
<1> HIDE DEF F, G, H
<1>7. IsFiniteSet(F \cup G) /\ Cardinality(F \cup G) <= 2 * (NumRows * NumTiles)
  <2>1. IsFiniteSet(F \cup G)
        /\ Cardinality(F \cup G) = Cardinality(F) + Cardinality(G) - Cardinality(F \cap G)
    BY <1>3, <1>4, FS_Union
  <2>2. IsFiniteSet(F \cap G)
    BY <1>3, FS_Intersection
  <2>3. /\ Cardinality(F) \in Nat /\ Cardinality(G) \in Nat
        /\ Cardinality(F \cap G) \in Nat /\ NumRows * NumTiles \in Int
    BY <1>3, <1>4, <2>2, FS_CardinalityType
  <2> QED
    BY <1>3, <1>4, <2>1, <2>3
<1>8. /\ IsFiniteSet((F \cup G) \cup H)
      /\ Cardinality((F \cup G) \cup H) <= 2 * (NumRows * NumTiles) + NumRows
  <2>1. IsFiniteSet((F \cup G) \cup H)
        /\ Cardinality((F \cup G) \cup H) = Cardinality(F \cup G) + Cardinality(H)
                                            - Cardinality((F \cup G) \cap H)
    BY <1>5, <1>7, FS_Union
  <2>2. IsFiniteSet((F \cup G) \cap H)
    BY <1>5, FS_Intersection
  <2>3. /\ Cardinality(F \cup G) \in Nat /\ Cardinality(H) \in Nat
        /\ Cardinality((F \cup G) \cap H) \in Nat /\ NumRows * NumTiles \in Int
    BY <1>5, <1>7, <2>2, FS_CardinalityType
  <2> QED
    BY <1>5, <1>7, <2>1, <2>3
<1>9. IsFiniteSet(AllJobs) /\ Cardinality(AllJobs) <= Cardinality((F \cup G) \cup H)
  BY <1>6, <1>8, FS_Subset
<1>10. Capacity = 2 * (NumRows * NumTiles) + NumRows /\ NumRows * NumTiles \in Int
  BY DEF Capacity
<1>11. Cardinality(AllJobs) \in Nat /\ Cardinality((F \cup G) \cup H) \in Nat
  BY <1>8, <1>9, FS_CardinalityType
<1> QED
  BY <1>8, <1>9, <1>10, <1>11

\* No job is queued twice, so the queue has room for every job that is not in it
\* yet: the assert of vp9_jobq_queue() holds.
LEMMA Room ==
  ASSUME QueueType, OneEach
  PROVE  /\ Len(jobs) <= Capacity
         /\ \A j \in AllJobs \ Queued : Len(jobs) < Capacity
<1>1. jobs \in Seq(AllJobs) /\ Len(jobs) \in Nat
  BY DEF QueueType
<1>2. /\ IsFiniteSet(1 .. Len(jobs)) /\ Cardinality(1 .. Len(jobs)) = Len(jobs)
  <2>1. 1 .. Len(jobs) = 1 .. 1 + Len(jobs) - 1
    BY <1>1
  <2> QED
    BY <1>1, <2>1, Interval
<1>3. IsFiniteSet(Queued) /\ Cardinality(Queued) = Len(jobs)
  <2> DEFINE f == [i \in 1 .. Len(jobs) |-> jobs[i]]
  <2>1. f \in Bijection(1 .. Len(jobs), Queued)
    BY <1>1 DEF OneEach, Queued, Bijection, Injection, Surjection, IsInjective
  <2> HIDE DEF f
  <2> QED
    BY <1>2, <2>1, FS_Bijection DEF ExistsBijection
<1>4. Queued \subseteq AllJobs
  BY QueuedJobs
<1>5. Cardinality(Queued) <= Cardinality(AllJobs)
  BY <1>4, JobsFinite, FS_Subset
<1>6. Cardinality(AllJobs) \in Nat /\ Capacity \in Nat
  BY JobsFinite, FS_CardinalityType DEF Capacity
<1>7. ASSUME NEW j \in AllJobs \ Queued PROVE Len(jobs) < Capacity
  <2>1. Queued # AllJobs
    BY <1>7
  <2>2. Cardinality(Queued) # Cardinality(AllJobs)
    BY <1>4, <2>1, JobsFinite, FS_Subset
  <2> QED
    BY <1>1, <1>3, <1>5, <1>6, <2>2, JobsFinite
<1> QED
  BY <1>1, <1>3, <1>5, <1>6, <1>7, JobsFinite

-----------------------------------------------------------------------------
(* What a step of worker w leaves alone.                                   *)

Others(w) == \A v \in Workers \ {w} :
               pc'[v] = pc[v] /\ job'[v] = job[v] /\ col'[v] = col[v]

\* The same workers have job j, and ...
Alike(j) == /\ j \in Taken' <=> j \in Taken
            /\ \A v \in Workers : On(v, j)' <=> On(v, j)

\* ... are at the same place in it.
Same(j) == Alike(j) /\ \A v \in Workers :
                         On(v, j) => pc'[v] = pc[v] /\ col'[v] = col[v]

LEMMA Untouched ==
  ASSUME NEW w \in Workers, Others(w), NEW j,
         j \in Taken' <=> j \in Taken, ~On(w, j), ~On(w, j)'
  PROVE  Same(j)
BY DEF Others, Same, Alike, On

LEMMA AlikeLeft ==
  ASSUME NEW j, Alike(j)
  PROVE  Left(j)' <=> Left(j)
BY DEF Alike, Left

LEMMA SameAlike ==
  ASSUME NEW j, Same(j)
  PROVE  Alike(j)
BY DEF Same

LEMMA ParsedSame ==
  ASSUME Parsed,
         \A r \in Rows, t \in Tiles :
           /\ Same(ParseJob(r, t))
           /\ ParseJob(r, t) \in Queued' <=> ParseJob(r, t) \in Queued
           /\ ReconJob(r, t) \in Queued' <=> ReconJob(r, t) \in Queued,
         \A v \in Workers : corrupted[v] => corrupted'[v]
  PROVE  Parsed'
<1>1. 0 \in Rows
  BY DEF Rows
<1>2. ASSUME NEW t \in Tiles PROVE ParseJob(0, t) \in Queued'
  BY <1>1 DEF Parsed, Same, Alike
<1>3. ASSUME NEW t \in Tiles, NEW r \in Rows PROVE ParsedTo(r, t)'
  <2>1. /\ ParsedTo(r, t) /\ \A q \in 0 .. r - 1 : q \in Rows
        /\ r + 1 < NumRows => r + 1 \in Rows
    BY DEF Parsed, Rows
  <2>2. Left(ParseJob(r, t))' <=> Left(ParseJob(r, t))
    BY AlikeLeft, SameAlike
  <2>3. (ParseJob(r, t) \in Queued => \A q \in 0 .. r - 1 : ReconJob(q, t) \in Queued)'
    BY <2>1 DEF ParsedTo, Same, Alike
  <2>4. (ReconJob(r, t) \in Queued => ParseJob(r, t) \in Taken)'
    BY <2>1 DEF ParsedTo, Same, Alike
  <2>5. (Left(ParseJob(r, t)) =>
           \/ /\ ReconJob(r, t) \in Queued
              /\ r + 1 < NumRows => ParseJob(r + 1, t) \in Queued
           \/ /\ ReconJob(r, t) \notin Queued
              /\ \E w \in Workers : corrupted[w])'
    BY <2>1, <2>2 DEF ParsedTo, Same, Alike
  <2>6. (\A w \in Workers : On(w, ParseJob(r, t)) =>
           IF pc[w] = "qparse"
             THEN /\ ReconJob(r, t) \in Queued
                  /\ r + 1 < NumRows /\ ParseJob(r + 1, t) \notin Queued
             ELSE ReconJob(r, t) \notin Queued)'
    BY <2>1 DEF ParsedTo, Same, Alike
  <2> QED
    BY <2>3, <2>4, <2>5, <2>6 DEF ParsedTo
<1> QED
  BY <1>2, <1>3 DEF Parsed

LEMMA CountedSame ==
  ASSUME TilesCounted, tilesDone' = tilesDone,
         \A t \in Tiles : Counted(t)' <=> Counted(t)
  PROVE  TilesCounted'
BY DEF TilesCounted

LEMMA CountedAlike ==
  ASSUME NEW t \in Tiles,
         \A r \in Rows : /\ Alike(ParseJob(r, t))
                         /\ ReconJob(r, t) \in Queued' <=> ReconJob(r, t) \in Queued,
         Left(ReconJob(NumRows - 1, t))' <=> Left(ReconJob(NumRows - 1, t))
  PROVE  Counted(t)' <=> Counted(t)
<1>1. \A r \in Rows : Left(ParseJob(r, t))' <=> Left(ParseJob(r, t))
  BY AlikeLeft
<1> QED
  BY <1>1 DEF Counted

LEMMA MapSame ==
  ASSUME NEW r \in Rows, NEW t \in Tiles, MapOf(r, t), Same(ReconJob(r, t)),
         \A c \in TileSbs(t) : /\ <<r, c>> \in reconMap' <=> <<r, c>> \in reconMap
                               /\ <<r, c>> \in recon' <=> <<r, c>> \in recon
  PROVE  MapOf(r, t)'
<1>1. Left(ReconJob(r, t))' <=> Left(ReconJob(r, t))
  BY AlikeLeft, SameAlike
<1> QED
  BY <1>1 DEF MapOf, Same, Alike

\* A row that is given up stays marked without being reconstructed.
LEMMA FailedStays ==
  ASSUME reconMap \subseteq reconMap', recon' \cap reconMap \subseteq recon
  PROVE  ReconFailed => ReconFailed'
BY DEF ReconFailed

LEMMA TopStays ==
  ASSUME reconMap \subseteq reconMap', NEW r, NEW c
  PROVE  TopDone(r, c) => TopDone(r, c)'
BY DEF TopDone

LEMMA CheckedSame ==
  ASSUME PlaceType, NEW r \in Rows, NEW t \in Tiles, Same(ReconJob(r, t))
  PROVE  Checked(r, t)' <=> Checked(r, t)
<1>1. Left(ReconJob(r, t))' <=> Left(ReconJob(r, t))
  BY AlikeLeft, SameAlike
<1>2. ASSUME NEW v \in Workers, On(v, ReconJob(r, t))
      PROVE  /\ pc'[v] = pc[v] /\ (LastCol(v)' <=> LastCol(v))
             /\ On(v, ReconJob(r, t))'
  BY <1>2 DEF Same, Alike, On, LastCol
<1>3. \A v \in Workers : On(v, ReconJob(r, t))' => On(v, ReconJob(r, t))
  BY DEF Same, Alike
<1> QED
  BY <1>1, <1>2, <1>3 DEF Checked

LEMMA RowsCountedSame ==
  ASSUME RowsCounted, rowTiles' = rowTiles, filter' = filter,
         ReconFailed => ReconFailed',
         ~ReconFailed' /\ filter =>
           \A r \in Rows, t \in Tiles : Checked(r, t)' <=> Checked(r, t)
  PROVE  RowsCounted'
<1>1. CASE filter /\ ~ReconFailed'
  <2>1. ASSUME NEW r \in Rows
        PROVE  {t \in Tiles : Checked(r, t)}' = {t \in Tiles : Checked(r, t)}
    BY <1>1
  <2> QED
    BY <1>1, <2>1 DEF RowsCounted
<1>2. CASE ~(filter /\ ~ReconFailed')
  BY <1>2 DEF RowsCounted
<1> QED
  BY <1>1, <1>2

LEMMA LpfSame ==
  ASSUME NEW r \in Rows, LpfOf(r), Same(LpfJob(r)),
         LpfJob(r) \in Queued' <=> LpfJob(r) \in Queued,
         rowTiles'[RowBelow(r)] >= NumTiles <=> rowTiles[RowBelow(r)] >= NumTiles,
         \A v \in Workers : Promises(v, r)' <=> Promises(v, r),
         filtered'[r] = filtered[r], curSbCol'[r] = curSbCol[r]
  PROVE  LpfOf(r)'
<1>1. Left(LpfJob(r))' <=> Left(LpfJob(r))
  BY AlikeLeft, SameAlike
<1>2. RowBelow(r)' = RowBelow(r)
  BY DEF RowBelow
<1> QED
  BY <1>1, <1>2 DEF LpfOf, Same, Alike

-----------------------------------------------------------------------------
(* A step of a worker that has a job, which may put jobs into the queue and *)
(* may be the last of that job.                                            *)

\* Worker w goes on with its job or is through with it, the jobs of S are queued.
Works(w, S) ==
  /\ Others(w) /\ pc[w] \in Working
  /\ pc'[w] \in Working => job'[w] = job[w]
  /\ Queued' = Queued \cup S /\ S \cap Queued = {} /\ Taken' = Taken

LEMMA WorkTouches ==
  ASSUME QueueType, OneEach, NEW w \in Workers, NEW S, Works(w, S),
         NEW j, j = job[w]
  PROVE  /\ \A k : k # j => Same(k)
         /\ j \in Taken /\ j \in Queued /\ j \notin S
         /\ \A v \in Workers : On(v, j) => v = w
         /\ pc'[w] \in Working => /\ Alike(j)
                                  /\ \A v \in Workers : On(v, j)' => v = w
         /\ pc'[w] \notin Working => /\ Left(j)' /\ ~Left(j)
                                     /\ \A v \in Workers : ~On(v, j)'
<1>1. j \in Taken /\ Taken \subseteq Queued
  BY QueuedJobs DEF OneEach, Works
<1>2. j \in Queued /\ j \notin S
  BY <1>1 DEF Works
<1>3. \A v \in Workers : On(v, j) => v = w
  BY DEF OneEach, On, Works
<1>4. ASSUME NEW k, k # j PROVE Same(k)
  <2>1. ~On(w, k) /\ ~On(w, k)'
    BY <1>4 DEF Works, On
  <2> QED
    BY <1>4, <2>1, Untouched DEF Works
<1>5. \A v \in Workers : v # w => ~On(v, j)'
  BY <1>3 DEF Works, Others, On
<1>6. ASSUME pc'[w] \in Working
      PROVE  Alike(j) /\ \A v \in Workers : On(v, j)' => v = w
  BY <1>1, <1>2, <1>3, <1>5, <1>6 DEF Works, Alike, On
<1>7. ASSUME pc'[w] \notin Working
      PROVE  /\ Left(j)' /\ ~Left(j)
             /\ \A v \in Workers : ~On(v, j)'
  <2>1. \A v \in Workers : ~On(v, j)'
    BY <1>5, <1>7 DEF On
  <2> QED
    BY <1>1, <2>1 DEF Left, Works, On
<1> QED
  BY <1>1, <1>2, <1>3, <1>4, <1>6, <1>7

\* The part of OneEach that is about the workers.
LEMMA WorkersApart ==
  ASSUME QueueType, OneEach, NEW w \in Workers, NEW S, Works(w, S)
  PROVE  /\ \A v \in Workers : pc'[v] \in Working => job'[v] \in Taken'
         /\ \A u, v \in Workers : /\ pc'[u] \in Working /\ pc'[v] \in Working
                                  /\ job'[u] = job'[v]
                                  => u = v
<1>1. \A v \in Workers : pc'[v] \in Working => pc[v] \in Working /\ job'[v] = job[v]
  BY DEF Works, Others
<1> QED
  BY <1>1 DEF OneEach, Works

LEMMA KeepQueue ==
  ASSUME QueueType, OneEach, InOrder, NEW w \in Workers, jobs' = jobs, rd' = rd,
         Others(w), pc[w] \in Working, pc'[w] \in Working => job'[w] = job[w],
         ReconFailed => ReconFailed'
  PROVE  Works(w, {}) /\ OneEach' /\ InOrder'
<1>1. Works(w, {})
  BY DEF Works, Queued, Taken
<1>2. OneEach'
  BY <1>1, WorkersApart DEF OneEach
<1>3. InOrder'
  BY DEF InOrder, Before
<1> QED
  BY <1>1, <1>2, <1>3

LEMMA AddToQueue ==
  ASSUME QueueType, OneEach, InOrder, NEW w \in Workers, NEW j \in AllJobs,
         j \notin Queued, jobs' = Append(jobs, j), rd' = rd,
         Others(w), pc[w] \in Working, pc'[w] \in Working => job'[w] = job[w],
         ReconFailed => ReconFailed',
         \A r \in Rows : r > 0 =>
           /\ \A t \in Tiles : j = ReconJob(r, t) => ReconJob(r - 1, t) \in Queued
           /\ j = LpfJob(r) => LpfJob(r - 1) \in Queued \/ ReconFailed
  PROVE  Works(w, {j}) /\ OneEach' /\ InOrder'
<1>1. Works(w, {j})
  BY QueueAdd DEF Works
<1>2. /\ jobs \in Seq(AllJobs) /\ Len(jobs') = Len(jobs) + 1
      /\ jobs'[Len(jobs) + 1] = j /\ Len(jobs) \in Nat
      /\ \A i \in 1 .. Len(jobs) : jobs'[i] = jobs[i]
  BY DEF QueueType
<1>3. \A i \in 1 .. Len(jobs) : jobs[i] # j
  BY DEF Queued
<1>4. \A i, k \in 1 .. Len(jobs') : jobs'[i] = jobs'[k] => i = k
  BY <1>2, <1>3 DEF OneEach
<1>5. OneEach'
  BY <1>1, <1>4, WorkersApart DEF OneEach
<1> PICK n : n = Len(jobs) + 1
  OBVIOUS
<1>6. ASSUME NEW k, k \in Queued PROVE Before(k, n)'
  BY <1>2, <1>6 DEF Queued, Before
<1>7. ASSUME NEW k, NEW i \in 1 .. Len(jobs), Before(k, i) PROVE Before(k, i)'
  BY <1>2, <1>7 DEF Before
<1>8. InOrder'
  <2> SUFFICES ASSUME NEW i \in 1 .. Len(jobs'), NEW r \in Rows, r > 0
               PROVE  /\ \A t \in Tiles : jobs'[i] = ReconJob(r, t)
                                          => Before(ReconJob(r - 1, t), i)'
                      /\ jobs'[i] = LpfJob(r)
                           => Before(LpfJob(r - 1), i)' \/ ReconFailed'
    BY DEF InOrder
  <2>1. CASE i \in 1 .. Len(jobs)
    BY <1>2, <1>7, <2>1 DEF InOrder
  <2>2. CASE i = n
    BY <1>2, <1>6, <2>2
  <2> QED
    BY <1>2, <2>1, <2>2
<1> QED
  BY <1>1, <1>5, <1>8

-----------------------------------------------------------------------------
(* The parts of the invariant that such a step does not reach.             *)

LEMMA KeepSuits ==
  ASSUME PlaceType, \A v \in Workers : Suits(v), NEW w \in Workers, Others(w),
         filter' = filter, \A v \in Workers \ {w} : corrupted'[v] = corrupted[v],
         Suits(w)'
  PROVE  \A v \in Workers : Suits(v)'
<1> SUFFICES ASSUME NEW v \in Workers \ {w} PROVE Suits(v)'
  OBVIOUS
<1>1. /\ pc'[v] = pc[v] /\ job'[v] = job[v] /\ col'[v] = col[v]
      /\ corrupted'[v] = corrupted[v]
  BY DEF Others
<1>2. Suits(v)
  OBVIOUS
<1> QED
  BY <1>1, <1>2 DEF Suits, LastCol, LastRow

LEMMA KeepParsed ==
  ASSUME QueueType, OneEach, Parsed, NEW w \in Workers, NEW S, Works(w, S),
         job[w].type # "parse", \A k \in S : k.type = "lpf",
         \A v \in Workers : corrupted[v] => corrupted'[v]
  PROVE  Parsed'
<1> PICK j : j = job[w]
  OBVIOUS
<1>1. ASSUME NEW r \in Rows, NEW t \in Tiles
      PROVE  /\ Same(ParseJob(r, t))
             /\ ParseJob(r, t) \in Queued' <=> ParseJob(r, t) \in Queued
             /\ ReconJob(r, t) \in Queued' <=> ReconJob(r, t) \in Queued
  <2>1. /\ ParseJob(r, t) # j /\ ParseJob(r, t) \notin S
        /\ ReconJob(r, t) \notin S
    BY JobFacts
  <2>2. Same(ParseJob(r, t))
    BY <2>1, WorkTouches
  <2> QED
    BY <2>1, <2>2 DEF Works
<1> QED
  BY <1>1, ParsedSame

LEMMA KeepTiles ==
  ASSUME QueueType, OneEach, TilesCounted, NEW w \in Workers, NEW S, Works(w, S),
         job[w].type # "parse", \A k \in S : k.type = "lpf", tilesDone' = tilesDone,
         \/ pc'[w] \in Working
         \/ job[w].type = "lpf"
         \/ job[w].row # NumRows - 1
  PROVE  TilesCounted'
<1> PICK j : j = job[w]
  OBVIOUS
<1>1. ASSUME NEW t \in Tiles PROVE Counted(t)' <=> Counted(t)
  <2>1. ASSUME NEW r \in Rows
        PROVE  /\ Alike(ParseJob(r, t))
               /\ ReconJob(r, t) \in Queued' <=> ReconJob(r, t) \in Queued
    <3>1. ParseJob(r, t) # j /\ ReconJob(r, t) \notin S
      BY JobFacts
    <3>2. Same(ParseJob(r, t))
      BY <3>1, WorkTouches
    <3> QED
      BY <3>1, <3>2, SameAlike DEF Works
  <2>2. NumRows - 1 \in Rows
    BY DEF Rows
  <2>3. Left(ReconJob(NumRows - 1, t))' <=> Left(ReconJob(NumRows - 1, t))
    <3>1. CASE ReconJob(NumRows - 1, t) # j
      BY <3>1, WorkTouches, SameAlike, AlikeLeft
    <3>2. CASE ReconJob(NumRows - 1, t) = j
      <4>1. pc'[w] \in Working
        BY <2>2, <3>2, JobFacts
      <4> QED
        BY <3>2, <4>1, WorkTouches, AlikeLeft
    <3> QED
      BY <3>1, <3>2
  <2> QED
    BY <2>1, <2>3, CountedAlike
<1> QED
  BY <1>1, CountedSame

LEMMA KeepMapped ==
  ASSUME QueueType, OneEach, Mapped, NEW w \in Workers, NEW S, Works(w, S),
         job[w].type # "recon", reconMap' = reconMap, recon' = recon,
         pc'[w] # "block", \A v \in Workers : corrupted[v] => corrupted'[v]
  PROVE  Mapped'
<1> PICK j : j = job[w]
  OBVIOUS
<1>1. ASSUME NEW r \in Rows, NEW t \in Tiles PROVE MapOf(r, t)'
  <2>1. ReconJob(r, t) # j
    BY JobFacts
  <2>2. Same(ReconJob(r, t)) /\ MapOf(r, t)
    BY <2>1, WorkTouches DEF Mapped
  <2> QED
    BY <2>2, MapSame
<1>2. ASSUME NEW v \in Workers, pc'[v] = "block"
      PROVE  TopDone(job[v].row, col[v])'
  BY <1>2 DEF Mapped, TopDone, Works, Others
<1>3. (ReconFailed => \E v \in Workers : corrupted[v])'
  BY DEF Mapped, ReconFailed
<1>4. \A p \in recon' : TopDone(p[1], p[2])'
  BY DEF Mapped, TopDone
<1> QED
  BY <1>1, <1>2, <1>3, <1>4 DEF Mapped

LEMMA KeepRows ==
  ASSUME QueueType, PlaceType, OneEach, RowsCounted, NEW w \in Workers, NEW S,
         Works(w, S), job[w].type # "recon", reconMap' = reconMap,
         recon' = recon, rowTiles' = rowTiles, filter' = filter
  PROVE  RowsCounted'
<1> PICK j : j = job[w]
  OBVIOUS
<1>1. ASSUME NEW r \in Rows, NEW t \in Tiles PROVE Checked(r, t)' <=> Checked(r, t)
  <2>1. ReconJob(r, t) # j
    BY JobFacts
  <2> QED
    BY <2>1, WorkTouches, CheckedSame
<1>2. ReconFailed => ReconFailed'
  BY DEF ReconFailed
<1> QED
  BY <1>1, <1>2, RowsCountedSame

\* Only the promises of w itself can change.
LEMMA OthersPromise ==
  ASSUME NEW w \in Workers, Others(w), NEW r
  PROVE  \A v \in Workers \ {w} : Promises(v, r)' <=> Promises(v, r)
BY DEF Others, Promises

LEMMA KeepLpf ==
  ASSUME QueueType, OneEach, \A r \in Rows : LpfOf(r), NEW w \in Workers, NEW S,
         Works(w, S), job[w].type # "lpf", \A k \in S : k.type # "lpf",
         rowTiles' = rowTiles, filtered' = filtered, curSbCol' = curSbCol,
         {pc[w], pc'[w]} \cap {"qlpf", "qlast"} = {}
  PROVE  \A r \in Rows : LpfOf(r)'
<1> PICK j : j = job[w]
  OBVIOUS
<1> SUFFICES ASSUME NEW r \in Rows PROVE LpfOf(r)'
  OBVIOUS
<1>1. Tiles # {}
  BY RowMtAssumption, SMTT(30) DEF Tiles
<1>2. LpfJob(r).type = "lpf"
  BY DEF LpfJob
<1>3. LpfJob(r) # j /\ LpfJob(r) \notin S
  BY <1>2
<1>4. Same(LpfJob(r))
  BY <1>3, WorkTouches
<1>5. LpfJob(r) \in Queued' <=> LpfJob(r) \in Queued
  BY <1>3 DEF Works
<1>6. \A v \in Workers : Promises(v, r)' <=> Promises(v, r)
  <2>1. ~Promises(w, r) /\ ~Promises(w, r)'
    BY DEF Promises
  <2> QED
    BY <2>1, OthersPromise DEF Works
<1>7. RowBelow(r)' = RowBelow(r)
  BY DEF RowBelow
<1> QED
  BY <1>4, <1>5, <1>6, <1>7, LpfSame

LEMMA KeepAsleep ==
  ASSUME PlaceType, \A v \in waiting : Asleep(v), NEW w \in Workers, Others(w),
         waiting' \subseteq waiting \cup {w}, terminate' = terminate,
         reconMap' = reconMap, curSbCol' = curSbCol,
         w \in waiting' => Asleep(w)'
  PROVE  \A v \in waiting' : Asleep(v)'
<1> SUFFICES ASSUME NEW v \in waiting', v # w PROVE Asleep(v)'
  OBVIOUS
<1>1. v \in Workers /\ v \in waiting
  BY DEF PlaceType
<1>2. pc'[v] = pc[v] /\ job'[v] = job[v] /\ col'[v] = col[v]
  BY <1>1 DEF Others
<1> QED
  BY <1>1, <1>2 DEF Asleep, TopDone, AboveDone

LEMMA KeepServed ==
  ASSUME Served, NEW w \in Workers, Others(w), pc[w] \in Working,
         pc'[w] \notin {"done", "qwait"}, tilesDone' = tilesDone,
         terminate' = terminate
  PROVE  Served'
<1>1. \A v \in Workers : pc[v] = "terminate" => pc'[v] = "terminate"
  BY DEF Others, Working, ParsePlaces, ReconPlaces, MarkPlaces, LpfPlaces
<1> QED
  BY <1>1 DEF Served

-----------------------------------------------------------------------------
(* Moving on, waiting and queueing.                                        *)

LEMMA GoToIs ==
  ASSUME PlaceType, NEW w \in Workers, NEW p \in Places, GoTo(w, p)
  PROVE  /\ Others(w) /\ pc'[w] = p
         /\ pc' \in [Workers -> Places] /\ job' \in [Workers -> AllJobs]
         /\ col' \in [Workers -> Nat]
         /\ p # "dequeue" => job' = job /\ col' = col
<1>1. NoJob \in AllJobs
  <2>1. 0 \in Rows /\ 0 \in Tiles
    BY DEF Rows, Tiles
  <2> QED
    BY <2>1, JobFacts DEF NoJob
<1> QED
  BY <1>1 DEF GoTo, PlaceType, Others

LEMMA NextColIs ==
  ASSUME PlaceType, NEW w \in Workers, NEW p \in Places, NextCol(w, p)
  PROVE  /\ Others(w) /\ pc'[w] = p /\ col'[w] = col[w] + 1
         /\ pc' \in [Workers -> Places] /\ job' = job /\ job \in [Workers -> AllJobs]
         /\ col' \in [Workers -> Nat]
BY DEF NextCol, PlaceType, Others

LEMMA SignalIs ==
  ASSUME NEW S, Signal(S)
  PROVE  /\ waiting' \subseteq waiting
         /\ \A v \in S : S = {v} => v \notin waiting'
BY DEF Signal

LEMMA EnqueueIs ==
  ASSUME QueueType, OneEach, NEW j \in AllJobs, j \notin Queued, Enqueue(j), main' = main
  PROVE  /\ jobs' = Append(jobs, j) /\ rd' = rd /\ QueueType'
         /\ terminate' = terminate /\ tilesDone' = tilesDone
         /\ waiting' \subseteq waiting
<1>1. Len(jobs) < Capacity
  BY Room
<1>2. jobs' = Append(jobs, j) /\ waiting' \subseteq waiting
  BY <1>1, SignalIs DEF Enqueue
<1> QED
  BY <1>2 DEF Enqueue, QueueType

\* The job a worker has, by its place.
LEMMA JobOf ==
  ASSUME PlaceType, NEW w \in Workers, Suits(w)
  PROVE  /\ pc[w] \in Places /\ job[w] \in AllJobs /\ col[w] \in Nat
         /\ job[w].row \in Rows /\ job[w].tile \in Tiles
         /\ pc[w] \in ParsePlaces => job[w] = ParseJob(job[w].row, job[w].tile)
         /\ pc[w] \in ReconPlaces => job[w] = ReconJob(job[w].row, job[w].tile)
         /\ pc[w] \in LpfPlaces => job[w] = LpfJob(job[w].row)
<1>1. pc[w] \in Places /\ job[w] \in AllJobs /\ col[w] \in Nat
  BY DEF PlaceType
<1> QED
  BY <1>1, JobKinds DEF Suits

Running == TypeOK /\ Busy

-----------------------------------------------------------------------------
(* Parsing.                                                                *)

LEMMA ParseInv ==
  ASSUME Running, NEW w \in Workers, NEW ok \in BOOLEAN, Parse(w, ok)
  PROVE  TypeOK' /\ Busy'
<1> USE DEF Working, Places, ParsePlaces, ReconPlaces, MarkPlaces, LpfPlaces
<1>1. TypeOK /\ Busy /\ QueueType /\ PlaceType /\ FlagType /\ OneEach /\ Suits(w)
  BY DEF Running, TypeOK, Busy
<1>2. PICK p \in {"tiledone", "qrecon"} : p = IF corrupted'[w] THEN "tiledone" ELSE "qrecon"
  OBVIOUS
<1>3. GoTo(w, p)
  BY <1>2 DEF Parse
<1>4. /\ Others(w) /\ pc'[w] = p /\ job' = job /\ col' = col
      /\ pc' \in [Workers -> Places] /\ pc[w] = "parse"
  BY <1>1, <1>3, GoToIs DEF Parse
<1>5. /\ corrupted' \in [Workers -> BOOLEAN]
      /\ \A v \in Workers : corrupted[v] => corrupted'[v]
      /\ \A v \in Workers \ {w} : corrupted'[v] = corrupted[v]
  BY <1>1 DEF Parse, FlagType
<1>6. TypeOK'
  BY <1>1, <1>4, <1>5 DEF TypeOK, QueueType, SyncType, PlaceType, FlagType,
       HistoryType, Parse, queueVars, syncVars, mainVars, histVars
<1>7. Works(w, {}) /\ OneEach' /\ InOrder'
  <2>1. ReconFailed => ReconFailed'
    BY DEF ReconFailed, Parse, syncVars, histVars
  <2> QED
    BY <1>1, <1>4, <2>1, KeepQueue DEF Busy, Parse, queueVars
<1>8. PICK r \in Rows, t \in Tiles : job[w] = ParseJob(r, t)
  BY <1>1, <1>4, JobOf
<1>9. /\ \A k : k # ParseJob(r, t) => Same(k)
      /\ Alike(ParseJob(r, t))
      /\ \A v \in Workers : On(v, ParseJob(r, t)) => v = w
      /\ \A v \in Workers : On(v, ParseJob(r, t))' => v = w
  <2>1. pc'[w] \in Working
    BY <1>4
  <2> QED
    BY <1>1, <1>7, <1>8, <2>1, WorkTouches
<1>10. Queued' = Queued /\ Taken' = Taken
  BY <1>7 DEF Works
<1>11. Suits(w)'
  BY <1>1, <1>2, <1>4 DEF Suits
<1>12. \A v \in Workers : Suits(v)'
  BY <1>1, <1>4, <1>5, <1>11, KeepSuits DEF Busy, Parse, mainVars
<1>13. Parsed'
  <2>1. ASSUME NEW q \in Rows, NEW u \in Tiles PROVE ParsedTo(q, u)'
    <3>1. ParsedTo(q, u) /\ (\A x \in 0 .. q - 1 : x \in Rows) /\ On(w, ParseJob(r, t))
      BY <1>1, <1>4, <1>8 DEF Busy, Parsed, Rows, On
    <3>2. Left(ParseJob(q, u))' <=> Left(ParseJob(q, u))
      BY <1>9, AlikeLeft, SameAlike
    <3>3. \A v \in Workers : On(v, ParseJob(q, u))' =>
            /\ On(v, ParseJob(q, u))
            /\ (pc'[v] = "qparse" <=> pc[v] = "qparse")
      BY <1>4, <1>9 DEF Same, Alike
    <3> QED
      BY <1>5, <1>10, <3>1, <3>2, <3>3 DEF ParsedTo
  <2> QED
    BY <1>1, <1>10, <2>1 DEF Busy, Parsed
<1>14. TilesCounted'
  <2>1. ASSUME NEW u \in Tiles PROVE Counted(u)' <=> Counted(u)
    <3>1. \A k : Alike(k)
      BY <1>9, SameAlike
    <3> QED
      BY <1>10, <3>1, CountedAlike, AlikeLeft
  <2> QED
    BY <1>1, <2>1, CountedSame DEF Busy, Parse, queueVars
<1>15. job[w].type = "parse"
  BY <1>8, JobFacts
<1>16. Mapped' /\ RowsCounted' /\ \A x \in Rows : LpfOf(x)'
  <2>1. Mapped'
    BY <1>1, <1>4, <1>5, <1>7, <1>15, KeepMapped DEF Busy, Parse, syncVars, histVars
  <2>2. RowsCounted'
    BY <1>1, <1>7, <1>15, KeepRows DEF Busy, Parse, syncVars, histVars, mainVars
  <2>3. \A x \in Rows : LpfOf(x)'
    BY <1>1, <1>4, <1>7, <1>15, KeepLpf DEF Busy, Parse, syncVars, histVars
  <2> QED
    BY <2>1, <2>2, <2>3
<1>17. \A v \in waiting' : Asleep(v)'
  <2>1. w \notin waiting
    BY <1>1, <1>4 DEF Busy, Asleep
  <2> QED
    BY <1>1, <1>4, <2>1, KeepAsleep DEF Busy, Parse, queueVars, syncVars
<1>18. Served'
  BY <1>1, <1>4, KeepServed DEF Busy, Parse, queueVars
<1> QED
  BY <1>6, <1>7, <1>12, <1>13, <1>14, <1>16, <1>17, <1>18 DEF Busy

\* What parsing does not reach, when a parsed row or the next one is queued.
LEMMA ParseKeeps ==
  ASSUME Running, NEW w \in Workers, NEW S, Works(w, S), job[w].type = "parse",
         \A k \in S : k.type # "lpf",
         pc'[w] \notin {"block", "qlpf", "qlast", "done", "qwait"},
         pc[w] \in ParsePlaces \cup {"tiledone"},
         UNCHANGED <<terminate, syncVars, mainVars, histVars, corrupted>>,
         waiting' \subseteq waiting
  PROVE  /\ Mapped' /\ RowsCounted' /\ \A x \in Rows : LpfOf(x)'
         /\ \A v \in waiting' : Asleep(v)'
         /\ tilesDone' = tilesDone => Served'
<1> USE DEF syncVars, mainVars, histVars
<1>1. TypeOK /\ Busy /\ QueueType /\ PlaceType /\ FlagType /\ OneEach
  BY DEF Running, TypeOK, Busy
<1>2. Others(w) /\ pc[w] \in Working
  BY DEF Works
<1>3. Mapped'
  BY <1>1, KeepMapped DEF Busy
<1>4. RowsCounted'
  BY <1>1, KeepRows DEF Busy
<1>5. \A x \in Rows : LpfOf(x)'
  <2>1. {pc[w], pc'[w]} \cap {"qlpf", "qlast"} = {}
    BY DEF ParsePlaces
  <2> QED
    BY <1>1, <2>1, KeepLpf DEF Busy
<1>6. \A v \in waiting' : Asleep(v)'
  <2>1. w \notin waiting
    BY <1>1 DEF Busy, Asleep, ParsePlaces
  <2> QED
    BY <1>1, <1>2, <2>1, KeepAsleep DEF Busy
<1>7. tilesDone' = tilesDone => Served'
  BY <1>1, <1>2, KeepServed DEF Busy
<1> QED
  BY <1>3, <1>4, <1>5, <1>6, <1>7

LEMMA QueueReconInv ==
  ASSUME Running, NEW w \in Workers, QueueRecon(w)
  PROVE  TypeOK' /\ Busy'
<1> USE DEF Working, Places, ParsePlaces, ReconPlaces, MarkPlaces, LpfPlaces,
            syncVars, mainVars, histVars
<1>1. TypeOK /\ Busy /\ QueueType /\ PlaceType /\ FlagType /\ OneEach /\ Suits(w)
  BY DEF Running, TypeOK, Busy
<1>2. pc[w] = "qrecon"
  BY DEF QueueRecon
<1>3. PICK r \in Rows, t \in Tiles : job[w] = ParseJob(r, t)
  BY <1>1, <1>2, JobOf
<1>4. /\ job[w].row = r /\ job[w].tile = t /\ job[w].type = "parse"
      /\ ReconJob(r, t) \in AllJobs /\ ReconJob(r, t).type = "recon"
  BY <1>3, JobFacts
<1>5. PICK p \in {"qparse", "dequeue"} : p = IF r + 1 < NumRows THEN "qparse" ELSE "dequeue"
  OBVIOUS
<1>6. GoTo(w, p) /\ Enqueue(ReconJob(r, t)) /\ main' = main
  BY <1>4, <1>5 DEF QueueRecon
<1>7. /\ Others(w) /\ pc'[w] = p /\ (p # "dequeue" => job' = job /\ col' = col)
      /\ pc' \in [Workers -> Places] /\ job' \in [Workers -> AllJobs]
      /\ col' \in [Workers -> Nat]
  BY <1>1, <1>6, GoToIs
<1>8. On(w, ParseJob(r, t)) /\ ParsedTo(r, t)
  BY <1>1, <1>2, <1>3 DEF On, Busy, Parsed
<1>9. ReconJob(r, t) \notin Queued
  BY <1>2, <1>8 DEF ParsedTo
<1>10. /\ jobs' = Append(jobs, ReconJob(r, t)) /\ rd' = rd /\ QueueType'
       /\ terminate' = terminate /\ tilesDone' = tilesDone
       /\ waiting' \subseteq waiting
  BY <1>1, <1>4, <1>6, <1>9, EnqueueIs
<1>11. TypeOK'
  BY <1>1, <1>7, <1>10 DEF TypeOK, SyncType, PlaceType, FlagType, HistoryType,
       QueueRecon
<1>12. ParseJob(r, t) \in Taken /\ ParseJob(r, t) \in Queued
  BY <1>1, <1>2, <1>3, QueuedJobs DEF OneEach
<1>13. Works(w, {ReconJob(r, t)}) /\ OneEach' /\ InOrder'
  <2>1. ASSUME NEW x \in Rows, x > 0
        PROVE  /\ \A u \in Tiles : ReconJob(r, t) = ReconJob(x, u)
                                   => ReconJob(x - 1, u) \in Queued
               /\ ReconJob(r, t) = LpfJob(x) => LpfJob(x - 1) \in Queued \/ ReconFailed
    <3>1. ReconJob(r, t) # LpfJob(x)
      BY JobFacts
    <3>2. \A u \in Tiles : ReconJob(r, t) = ReconJob(x, u) => x = r /\ u = t
      BY JobFacts
    <3>3. x = r => ReconJob(x - 1, t) \in Queued
      <4>1. x - 1 \in 0 .. x - 1
        BY <2>1 DEF Rows
      <4> QED
        BY <1>8, <1>12, <4>1 DEF ParsedTo
    <3> QED
      BY <3>1, <3>2, <3>3
  <2>2. ReconFailed => ReconFailed'
    BY DEF ReconFailed, QueueRecon
  <2>3. pc'[w] \in Working => job'[w] = job[w]
    BY <1>7
  <2> QED
    BY <1>1, <1>2, <1>4, <1>7, <1>9, <1>10, <2>1, <2>2, <2>3, AddToQueue DEF Busy
<1>14. /\ Queued' = Queued \cup {ReconJob(r, t)} /\ Taken' = Taken
       /\ \A k : k # ParseJob(r, t) => Same(k)
       /\ \A v \in Workers : On(v, ParseJob(r, t)) => v = w
       /\ \A v \in Workers : On(v, ParseJob(r, t))' => v = w /\ pc'[w] \in Working
  <2>1. /\ \A k : k # ParseJob(r, t) => Same(k)
        /\ \A v \in Workers : On(v, ParseJob(r, t)) => v = w
        /\ pc'[w] \in Working => \A v \in Workers : On(v, ParseJob(r, t))' => v = w
        /\ pc'[w] \notin Working => \A v \in Workers : ~On(v, ParseJob(r, t))'
    BY <1>1, <1>3, <1>13, WorkTouches
  <2>2. Queued' = Queued \cup {ReconJob(r, t)} /\ Taken' = Taken
    BY <1>13 DEF Works
  <2> HIDE DEF Working
  <2> QED
    BY <2>1, <2>2
<1>15. \A v \in Workers : Suits(v)'
  <2>1. Suits(w)'
    BY <1>1, <1>2, <1>5, <1>7 DEF Suits
  <2> QED
    BY <1>1, <1>7, <2>1, KeepSuits DEF Busy, QueueRecon
<1>16. Parsed'
  <2>1. ASSUME NEW q \in Rows, NEW u \in Tiles PROVE ParsedTo(q, u)'
    <3>1. ParsedTo(q, u) /\ (\A x \in 0 .. q - 1 : x \in Rows)
      BY <1>1 DEF Busy, Parsed, Rows
    <3>2. /\ ReconJob(q, u) = ReconJob(r, t) => q = r /\ u = t
          /\ ParseJob(q, u) = ParseJob(r, t) => q = r /\ u = t
          /\ ParseJob(q, u) # ReconJob(r, t)
      BY JobFacts
    <3>3. (ParseJob(q, u) \in Queued => \A x \in 0 .. q - 1 : ReconJob(x, u) \in Queued)'
      BY <1>14, <3>1, <3>2 DEF ParsedTo
    <3>4. (ReconJob(q, u) \in Queued => ParseJob(q, u) \in Taken)'
      BY <1>12, <1>14, <3>1, <3>2 DEF ParsedTo
    <3>5. (Left(ParseJob(q, u)) =>
             \/ /\ ReconJob(q, u) \in Queued
                /\ q + 1 < NumRows => ParseJob(q + 1, u) \in Queued
             \/ /\ ReconJob(q, u) \notin Queued
                /\ \E v \in Workers : corrupted[v])'
      <4>1. CASE ParseJob(q, u) = ParseJob(r, t)
        <5>1. p = "qparse" => ~Left(ParseJob(q, u))'
          BY <1>7, <1>3, <4>1 DEF Left, On
        <5> QED
          BY <1>5, <1>14, <3>2, <4>1, <5>1
      <4>2. CASE ParseJob(q, u) # ParseJob(r, t)
        <5>1. Left(ParseJob(q, u))' <=> Left(ParseJob(q, u))
          BY <1>14, <4>2, AlikeLeft, SameAlike
        <5>2. ReconJob(q, u) \in Queued' <=> ReconJob(q, u) \in Queued
          BY <1>14, <3>2, <4>2
        <5> QED
          BY <1>14, <3>1, <5>1, <5>2 DEF ParsedTo, QueueRecon
      <4> QED
        BY <4>1, <4>2
    <3>6. (\A v \in Workers : On(v, ParseJob(q, u)) =>
             IF pc[v] = "qparse"
               THEN /\ ReconJob(q, u) \in Queued
                    /\ q + 1 < NumRows /\ ParseJob(q + 1, u) \notin Queued
               ELSE ReconJob(q, u) \notin Queued)'
      <4>1. CASE ParseJob(q, u) = ParseJob(r, t)
        <5>1. r + 1 < NumRows => /\ ParseJob(r + 1, t) \notin Queued
                                 /\ ParseJob(r + 1, t) # ReconJob(r, t)
          <6> SUFFICES ASSUME r + 1 < NumRows
                       PROVE  /\ ParseJob(r + 1, t) \notin Queued
                              /\ ParseJob(r + 1, t) # ReconJob(r, t)
            OBVIOUS
          <6>1. r + 1 \in Rows /\ r \in 0 .. (r + 1) - 1
            BY DEF Rows
          <6>2. ParsedTo(r + 1, t)
            BY <1>1, <6>1 DEF Busy, Parsed
          <6>3. ParseJob(r + 1, t).type = "parse"
            BY <6>1, JobFacts
          <6> QED
            BY <1>4, <1>9, <6>1, <6>2, <6>3 DEF ParsedTo
        <5> QED
          BY <1>5, <1>7, <1>14, <3>2, <4>1, <5>1
      <4>2. CASE ParseJob(q, u) # ParseJob(r, t)
        <5>1. Same(ParseJob(q, u))
          BY <1>14, <4>2
        <5>2. ReconJob(q, u) \in Queued' <=> ReconJob(q, u) \in Queued
          BY <1>14, <3>2, <4>2
        <5>3. q + 1 < NumRows => ParseJob(q + 1, u) # ReconJob(r, t)
          <6>1. q + 1 < NumRows => q + 1 \in Rows
            BY DEF Rows
          <6> QED
            BY <1>4, <6>1, JobFacts
        <5> QED
          BY <1>14, <3>1, <5>1, <5>2, <5>3 DEF ParsedTo, Same, Alike
      <4> QED
        BY <4>1, <4>2
    <3> QED
      BY <3>3, <3>4, <3>5, <3>6 DEF ParsedTo
  <2>2. \A u \in Tiles : ParseJob(0, u) \in Queued'
    BY <1>1, <1>14 DEF Busy, Parsed
  <2> QED
    BY <2>1, <2>2 DEF Parsed
<1>17. TilesCounted'
  <2>1. ASSUME NEW u \in Tiles PROVE Counted(u)' <=> Counted(u)
    <3>1. NumRows - 1 \in Rows
      BY DEF Rows
    <3>2. Left(ReconJob(NumRows - 1, u))' <=> Left(ReconJob(NumRows - 1, u))
      <4>1. ReconJob(NumRows - 1, u) # ParseJob(r, t)
        BY <3>1, JobFacts
      <4> QED
        BY <1>14, <4>1, AlikeLeft, SameAlike
    <3>3. ASSUME NEW q \in Rows
          PROVE  Left(ParseJob(q, u))' /\ ReconJob(q, u) \notin Queued'
                 <=> Left(ParseJob(q, u)) /\ ReconJob(q, u) \notin Queued
      <4>1. CASE q = r /\ u = t
        <5>1. ~Left(ParseJob(r, t))
          BY <1>8 DEF Left
        <5> QED
          BY <1>14, <4>1, <5>1
      <4>2. CASE ~(q = r /\ u = t)
        <5>1. ReconJob(q, u) # ReconJob(r, t) /\ ParseJob(q, u) # ParseJob(r, t)
          BY <4>2, JobFacts
        <5>2. Left(ParseJob(q, u))' <=> Left(ParseJob(q, u))
          BY <1>14, <5>1, AlikeLeft, SameAlike
        <5> QED
          BY <1>14, <5>1, <5>2
      <4> QED
        BY <4>1, <4>2
    <3> QED
      BY <3>2, <3>3 DEF Counted
  <2> QED
    BY <1>1, <1>10, <2>1, CountedSame DEF Busy
<1>18. /\ Mapped' /\ RowsCounted' /\ \A x \in Rows : LpfOf(x)'
       /\ \A v \in waiting' : Asleep(v)'
       /\ Served'
  BY <1>2, <1>4, <1>7, <1>10, <1>13, ParseKeeps DEF QueueRecon
<1> QED
  BY <1>11, <1>13, <1>15, <1>16, <1>17, <1>18 DEF Busy

LEMMA QueueParseInv ==
  ASSUME Running, NEW w \in Workers, QueueParse(w)
  PROVE  TypeOK' /\ Busy'
<1> USE DEF Working, Places, ParsePlaces, ReconPlaces, MarkPlaces, LpfPlaces,
            syncVars, mainVars, histVars
<1>1. TypeOK /\ Busy /\ QueueType /\ PlaceType /\ FlagType /\ OneEach /\ Suits(w)
  BY DEF Running, TypeOK, Busy
<1>2. pc[w] = "qparse"
  BY DEF QueueParse
<1>3. PICK r \in Rows, t \in Tiles : job[w] = ParseJob(r, t)
  BY <1>1, <1>2, JobOf
<1>4. job[w].row = r /\ job[w].tile = t /\ job[w].type = "parse"
  BY <1>3, JobFacts
<1>5. On(w, ParseJob(r, t)) /\ ParsedTo(r, t)
  BY <1>1, <1>2, <1>3 DEF On, Busy, Parsed
<1>6. /\ ReconJob(r, t) \in Queued /\ ParseJob(r + 1, t) \notin Queued
      /\ r + 1 \in Rows
  BY <1>2, <1>5 DEF ParsedTo, Rows
<1> PICK n : n = ParseJob(r + 1, t)
  OBVIOUS
<1>7. /\ n \in AllJobs /\ n.type = "parse" /\ n.row = r + 1 /\ n.tile = t
      /\ n \notin Queued
  BY <1>6, JobFacts
<1>8. GoTo(w, "dequeue") /\ Enqueue(n) /\ main' = main
  BY <1>4 DEF QueueParse
<1>9. /\ Others(w) /\ pc'[w] = "dequeue"
      /\ pc' \in [Workers -> Places] /\ job' \in [Workers -> AllJobs]
      /\ col' \in [Workers -> Nat]
  BY <1>1, <1>8, GoToIs
<1>10. /\ jobs' = Append(jobs, n) /\ rd' = rd /\ QueueType'
       /\ terminate' = terminate /\ tilesDone' = tilesDone
       /\ waiting' \subseteq waiting
  BY <1>1, <1>7, <1>8, EnqueueIs
<1>11. TypeOK'
  BY <1>1, <1>9, <1>10 DEF TypeOK, SyncType, PlaceType, FlagType, HistoryType,
       QueueParse
<1>12. Works(w, {n}) /\ OneEach' /\ InOrder'
  <2>1. ASSUME NEW x \in Rows, x > 0
        PROVE  /\ \A u \in Tiles : n = ReconJob(x, u) => ReconJob(x - 1, u) \in Queued
               /\ n = LpfJob(x) => LpfJob(x - 1) \in Queued \/ ReconFailed
    BY <1>7, JobFacts
  <2>2. ReconFailed => ReconFailed'
    BY DEF ReconFailed, QueueParse
  <2>3. pc'[w] \in Working => job'[w] = job[w]
    BY <1>9
  <2> QED
    BY <1>1, <1>2, <1>7, <1>9, <1>10, <2>1, <2>2, <2>3, AddToQueue, ZenonT(30) DEF Busy
<1>13. /\ Queued' = Queued \cup {n} /\ Taken' = Taken
       /\ \A k : k # ParseJob(r, t) => Same(k)
       /\ \A v \in Workers : ~On(v, ParseJob(r, t))'
       /\ ParseJob(r, t) \in Queued
  <2>1. /\ \A k : k # ParseJob(r, t) => Same(k)
        /\ pc'[w] \notin Working => \A v \in Workers : ~On(v, ParseJob(r, t))'
        /\ ParseJob(r, t) \in Queued
    BY <1>1, <1>3, <1>12, WorkTouches
  <2>2. Queued' = Queued \cup {n} /\ Taken' = Taken
    BY <1>12 DEF Works
  <2> QED
    BY <1>9, <2>1, <2>2
<1>14. \A v \in Workers : Suits(v)'
  <2>1. Suits(w)'
    BY <1>9 DEF Suits
  <2> QED
    BY <1>1, <1>9, <2>1, KeepSuits DEF Busy, QueueParse
<1>15. Parsed'
  <2>1. ASSUME NEW q \in Rows, NEW u \in Tiles PROVE ParsedTo(q, u)'
    <3>1. ParsedTo(q, u) /\ (\A x \in 0 .. q - 1 : x \in Rows) /\ q \in Nat
      BY <1>1 DEF Busy, Parsed, Rows
    <3>2. /\ ReconJob(q, u) # n
          /\ ParseJob(q, u) = ParseJob(r, t) => q = r /\ u = t
          /\ ParseJob(q, u) = n => q = r + 1 /\ u = t
      BY <1>7, JobFacts
    <3>3. (ParseJob(q, u) \in Queued => \A x \in 0 .. q - 1 : ReconJob(x, u) \in Queued)'
      <4>1. CASE ParseJob(q, u) = n
        <5>1. \A x \in 0 .. q - 1 : x = r \/ x \in 0 .. r - 1
          BY <3>2, <4>1 DEF Rows
        <5> QED
          BY <1>5, <1>6, <1>13, <3>2, <4>1, <5>1 DEF ParsedTo
      <4>2. CASE ParseJob(q, u) # n
        BY <1>13, <3>1, <4>2 DEF ParsedTo
      <4> QED
        BY <4>1, <4>2
    <3>4. (ReconJob(q, u) \in Queued => ParseJob(q, u) \in Taken)'
      BY <1>13, <3>1, <3>2 DEF ParsedTo
    <3>5. (Left(ParseJob(q, u)) =>
             \/ /\ ReconJob(q, u) \in Queued
                /\ q + 1 < NumRows => ParseJob(q + 1, u) \in Queued
             \/ /\ ReconJob(q, u) \notin Queued
                /\ \E v \in Workers : corrupted[v])'
      <4>1. CASE ParseJob(q, u) = ParseJob(r, t)
        BY <1>6, <1>13, <3>2, <4>1
      <4>2. CASE ParseJob(q, u) # ParseJob(r, t)
        <5>1. Left(ParseJob(q, u))' <=> Left(ParseJob(q, u))
          BY <1>13, <4>2, AlikeLeft, SameAlike
        <5> QED
          BY <1>13, <3>1, <3>2, <5>1 DEF ParsedTo, QueueParse
      <4> QED
        BY <4>1, <4>2
    <3>6. (\A v \in Workers : On(v, ParseJob(q, u)) =>
             IF pc[v] = "qparse"
               THEN /\ ReconJob(q, u) \in Queued
                    /\ q + 1 < NumRows /\ ParseJob(q + 1, u) \notin Queued
               ELSE ReconJob(q, u) \notin Queued)'
      <4>1. CASE ParseJob(q, u) = ParseJob(r, t)
        BY <1>13, <4>1
      <4>2. CASE ParseJob(q, u) # ParseJob(r, t)
        <5>1. Same(ParseJob(q, u))
          BY <1>13, <4>2
        <5>2. q + 1 < NumRows => ParseJob(q + 1, u) # n
          <6>1. q + 1 < NumRows => q + 1 \in Rows
            BY DEF Rows
          <6>2. q + 1 < NumRows => ParseJob(q + 1, u).row = q + 1 /\ ParseJob(q + 1, u).tile = u
            BY <6>1, JobFacts
          <6> QED
            BY <1>7, <4>2, <6>2 DEF Rows
        <5> QED
          BY <1>13, <3>1, <3>2, <5>1, <5>2 DEF ParsedTo, Same, Alike
      <4> QED
        BY <4>1, <4>2
    <3> QED
      BY <3>3, <3>4, <3>5, <3>6 DEF ParsedTo
  <2>2. \A u \in Tiles : ParseJob(0, u) \in Queued'
    BY <1>1, <1>13 DEF Busy, Parsed
  <2> QED
    BY <2>1, <2>2 DEF Parsed
<1>16. TilesCounted'
  <2>1. ASSUME NEW u \in Tiles PROVE Counted(u)' <=> Counted(u)
    <3>1. NumRows - 1 \in Rows
      BY DEF Rows
    <3>2. Left(ReconJob(NumRows - 1, u))' <=> Left(ReconJob(NumRows - 1, u))
      <4>1. ReconJob(NumRows - 1, u) # ParseJob(r, t)
        BY <3>1, JobFacts
      <4> QED
        BY <1>13, <4>1, AlikeLeft, SameAlike
    <3>3. ASSUME NEW q \in Rows
          PROVE  Left(ParseJob(q, u))' /\ ReconJob(q, u) \notin Queued'
                 <=> Left(ParseJob(q, u)) /\ ReconJob(q, u) \notin Queued
      <4>1. ReconJob(q, u) \in Queued' <=> ReconJob(q, u) \in Queued
        BY <1>7, <1>13, JobFacts
      <4>2. CASE q = r /\ u = t
        BY <1>6, <4>1, <4>2
      <4>3. CASE ~(q = r /\ u = t)
        <5>1. ParseJob(q, u) # ParseJob(r, t)
          BY <4>3, JobFacts
        <5>2. Left(ParseJob(q, u))' <=> Left(ParseJob(q, u))
          BY <1>13, <5>1, AlikeLeft, SameAlike
        <5> QED
          BY <4>1, <5>2
      <4> QED
        BY <4>2, <4>3
    <3> QED
      BY <3>2, <3>3 DEF Counted
  <2> QED
    BY <1>1, <1>10, <2>1, CountedSame DEF Busy
<1>17. /\ Mapped' /\ RowsCounted' /\ \A x \in Rows : LpfOf(x)'
       /\ \A v \in waiting' : Asleep(v)'
       /\ Served'
  BY <1>2, <1>4, <1>7, <1>9, <1>10, <1>12, ParseKeeps DEF QueueParse
<1> QED
  BY <1>11, <1>12, <1>14, <1>15, <1>16, <1>17 DEF Busy

\* A tile is counted that was not.
LEMMA CountedMore ==
  ASSUME TilesCounted, tilesDone' = tilesDone + 1, NEW t \in Tiles,
         ~Counted(t), Counted(t)',
         \A u \in Tiles \ {t} : Counted(u)' <=> Counted(u)
  PROVE  TilesCounted'
<1> DEFINE S == {u \in Tiles : Counted(u)}
<1>1. {u \in Tiles : Counted(u)}' = S \cup {t}
  OBVIOUS
<1>2. IsFiniteSet(Tiles)
  <2>1. IsFiniteSet(0 .. 0 + NumTiles - 1) /\ Cardinality(0 .. 0 + NumTiles - 1) = NumTiles
    BY Interval
  <2>2. Tiles = 0 .. 0 + NumTiles - 1
    BY DEF Tiles
  <2> QED
    BY <2>1, <2>2
<1>3. IsFiniteSet(S) /\ t \notin S
  BY <1>2, FS_Subset
<1>4. tilesDone = Cardinality(S)
  BY DEF TilesCounted
<1> HIDE DEF S
<1>5. Cardinality(S \cup {t}) = Cardinality(S) + 1
  BY <1>3, FS_AddElement
<1> QED
  BY <1>1, <1>4, <1>5 DEF TilesCounted

\* A tile that has a parser or somebody to reconstruct its last row was not
\* counted.
LEMMA NotCounted ==
  ASSUME QueueType, OneEach, Parsed, NEW w \in Workers, NEW r \in Rows, NEW t \in Tiles,
         \/ On(w, ParseJob(r, t)) /\ ReconJob(r, t) \notin Queued
         \/ On(w, ReconJob(r, t)) /\ r = NumRows - 1
  PROVE  /\ ~Counted(t)
         /\ On(w, ReconJob(r, t)) => \A q \in Rows : ReconJob(q, t) \in Queued
<1>1. Taken \subseteq Queued /\ NumRows - 1 \in Rows
  BY QueuedJobs DEF Rows
<1>2. \A q \in Rows : ParsedTo(q, t)
  BY DEF Parsed
<1>3. CASE On(w, ParseJob(r, t)) /\ ReconJob(r, t) \notin Queued
  <2>1. ParseJob(r, t) \in Queued /\ ~Left(ParseJob(r, t)) /\ ~On(w, ReconJob(r, t))
    <3>1. ParseJob(r, t) # ReconJob(r, t)
      BY JobFacts
    <3> QED
      BY <1>1, <1>3, <3>1 DEF OneEach, On, Left
  <2>2. ASSUME NEW q \in Rows, Left(ParseJob(q, t)), ReconJob(q, t) \notin Queued
        PROVE  FALSE
    <3>1. ParseJob(q, t) \in Queued /\ q # r
      BY <1>1, <2>1, <2>2 DEF Left
    <3>2. q \in 0 .. r - 1 \/ r \in 0 .. q - 1
      BY <3>1 DEF Rows
    <3> QED
      BY <1>2, <1>3, <2>1, <2>2, <3>1, <3>2 DEF ParsedTo
  <2>3. ~Left(ReconJob(NumRows - 1, t))
    <3> SUFFICES ASSUME Left(ReconJob(NumRows - 1, t)) PROVE FALSE
      OBVIOUS
    <3>1. ReconJob(NumRows - 1, t) \in Queued /\ r # NumRows - 1
      BY <1>1, <1>3 DEF Left
    <3>2. ParseJob(NumRows - 1, t) \in Queued /\ r \in 0 .. (NumRows - 1) - 1
      BY <1>1, <1>2, <3>1 DEF ParsedTo, Rows
    <3> QED
      BY <1>1, <1>2, <1>3, <3>2 DEF ParsedTo
  <2> QED
    BY <2>1, <2>2, <2>3 DEF Counted
<1>4. CASE On(w, ReconJob(r, t)) /\ r = NumRows - 1
  <2>1. ReconJob(r, t) \in Queued /\ ~Left(ReconJob(NumRows - 1, t))
    BY <1>1, <1>4 DEF OneEach, On, Left
  <2>2. ParseJob(r, t) \in Queued
    BY <1>1, <1>2, <2>1 DEF ParsedTo
  <2>3. ASSUME NEW q \in Rows PROVE ReconJob(q, t) \in Queued
    <3>1. q = r \/ q \in 0 .. r - 1
      BY <1>4 DEF Rows
    <3> QED
      BY <1>2, <2>1, <2>2, <3>1 DEF ParsedTo
  <2> QED
    BY <2>1, <2>3 DEF Counted
<1> QED
  BY <1>3, <1>4

LEMMA TileDoneInv ==
  ASSUME Running, NEW w \in Workers, TileDone(w)
  PROVE  TypeOK' /\ Busy'
<1> USE DEF Working, Places, ParsePlaces, ReconPlaces, MarkPlaces, LpfPlaces,
            syncVars, mainVars, histVars
<1>1. TypeOK /\ Busy /\ QueueType /\ PlaceType /\ FlagType /\ OneEach /\ Suits(w)
  BY DEF Running, TypeOK, Busy
<1>2. pc[w] = "tiledone" /\ job[w] \in AllJobs
  BY <1>1 DEF TileDone, PlaceType
<1>3. PICK p \in {"terminate", "dequeue"} :
        p = IF tilesDone + 1 = NumTiles THEN "terminate" ELSE "dequeue"
  OBVIOUS
<1>4. GoTo(w, p)
  BY <1>3 DEF TileDone
<1>5. /\ Others(w) /\ pc'[w] = p
      /\ pc' \in [Workers -> Places] /\ job' \in [Workers -> AllJobs]
      /\ col' \in [Workers -> Nat]
  BY <1>1, <1>4, GoToIs
<1>6. TypeOK'
  BY <1>1, <1>5 DEF TypeOK, QueueType, SyncType, PlaceType, FlagType, HistoryType,
       TileDone
<1>7. Works(w, {}) /\ OneEach' /\ InOrder'
  <2>1. ReconFailed => ReconFailed'
    BY DEF ReconFailed, TileDone
  <2>2. pc'[w] \notin Working
    BY <1>5
  <2> QED
    BY <1>1, <1>2, <1>5, <2>1, <2>2, KeepQueue DEF Busy, TileDone
<1>8. Queued' = Queued /\ Taken' = Taken /\ pc'[w] \notin Working
  BY <1>5, <1>7 DEF Works
<1>9. \A v \in Workers : Suits(v)'
  <2>1. Suits(w)'
    BY <1>5 DEF Suits
  <2> QED
    BY <1>1, <1>5, <2>1, KeepSuits DEF Busy, TileDone
<1>10. Served'
  <2>1. tilesDone' = NumTiles => pc'[w] = "terminate"
    BY <1>3, <1>5 DEF TileDone
  <2>2. pc'[w] # "done" /\ pc'[w] # "qwait"
    BY <1>5
  <2> QED
    BY <2>1, <2>2 DEF Served
<1>11. CASE job[w].type = "parse"
  <2>1. PICK r \in Rows, t \in Tiles : job[w] = ParseJob(r, t)
    BY <1>2, <1>11, JobKinds
  <2>2. On(w, ParseJob(r, t)) /\ ReconJob(r, t) \notin Queued /\ corrupted[w]
    BY <1>1, <1>2, <1>11, <2>1 DEF On, Busy, Parsed, ParsedTo, Suits
  <2>3. /\ \A k : k # ParseJob(r, t) => Same(k)
        /\ Left(ParseJob(r, t))'
        /\ \A v \in Workers : ~On(v, ParseJob(r, t))'
    BY <1>1, <1>7, <1>8, <2>1, WorkTouches
  <2>4. Parsed'
    <3>1. ASSUME NEW q \in Rows, NEW u \in Tiles PROVE ParsedTo(q, u)'
      <4>1. ParsedTo(q, u) /\ corrupted' = corrupted
        BY <1>1 DEF Busy, Parsed, TileDone
      <4>2. CASE ParseJob(q, u) = ParseJob(r, t)
        <5>1. q = r /\ u = t
          BY <4>2, JobFacts
        <5> QED
          BY <1>8, <2>2, <2>3, <4>1, <5>1 DEF ParsedTo
      <4>3. CASE ParseJob(q, u) # ParseJob(r, t)
        <5>1. Same(ParseJob(q, u))
          BY <2>3, <4>3
        <5>2. Left(ParseJob(q, u))' <=> Left(ParseJob(q, u))
          BY <5>1, AlikeLeft, SameAlike
        <5> QED
          BY <1>8, <4>1, <5>1, <5>2 DEF ParsedTo, Same, Alike
      <4> QED
        BY <4>2, <4>3
    <3> QED
      BY <1>1, <1>8, <3>1 DEF Busy, Parsed
  <2>5. TilesCounted'
    <3>1. ~Counted(t)
      BY <1>1, <2>2, NotCounted DEF Busy
    <3>2. Counted(t)'
      BY <1>8, <2>2, <2>3 DEF Counted
    <3>3. ASSUME NEW u \in Tiles \ {t} PROVE Counted(u)' <=> Counted(u)
      <4>1. ASSUME NEW q \in Rows
            PROVE  Alike(ParseJob(q, u)) /\ Alike(ReconJob(q, u))
        BY <2>3, SameAlike, JobFacts
      <4>2. NumRows - 1 \in Rows
        BY DEF Rows
      <4> QED
        BY <1>8, <4>1, <4>2, CountedAlike, AlikeLeft
    <3> QED
      BY <1>1, <3>1, <3>2, <3>3, CountedMore DEF Busy, TileDone
  <2>6. /\ Mapped' /\ RowsCounted' /\ \A x \in Rows : LpfOf(x)'
        /\ \A v \in waiting' : Asleep(v)'
    <3>1. pc'[w] \notin {"block", "qlpf", "qlast", "done", "qwait"}
      BY <1>5
    <3> QED
      BY <1>2, <1>7, <1>11, <3>1, ParseKeeps DEF TileDone
  <2> QED
    BY <1>6, <1>7, <1>9, <1>10, <2>4, <2>5, <2>6 DEF Busy
<1>12. CASE job[w].type = "recon"
  <2>1. PICK r \in Rows, t \in Tiles : job[w] = ReconJob(r, t)
    BY <1>2, <1>12, JobKinds
  <2>2. On(w, ReconJob(r, t)) /\ r = NumRows - 1
    <3>1. job[w].row = r
      BY <2>1, JobFacts
    <3> QED
      BY <1>1, <1>2, <1>12, <2>1, <3>1 DEF On, Suits, LastRow
  <2>3. /\ \A k : k # ReconJob(r, t) => Same(k)
        /\ Left(ReconJob(r, t))'
        /\ \A v \in Workers : ~On(v, ReconJob(r, t))'
        /\ \A v \in Workers : On(v, ReconJob(r, t)) => v = w
        /\ ReconJob(r, t) \in Taken
    BY <1>1, <1>7, <1>8, <2>1, WorkTouches
  <2>4. Parsed'
    BY <1>1, <1>7, <1>12, KeepParsed DEF Busy, TileDone
  <2>5. TilesCounted'
    <3>1. ~Counted(t)
      BY <1>1, <2>2, NotCounted DEF Busy
    <3>2. Counted(t)'
      BY <2>2, <2>3 DEF Counted
    <3>3. ASSUME NEW u \in Tiles \ {t} PROVE Counted(u)' <=> Counted(u)
      <4>1. ASSUME NEW q \in Rows
            PROVE  Alike(ParseJob(q, u)) /\ Alike(ReconJob(q, u))
        BY <2>3, SameAlike, JobFacts
      <4>2. NumRows - 1 \in Rows
        BY DEF Rows
      <4> QED
        BY <1>8, <4>1, <4>2, CountedAlike, AlikeLeft
    <3> QED
      BY <1>1, <3>1, <3>2, <3>3, CountedMore DEF Busy, TileDone
  <2>6. \A q \in Rows, u \in Tiles : ReconJob(q, u) # ReconJob(r, t) \/ (q = r /\ u = t)
    BY JobFacts
  <2>7. Mapped'
    <3>1. ASSUME NEW q \in Rows, NEW u \in Tiles PROVE MapOf(q, u)'
      <4>1. MapOf(q, u) /\ reconMap' = reconMap /\ recon' = recon
        BY <1>1 DEF Busy, Mapped, TileDone
      <4>2. CASE q = r /\ u = t
        BY <1>2, <1>8, <2>2, <2>3, <4>1, <4>2 DEF MapOf
      <4>3. CASE ~(q = r /\ u = t)
        BY <2>3, <2>6, <4>1, <4>3, MapSame
      <4> QED
        BY <4>2, <4>3
    <3>2. ASSUME NEW v \in Workers, pc'[v] = "block"
          PROVE  TopDone(job[v].row, col[v])'
      BY <1>1, <1>5, <3>2 DEF Busy, Mapped, TopDone, Others, TileDone
    <3>3. (ReconFailed => \E v \in Workers : corrupted[v])'
      BY <1>1 DEF Busy, Mapped, ReconFailed, TileDone
    <3>4. \A x \in recon' : TopDone(x[1], x[2])'
      BY <1>1 DEF Busy, Mapped, TopDone, TileDone
    <3> QED
      BY <3>1, <3>2, <3>3, <3>4 DEF Mapped
  <2>8. RowsCounted'
    <3>1. ASSUME NEW q \in Rows, NEW u \in Tiles PROVE Checked(q, u)' <=> Checked(q, u)
      <4>1. CASE q = r /\ u = t
        BY <1>2, <2>2, <2>3, <4>1 DEF Checked
      <4>2. CASE ~(q = r /\ u = t)
        BY <1>1, <2>3, <2>6, <4>2, CheckedSame
      <4> QED
        BY <4>1, <4>2
    <3>2. ReconFailed => ReconFailed'
      BY DEF ReconFailed, TileDone
    <3> QED
      BY <1>1, <3>1, <3>2, RowsCountedSame DEF Busy, TileDone
  <2>9. \A x \in Rows : LpfOf(x)'
    <3>1. {pc[w], pc'[w]} \cap {"qlpf", "qlast"} = {}
      BY <1>2, <1>5
    <3> QED
      BY <1>1, <1>7, <1>12, <3>1, KeepLpf DEF Busy, TileDone
  <2>10. \A v \in waiting' : Asleep(v)'
    <3>1. w \notin waiting
      BY <1>1, <1>2 DEF Busy, Asleep
    <3> QED
      BY <1>1, <1>5, <3>1, KeepAsleep DEF Busy, TileDone
  <2> QED
    BY <1>6, <1>7, <1>9, <1>10, <2>4, <2>5, <2>7, <2>8, <2>9, <2>10 DEF Busy
<1> QED
  BY <1>1, <1>2, <1>11, <1>12 DEF Suits

-----------------------------------------------------------------------------
(* The queue: waiting for a job, leaving, ending the frame.                *)

LEMMA IdleKeeps ==
  ASSUME Running, NEW w \in Workers, Others(w), pc[w] \notin Working,
         pc'[w] \notin Working,
         UNCHANGED <<jobs, rd, tilesDone, syncVars, mainVars, histVars, corrupted>>
  PROVE  /\ \A v \in Workers : Suits(v)'
         /\ OneEach' /\ InOrder' /\ Parsed' /\ TilesCounted' /\ Mapped' /\ RowsCounted'
         /\ \A r \in Rows : LpfOf(r)'
<1> USE DEF syncVars, mainVars, histVars
<1>1. TypeOK /\ Busy /\ QueueType /\ PlaceType /\ FlagType /\ OneEach
  BY DEF Running, TypeOK, Busy
<1>2. Queued' = Queued /\ Taken' = Taken
  BY DEF Queued, Taken
<1>3. \A k : Same(k) /\ Alike(k)
  BY <1>2, Untouched, SameAlike DEF On
<1>4. ReconFailed' <=> ReconFailed
  BY DEF ReconFailed
<1>5. \A v \in Workers : Suits(v)'
  <2>1. Suits(w)'
    BY DEF Suits, Working, ParsePlaces, ReconPlaces, MarkPlaces, LpfPlaces
  <2> QED
    BY <1>1, <2>1, KeepSuits DEF Busy
<1>6. OneEach'
  <2>1. \A v \in Workers : pc'[v] \in Working => pc[v] \in Working /\ job'[v] = job[v]
    BY DEF Others
  <2> QED
    BY <1>1, <1>2, <2>1 DEF OneEach
<1>7. InOrder'
  BY <1>1, <1>4 DEF Busy, InOrder, Before
<1>8. Parsed'
  BY <1>1, <1>2, <1>3, ParsedSame DEF Busy
<1>9. TilesCounted'
  <2>1. \A t \in Tiles : Counted(t)' <=> Counted(t)
    BY <1>2, <1>3, CountedAlike, AlikeLeft
  <2> QED
    BY <1>1, <2>1, CountedSame DEF Busy
<1>10. Mapped'
  <2>1. ASSUME NEW r \in Rows, NEW t \in Tiles PROVE MapOf(r, t)'
    BY <1>1, <1>3, MapSame DEF Busy, Mapped
  <2>2. ASSUME NEW v \in Workers, pc'[v] = "block"
        PROVE  TopDone(job[v].row, col[v])'
    BY <1>1, <2>2 DEF Busy, Mapped, TopDone, Others, Working, ReconPlaces
  <2>3. (ReconFailed => \E v \in Workers : corrupted[v])'
    BY <1>1, <1>4 DEF Busy, Mapped
  <2>4. \A x \in recon' : TopDone(x[1], x[2])'
    BY <1>1 DEF Busy, Mapped, TopDone
  <2> QED
    BY <2>1, <2>2, <2>3, <2>4 DEF Mapped
<1>11. RowsCounted'
  BY <1>1, <1>3, <1>4, CheckedSame, RowsCountedSame DEF Busy
<1>12. ASSUME NEW r \in Rows PROVE LpfOf(r)'
  <2>1. ~Promises(w, r) /\ ~Promises(w, r)'
    BY DEF Promises, Working, ReconPlaces, MarkPlaces
  <2>2. \A v \in Workers : Promises(v, r)' <=> Promises(v, r)
    BY <2>1, OthersPromise
  <2>3. RowBelow(r)' = RowBelow(r)
    BY DEF RowBelow
  <2> QED
    BY <1>1, <1>2, <1>3, <2>2, <2>3, LpfSame DEF Busy
<1> QED
  BY <1>5, <1>6, <1>7, <1>8, <1>9, <1>10, <1>11, <1>12

LEMMA TerminateInv ==
  ASSUME Running, NEW w \in Workers, Terminate(w)
  PROVE  TypeOK' /\ Busy'
<1> USE DEF syncVars, mainVars, histVars
<1>1. TypeOK /\ Busy /\ PlaceType
  BY DEF Running, TypeOK, Busy
<1>2. /\ Others(w) /\ pc'[w] = "dequeue" /\ pc[w] = "terminate"
      /\ pc' \in [Workers -> Places] /\ job' \in [Workers -> AllJobs]
      /\ col' \in [Workers -> Nat]
  BY <1>1, GoToIs DEF Terminate, Places
<1>3. waiting' \subseteq waiting /\ terminate' = TRUE /\ waiting' = waiting \ QueueWaiters
  BY DEF Terminate, WakeAll
<1>4. TypeOK'
  BY <1>1, <1>2, <1>3 DEF TypeOK, QueueType, SyncType, PlaceType, FlagType, HistoryType,
       Terminate
<1>5. /\ \A v \in Workers : Suits(v)'
      /\ OneEach' /\ InOrder' /\ Parsed' /\ TilesCounted' /\ Mapped' /\ RowsCounted'
      /\ \A r \in Rows : LpfOf(r)'
  <2>1. pc[w] \notin Working /\ pc'[w] \notin Working
    BY <1>2 DEF Working, ParsePlaces, ReconPlaces, MarkPlaces, LpfPlaces
  <2> QED
    BY <1>2, <2>1, IdleKeeps DEF Terminate
<1>6. ASSUME NEW v \in waiting' PROVE Asleep(v)'
  <2>1. v \in Workers /\ Asleep(v) /\ pc[v] # "qwait" /\ v # w
    BY <1>1, <1>2, <1>3 DEF PlaceType, QueueWaiters, Busy, Asleep
  <2>2. pc'[v] = pc[v] /\ job'[v] = job[v] /\ col'[v] = col[v]
    BY <1>2, <2>1 DEF Others
  <2> QED
    BY <2>1, <2>2 DEF Asleep, TopDone, AboveDone, Terminate
<1>7. Served'
  BY <1>2, <1>3 DEF Served
<1> QED
  BY <1>4, <1>5, <1>6, <1>7 DEF Busy

LEMMA LeaveInv ==
  ASSUME Running, NEW w \in Workers, NEW p \in {"done", "qwait"}, GoTo(w, p),
         pc[w] = "dequeue" \/ Woken(w, "qwait"),
         ~(rd < Len(jobs)), rd' = rd,
         \/ p = "done" /\ waiting' = waiting
         \/ p = "qwait" /\ ~terminate /\ waiting' = waiting \cup {w},
         UNCHANGED <<jobs, terminate, tilesDone, syncVars, mainVars, histVars,
                     corrupted>>
  PROVE  TypeOK' /\ Busy'
<1> USE DEF syncVars, mainVars, histVars
<1>1. TypeOK /\ Busy /\ PlaceType
  BY DEF Running, TypeOK, Busy
<1>2. pc[w] \in {"dequeue", "qwait"} /\ w \notin waiting
  BY <1>1 DEF Woken, Busy, Asleep
<1>3. /\ Others(w) /\ pc'[w] = p
      /\ pc' \in [Workers -> Places] /\ job' \in [Workers -> AllJobs]
      /\ col' \in [Workers -> Nat]
  BY <1>1, GoToIs DEF Places
<1>4. waiting' \subseteq waiting \cup {w} /\ waiting' \subseteq Workers
  BY <1>1 DEF PlaceType
<1>5. TypeOK'
  BY <1>1, <1>3, <1>4 DEF TypeOK, QueueType, SyncType, PlaceType, FlagType, HistoryType
<1>6. /\ \A v \in Workers : Suits(v)'
      /\ OneEach' /\ InOrder' /\ Parsed' /\ TilesCounted' /\ Mapped' /\ RowsCounted'
      /\ \A r \in Rows : LpfOf(r)'
  <2>1. pc[w] \notin Working /\ pc'[w] \notin Working
    BY <1>2, <1>3 DEF Working, ParsePlaces, ReconPlaces, MarkPlaces, LpfPlaces
  <2> QED
    BY <1>3, <2>1, IdleKeeps
<1>7. \A v \in waiting' : Asleep(v)'
  <2>1. w \in waiting' => Asleep(w)'
    BY <1>2, <1>3 DEF Asleep
  <2> QED
    BY <1>1, <1>3, <1>4, <2>1, KeepAsleep DEF Busy
<1>8. Served'
  <2>1. \A v \in Workers : pc[v] = "terminate" => pc'[v] = "terminate"
    BY <1>2, <1>3 DEF Others
  <2> QED
    BY <1>1, <2>1 DEF Busy, Served
<1> QED
  BY <1>5, <1>6, <1>7, <1>8 DEF Busy

LEMMA TakeInv ==
  ASSUME Running, NEW w \in Workers, TakeJob(w), rd < Len(jobs),
         pc[w] = "dequeue" \/ Woken(w, "qwait"),
         UNCHANGED <<jobs, terminate, tilesDone, syncVars, mainVars, histVars,
                     corrupted>>
  PROVE  TypeOK' /\ Busy'
<1> USE DEF syncVars, mainVars, histVars
<1>1. TypeOK /\ Busy /\ QueueType /\ PlaceType /\ FlagType /\ OneEach
  BY DEF Running, TypeOK, Busy
<1>2. pc[w] \in {"dequeue", "qwait"} /\ w \notin waiting
  BY <1>1 DEF Woken, Busy, Asleep
<1> PICK j : j = jobs[rd + 1]
  OBVIOUS
<1>3. /\ Queued' = Queued /\ Taken' = Taken \cup {j} /\ j \in Queued /\ j \notin Taken
      /\ rd' = rd + 1
  BY <1>1, QueueTake DEF TakeJob
<1>4. j \in AllJobs /\ j.row \in Rows /\ j.tile \in Tiles /\ j.type \in {"parse", "recon", "lpf"}
  BY <1>1, <1>3, QueuedJobs, JobKinds
<1>5. j.tile * TileCols \in TileSbs(j.tile) /\ j.tile * TileCols \in Nat /\ 0 \in Cols
  BY <1>4, TileInside DEF Cols
<1>6. Start(j) \in {"parse", "recon", "read"} /\ FirstCol(j) \in Nat
  BY <1>4, <1>5 DEF Start, FirstCol
<1>7. /\ Others(w) /\ pc'[w] = Start(j) /\ job'[w] = j /\ col'[w] = FirstCol(j)
      /\ pc' \in [Workers -> Places] /\ job' \in [Workers -> AllJobs]
      /\ col' \in [Workers -> Nat] /\ waiting' = waiting
  BY <1>1, <1>4, <1>6 DEF TakeJob, PlaceType, Others, Places, Working, ParsePlaces,
       ReconPlaces, LpfPlaces
<1>8. pc[w] \notin Working /\ pc'[w] \in Working
  BY <1>2, <1>6, <1>7 DEF Working, ParsePlaces, ReconPlaces, MarkPlaces, LpfPlaces
<1>9. TypeOK'
  <2>1. QueueType'
    BY <1>1, <1>3 DEF QueueType
  <2> QED
    BY <1>1, <1>7, <2>1 DEF TypeOK, SyncType, PlaceType, FlagType, HistoryType
<1>10. /\ \A k : k # j => Same(k) /\ Alike(k)
       /\ \A v \in Workers : ~On(v, j)
       /\ \A v \in Workers : On(v, j)' <=> v = w
       /\ ~Left(j) /\ ~Left(j)'
  <2>1. \A k : k # j => Same(k)
    BY <1>3, <1>7, <1>8, Untouched DEF On
  <2>2. \A v \in Workers : ~On(v, j)
    BY <1>1, <1>3 DEF OneEach, On
  <2>3. \A v \in Workers : On(v, j)' <=> v = w
    BY <1>7, <1>8, <2>2 DEF On, Others
  <2> QED
    BY <1>3, <2>1, <2>2, <2>3, SameAlike DEF Left
<1>11. \A v \in Workers : Suits(v)'
  <2>1. Suits(w)'
    BY <1>4, <1>5, <1>7 DEF Suits, Start, FirstCol, ParsePlaces, ReconPlaces, MarkPlaces,
         LpfPlaces
  <2> QED
    BY <1>1, <1>7, <2>1, KeepSuits DEF Busy
<1>12. OneEach'
  <2>1. \A v \in Workers : v # w => pc'[v] = pc[v] /\ job'[v] = job[v]
    BY <1>7 DEF Others
  <2>2. \A v \in Workers : v # w /\ pc'[v] \in Working => job'[v] \in Taken
    BY <1>1, <2>1 DEF OneEach
  <2>3. \A v \in Workers : pc'[v] \in Working => job'[v] \in Taken'
    BY <1>3, <1>7, <2>2
  <2>4. \A u, v \in Workers : /\ pc'[u] \in Working /\ pc'[v] \in Working
                              /\ job'[u] = job'[v]
                              => u = v
    BY <1>1, <1>3, <1>7, <2>1, <2>2 DEF OneEach
  <2> QED
    BY <1>1, <2>3, <2>4 DEF OneEach
<1>13. InOrder'
  BY <1>1 DEF Busy, InOrder, Before, ReconFailed
<1>14. Parsed'
  <2>1. ASSUME NEW q \in Rows, NEW u \in Tiles PROVE ParsedTo(q, u)'
    <3>1. ParsedTo(q, u)
      BY <1>1 DEF Busy, Parsed
    <3>2. CASE ParseJob(q, u) = j
      <4>1. ReconJob(q, u) \notin Queued
        BY <1>3, <3>1, <3>2 DEF ParsedTo
      <4>2. pc'[w] = "parse"
        BY <1>7, <3>2, JobFacts DEF Start
      <4> QED
        BY <1>3, <1>10, <3>1, <3>2, <4>1, <4>2 DEF ParsedTo
    <3>3. CASE ParseJob(q, u) # j
      <4>1. Same(ParseJob(q, u)) /\ (Left(ParseJob(q, u))' <=> Left(ParseJob(q, u)))
        BY <1>10, <3>3, AlikeLeft
      <4> QED
        BY <1>3, <3>1, <4>1 DEF ParsedTo, Same, Alike
    <3> QED
      BY <3>2, <3>3
  <2> QED
    BY <1>1, <1>3, <2>1 DEF Busy, Parsed
<1>15. \A k : Left(k)' <=> Left(k)
  BY <1>10, AlikeLeft
<1>16. TilesCounted'
  <2>1. \A t \in Tiles : Counted(t)' <=> Counted(t)
    BY <1>3, <1>15 DEF Counted
  <2> QED
    BY <1>1, <2>1, CountedSame DEF Busy
<1>17. Mapped'
  <2>1. ASSUME NEW r \in Rows, NEW t \in Tiles PROVE MapOf(r, t)'
    <3>1. MapOf(r, t)
      BY <1>1 DEF Busy, Mapped
    <3>2. CASE ReconJob(r, t) = j
      <4>1. pc'[w] = "recon" /\ col'[w] = t * TileCols /\ t * TileCols \in Nat
        BY <1>5, <1>7, <3>2, JobFacts DEF Start, FirstCol
      <4>2. \A c \in TileSbs(t) : ~(c < t * TileCols)
        BY <4>1 DEF TileSbs
      <4>3. pc'[w] \notin MarkPlaces /\ pc'[w] # "tiledone"
        BY <4>1 DEF MarkPlaces
      <4>4. \A c \in TileSbs(t) : <<r, c>> \notin reconMap' /\ <<r, c>> \notin recon'
        BY <1>3, <3>1, <3>2 DEF MapOf
      <4> QED
        BY <1>3, <1>10, <3>2, <4>1, <4>2, <4>3, <4>4 DEF MapOf
    <3>3. CASE ReconJob(r, t) # j
      BY <1>10, <3>1, <3>3, MapSame
    <3> QED
      BY <3>2, <3>3
  <2>2. ASSUME NEW v \in Workers, pc'[v] = "block"
        PROVE  TopDone(job[v].row, col[v])'
    BY <1>1, <1>6, <1>7, <2>2 DEF Busy, Mapped, TopDone, Others
  <2>3. (ReconFailed => \E v \in Workers : corrupted[v])'
    BY <1>1 DEF Busy, Mapped, ReconFailed
  <2>4. \A x \in recon' : TopDone(x[1], x[2])'
    BY <1>1 DEF Busy, Mapped, TopDone
  <2> QED
    BY <2>1, <2>2, <2>3, <2>4 DEF Mapped
<1>18. RowsCounted'
  <2>1. ASSUME NEW r \in Rows, NEW t \in Tiles PROVE Checked(r, t)' <=> Checked(r, t)
    <3>1. CASE ReconJob(r, t) = j
      BY <1>6, <1>7, <1>10, <3>1 DEF Checked
    <3>2. CASE ReconJob(r, t) # j
      BY <1>1, <1>10, <3>2, CheckedSame
    <3> QED
      BY <3>1, <3>2
  <2>2. ReconFailed => ReconFailed'
    BY DEF ReconFailed
  <2> QED
    BY <1>1, <2>1, <2>2, RowsCountedSame DEF Busy
<1>19. ASSUME NEW r \in Rows PROVE LpfOf(r)'
  <2>1. ~Promises(w, r) /\ ~Promises(w, r)'
    BY <1>2, <1>6, <1>7 DEF Promises
  <2>2. \A v \in Workers : Promises(v, r)' <=> Promises(v, r)
    BY <1>7, <2>1, OthersPromise
  <2>3. RowBelow(r)' = RowBelow(r) /\ LpfOf(r)
    BY <1>1 DEF RowBelow, Busy
  <2>4. CASE LpfJob(r) = j
    <3>1. filtered'[r] = 0 /\ col'[w] = 0
      <4>1. j.type = "lpf"
        BY <1>4, <2>4, JobFacts
      <4> QED
        BY <1>3, <1>7, <2>3, <2>4, <4>1 DEF LpfOf, FirstCol
    <3> QED
      BY <1>3, <1>10, <2>2, <2>3, <2>4, <3>1 DEF LpfOf
  <2>5. CASE LpfJob(r) # j
    BY <1>3, <1>10, <2>2, <2>3, <2>5, LpfSame
  <2> QED
    BY <2>4, <2>5
<1>20. \A v \in waiting' : Asleep(v)'
  BY <1>1, <1>2, <1>7, KeepAsleep DEF Busy
<1>21. Served'
  <2>1. pc'[w] # "done" /\ pc'[w] # "qwait"
    BY <1>6, <1>7
  <2>2. \A v \in Workers : pc[v] = "terminate" => pc'[v] = "terminate"
    BY <1>2, <1>7 DEF Others
  <2> QED
    BY <1>1, <2>1, <2>2 DEF Busy, Served
<1> QED
  BY <1>9, <1>11, <1>12, <1>13, <1>14, <1>16, <1>17, <1>18, <1>19, <1>20, <1>21 DEF Busy

LEMMA DequeueInv ==
  ASSUME Running, NEW w \in Workers, Dequeue(w)
  PROVE  TypeOK' /\ Busy'
<1>1. QueueType /\ OneEach /\ Len(jobs) <= Capacity
  BY Room DEF Running, TypeOK, Busy
<1>2. CASE pc[w] = "dequeue" /\ rd = Capacity
  <2>1. ~(rd < Len(jobs))
    BY <1>1, <1>2 DEF QueueType
  <2> QED
    BY <1>2, <2>1, LeaveInv DEF Dequeue
<1>3. CASE MayTake /\ TakeJob(w)
  BY <1>3, TakeInv DEF Dequeue, MayTake
<1>4. CASE /\ ~MayTake /\ terminate
           /\ GoTo(w, "done") /\ UNCHANGED <<rd, waiting>>
  BY <1>4, LeaveInv DEF Dequeue, MayTake
<1>5. CASE /\ ~MayTake /\ ~terminate
           /\ waiting' = waiting \cup {w} /\ GoTo(w, "qwait")
           /\ UNCHANGED rd
  BY <1>5, LeaveInv DEF Dequeue, MayTake
<1> QED
  BY <1>2, <1>3, <1>4, <1>5 DEF Dequeue

-----------------------------------------------------------------------------
(* Reconstruction.                                                         *)

\* What a step of a reconstruction does not reach.
LEMMA ReconKeeps ==
  ASSUME Running, NEW w \in Workers, NEW S, Works(w, S), NEW r \in Rows,
         NEW t \in Tiles, job[w] = ReconJob(r, t), \A k \in S : k.type = "lpf",
         pc'[w] \notin {"done", "qwait"}, pc'[w] \in Working \/ r # NumRows - 1,
         Suits(w)', tilesDone' = tilesDone, terminate' = terminate, filter' = filter,
         \A v \in Workers : corrupted[v] => corrupted'[v],
         \A v \in Workers \ {w} : corrupted'[v] = corrupted[v]
  PROVE  Parsed' /\ TilesCounted' /\ Served' /\ \A v \in Workers : Suits(v)'
<1>1. /\ QueueType /\ PlaceType /\ OneEach /\ Parsed /\ TilesCounted /\ Served
      /\ \A v \in Workers : Suits(v)
  BY DEF Running, TypeOK, Busy
<1>2. job[w].type = "recon" /\ job[w].row = r /\ Others(w) /\ pc[w] \in Working
  BY JobFacts DEF Works
<1>3. Parsed'
  BY <1>1, <1>2, KeepParsed
<1>4. TilesCounted'
  BY <1>1, <1>2, KeepTiles
<1>5. Served'
  BY <1>1, <1>2, KeepServed
<1>6. \A v \in Workers : Suits(v)'
  BY <1>1, <1>2, KeepSuits
<1> QED
  BY <1>3, <1>4, <1>5, <1>6

\* A step that reaches the map only in row r of tile t.
LEMMA ReconMapped ==
  ASSUME Running, NEW w \in Workers, NEW S, Works(w, S), NEW r \in Rows,
         NEW t \in Tiles, job[w] = ReconJob(r, t), MapOf(r, t)',
         reconMap \subseteq reconMap', reconMap' \subseteq reconMap \cup ({r} \X TileSbs(t)),
         recon \subseteq recon', recon' \subseteq recon \cup ({r} \X TileSbs(t)),
         pc'[w] = "block" => TopDone(job[w].row, col[w])',
         \A p \in recon' \ recon : TopDone(p[1], p[2]),
         ReconFailed' => \E v \in Workers : corrupted'[v]
  PROVE  Mapped'
<1>1. QueueType /\ PlaceType /\ OneEach /\ Mapped
  BY DEF Running, TypeOK, Busy
<1>2. ASSUME NEW q \in Rows, NEW u \in Tiles, ~(q = r /\ u = t) PROVE MapOf(q, u)'
  <2>1. ReconJob(q, u) # ReconJob(r, t)
    BY <1>2, JobFacts
  <2>2. Same(ReconJob(q, u)) /\ MapOf(q, u)
    BY <1>1, <2>1, WorkTouches DEF Mapped
  <2>3. \A c \in TileSbs(u) : <<q, c>> \notin {r} \X TileSbs(t)
    BY <1>2, TilesApart
  <2>4. \A c \in TileSbs(u) : /\ <<q, c>> \in reconMap' <=> <<q, c>> \in reconMap
                              /\ <<q, c>> \in recon' <=> <<q, c>> \in recon
    BY <2>3
  <2> QED
    BY <2>2, <2>4, MapSame
<1>3. \A q \in Rows, u \in Tiles : MapOf(q, u)'
  BY <1>2
<1>4. \A q, c : TopDone(q, c) => TopDone(q, c)'
  BY TopStays
<1>5. ASSUME NEW v \in Workers, pc'[v] = "block" PROVE TopDone(job[v].row, col[v])'
  <2>1. CASE v = w
    BY <1>5, <2>1
  <2>2. CASE v # w
    <3>1. pc'[v] = pc[v] /\ job'[v] = job[v] /\ col'[v] = col[v]
      BY <2>2 DEF Works, Others
    <3>2. TopDone(job[v].row, col[v])
      BY <1>1, <1>5, <3>1 DEF Mapped
    <3> QED
      BY <3>1, <3>2 DEF TopDone
  <2> QED
    BY <2>1, <2>2
<1>6. \A p \in recon' : TopDone(p[1], p[2])'
  BY <1>1, <1>4 DEF Mapped
<1> QED
  BY <1>3, <1>5, <1>6 DEF Mapped

\* At most one worker waits for row r of tile t, and it is signalled when that row
\* moves on.
LEMMA MapSignal ==
  ASSUME Running, NEW w \in Workers, Others(w), NEW r \in Rows, NEW t \in Tiles,
         w \notin waiting, Signal(MapWaiters(r, t)),
         reconMap' \subseteq reconMap \cup ({r} \X TileSbs(t)),
         terminate' = terminate, curSbCol' = curSbCol
  PROVE  \A v \in waiting' : Asleep(v)'
<1> SUFFICES ASSUME NEW v \in waiting' PROVE Asleep(v)'
  OBVIOUS
<1>1. PlaceType /\ OneEach /\ waiting' \subseteq waiting
  BY SignalIs DEF Running, TypeOK, Busy
<1>2. v \in Workers /\ v \in waiting /\ v # w /\ Asleep(v) /\ Suits(v)
  BY <1>1 DEF PlaceType, Running, Busy
<1>3. pc'[v] = pc[v] /\ job'[v] = job[v] /\ col'[v] = col[v]
  BY <1>2 DEF Others
<1>4. CASE pc[v] # "mwait"
  BY <1>2, <1>3, <1>4 DEF Asleep, AboveDone
<1>5. CASE pc[v] = "mwait"
  <2> PICK q \in Rows, u \in Tiles : job[v] = ReconJob(q, u)
    BY <1>1, <1>2, <1>5, JobOf DEF ReconPlaces
  <2>1. job[v].row = q /\ job[v].tile = u /\ col[v] \in TileSbs(u)
    BY <1>2, <1>5, JobFacts DEF Suits, ReconPlaces
  <2>2. q # 0 /\ <<q - 1, col[v]>> \notin reconMap
    BY <1>2, <1>5, <2>1 DEF Asleep, TopDone
  <2>3. ASSUME <<q - 1, col[v]>> \in reconMap' PROVE FALSE
    <3>1. q - 1 = r /\ col[v] \in TileSbs(t)
      BY <2>2, <2>3
    <3>2. u = t /\ q = r + 1
      BY <2>1, <3>1, TilesApart DEF Rows
    <3>3. v \in MapWaiters(r, t)
      BY <1>2, <1>5, <2>1, <3>2 DEF MapWaiters
    <3>4. ASSUME NEW x \in MapWaiters(r, t) PROVE x = v
      <4>1. x \in Workers /\ pc[x] = "mwait" /\ job[x].row = q /\ job[x].tile = u
        BY <1>1, <3>2, <3>4 DEF MapWaiters, PlaceType
      <4>2. Suits(x)
        BY <4>1 DEF Running, Busy
      <4>3. job[x] = ReconJob(q, u)
        BY <1>1, <4>1, <4>2, JobOf DEF ReconPlaces
      <4> QED
        BY <1>1, <1>2, <1>5, <4>1, <4>3 DEF OneEach, Working, ReconPlaces
    <3>5. MapWaiters(r, t) = {v}
      BY <3>3, <3>4
    <3> QED
      BY <3>3, <3>5, SignalIs
  <2> QED
    BY <1>3, <1>5, <2>1, <2>2, <2>3 DEF Asleep, TopDone
<1> QED
  BY <1>4, <1>5

LEMMA MapReadInv ==
  ASSUME Running, NEW w \in Workers, MapRead(w)
  PROVE  TypeOK' /\ Busy'
<1> USE DEF Working, Places, ParsePlaces, ReconPlaces, MarkPlaces, LpfPlaces,
            queueVars, syncVars, mainVars, histVars
<1>1. TypeOK /\ Busy /\ QueueType /\ PlaceType /\ FlagType /\ OneEach /\ Suits(w)
  BY DEF Running, TypeOK, Busy
<1>2. pc[w] \in {"recon", "mwait"} /\ w \notin waiting
  BY <1>1 DEF MapRead, Woken, Busy, Asleep
<1>3. PICK r \in Rows, t \in Tiles : job[w] = ReconJob(r, t)
  BY <1>1, <1>2, JobOf
<1>4. /\ job[w].row = r /\ job[w].tile = t /\ job[w].type = "recon"
      /\ On(w, ReconJob(r, t)) /\ col[w] \in TileSbs(t)
  BY <1>1, <1>2, <1>3, JobFacts DEF On, Suits
<1>5. PICK p \in {"block", "mwait"} : p = IF TopDone(r, col[w]) THEN "block" ELSE "mwait"
  OBVIOUS
<1>6. GoTo(w, p) /\ waiting' = IF p = "block" THEN waiting ELSE waiting \cup {w}
  BY <1>4, <1>5 DEF MapRead
<1>7. /\ Others(w) /\ pc'[w] = p /\ job' = job /\ col' = col
      /\ pc' \in [Workers -> Places]
  BY <1>1, <1>6, GoToIs
<1>8. TypeOK'
  BY <1>1, <1>6, <1>7 DEF TypeOK, QueueType, SyncType, PlaceType, FlagType, HistoryType,
       MapRead
<1>9. Works(w, {}) /\ OneEach' /\ InOrder' /\ (ReconFailed' <=> ReconFailed)
  <2>1. ReconFailed' <=> ReconFailed
    BY DEF ReconFailed, MapRead
  <2> QED
    BY <1>1, <1>2, <1>7, <2>1, KeepQueue DEF Busy, MapRead
<1>10. Suits(w)'
  BY <1>1, <1>2, <1>3, <1>7 DEF Suits
<1>11. Parsed' /\ TilesCounted' /\ Served' /\ \A v \in Workers : Suits(v)'
  BY <1>3, <1>7, <1>9, <1>10, ReconKeeps DEF MapRead
<1>12. /\ Alike(ReconJob(r, t)) /\ \A k : k # ReconJob(r, t) => Same(k)
       /\ \A v \in Workers : On(v, ReconJob(r, t)) => v = w
  <2>1. pc'[w] \in Working
    BY <1>7
  <2> QED
    BY <1>1, <1>3, <1>9, <2>1, WorkTouches
<1>13. Mapped'
  <2>1. MapOf(r, t)
    BY <1>1 DEF Busy, Mapped
  <2>2. ~Left(ReconJob(r, t)) /\ ~Left(ReconJob(r, t))'
    BY <1>4, <1>12, AlikeLeft DEF Left
  <2>3. MapOf(r, t)'
    BY <1>2, <1>4, <1>7, <1>12, <2>1, <2>2 DEF MapOf, Alike, MapRead
  <2>4. pc'[w] = "block" => TopDone(job[w].row, col[w])'
    BY <1>4, <1>5, <1>7 DEF TopDone, MapRead
  <2>5. ReconFailed' => \E v \in Workers : corrupted'[v]
    BY <1>1, <1>9 DEF Busy, Mapped, MapRead
  <2> QED
    BY <1>3, <1>9, <2>3, <2>4, <2>5, ReconMapped DEF MapRead
<1>14. RowsCounted'
  <2>1. ASSUME NEW q \in Rows, NEW u \in Tiles PROVE Checked(q, u)' <=> Checked(q, u)
    <3>1. CASE ReconJob(q, u) = ReconJob(r, t)
      BY <1>2, <1>4, <1>7, <1>12, <3>1 DEF Checked, Left, Alike
    <3>2. CASE ReconJob(q, u) # ReconJob(r, t)
      BY <1>1, <1>12, <3>2, CheckedSame
    <3> QED
      BY <3>1, <3>2
  <2> QED
    BY <1>1, <1>9, <2>1, RowsCountedSame DEF Busy, MapRead
<1>15. \A x \in Rows : LpfOf(x)'
  BY <1>1, <1>2, <1>4, <1>7, <1>9, KeepLpf DEF Busy, MapRead
<1>16. \A v \in waiting' : Asleep(v)'
  <2>1. w \in waiting' => Asleep(w)'
    BY <1>2, <1>4, <1>5, <1>6, <1>7 DEF Asleep, TopDone, MapRead
  <2> QED
    BY <1>1, <1>6, <1>7, <2>1, KeepAsleep DEF Busy, MapRead
<1> QED
  BY <1>8, <1>9, <1>11, <1>13, <1>14, <1>15, <1>16 DEF Busy

LEMMA ReconBlockInv ==
  ASSUME Running, NEW w \in Workers, ReconBlock(w)
  PROVE  TypeOK' /\ Busy'
<1> USE DEF Working, Places, ParsePlaces, ReconPlaces, MarkPlaces, LpfPlaces,
            queueVars, syncVars, mainVars, histVars
<1>1. TypeOK /\ Busy /\ QueueType /\ PlaceType /\ FlagType /\ OneEach /\ Suits(w)
  BY DEF Running, TypeOK, Busy
<1>2. pc[w] = "block" /\ w \notin waiting
  BY <1>1 DEF ReconBlock, Busy, Asleep
<1>3. PICK r \in Rows, t \in Tiles : job[w] = ReconJob(r, t)
  BY <1>1, <1>2, JobOf
<1> PICK c : c = col[w]
  OBVIOUS
<1>4. /\ job[w].row = r /\ job[w].tile = t /\ job[w].type = "recon"
      /\ On(w, ReconJob(r, t)) /\ c \in TileSbs(t) /\ c \in Cols /\ c \in Int
  BY <1>1, <1>2, <1>3, JobFacts, TileInside DEF On, Suits, TileSbs
<1>5. PICK p \in {"check", "write"} : p = AfterBlock(w)
  BY DEF AfterBlock
<1>6. GoTo(w, p) /\ recon' = recon \cup {<<r, c>>}
  BY <1>4, <1>5 DEF ReconBlock
<1>7. /\ Others(w) /\ pc'[w] = p /\ job' = job /\ col' = col
      /\ pc' \in [Workers -> Places]
  BY <1>1, <1>6, GoToIs
<1>8. TypeOK'
  BY <1>1, <1>4, <1>6, <1>7 DEF TypeOK, QueueType, SyncType, PlaceType, FlagType,
       HistoryType, ReconBlock
<1>9. MapOf(r, t) /\ <<r, c>> \notin reconMap
  BY <1>1, <1>2, <1>4 DEF Busy, Mapped, MapOf
<1>10. ReconFailed' <=> ReconFailed
  BY <1>6, <1>9 DEF ReconFailed, ReconBlock
<1>11. Works(w, {}) /\ OneEach' /\ InOrder'
  BY <1>1, <1>2, <1>7, <1>10, KeepQueue DEF Busy, ReconBlock
<1>12. Suits(w)'
  BY <1>1, <1>2, <1>3, <1>5, <1>7 DEF Suits, AfterBlock, LastCol, ReconBlock
<1>13. Parsed' /\ TilesCounted' /\ Served' /\ \A v \in Workers : Suits(v)'
  BY <1>3, <1>7, <1>11, <1>12, ReconKeeps DEF ReconBlock
<1>14. /\ Alike(ReconJob(r, t)) /\ \A k : k # ReconJob(r, t) => Same(k)
       /\ \A v \in Workers : On(v, ReconJob(r, t)) => v = w
  <2>1. pc'[w] \in Working
    BY <1>7
  <2> QED
    BY <1>1, <1>3, <1>11, <2>1, WorkTouches
<1>15. Mapped'
  <2>1. ~Left(ReconJob(r, t)) /\ ~Left(ReconJob(r, t))'
    BY <1>4, <1>14, AlikeLeft DEF Left
  <2>2. ReconJob(r, t) \in Taken'
    BY <1>1, <1>2, <1>3, <1>14 DEF OneEach, Alike
  <2>3. \A x \in TileSbs(t) : /\ <<r, x>> \in reconMap <=> x < c
                              /\ <<r, x>> \in recon <=> x < c
    BY <1>2, <1>4, <1>9 DEF MapOf
  <2>4. \A x \in TileSbs(t) : /\ <<r, x>> \in reconMap' <=> x < c
                              /\ <<r, x>> \in recon' <=> x < c \/ x = c
    BY <1>6, <2>3 DEF ReconBlock
  <2>5. MapOf(r, t)'
    BY <1>7, <1>14, <2>1, <2>2, <2>4 DEF MapOf, Alike
  <2>6. \A x \in recon' \ recon : TopDone(x[1], x[2])
    <3>1. TopDone(r, c)
      BY <1>1, <1>2, <1>4 DEF Busy, Mapped
    <3> QED
      BY <1>6, <3>1
  <2>7. ReconFailed' => \E v \in Workers : corrupted'[v]
    BY <1>1, <1>10 DEF Busy, Mapped, ReconBlock
  <2>8. pc'[w] # "block" /\ <<r, c>> \in {r} \X TileSbs(t)
    BY <1>4, <1>7
  <2> QED
    BY <1>3, <1>6, <1>11, <2>5, <2>6, <2>7, <2>8, ReconMapped DEF ReconBlock
<1>16. RowsCounted'
  <2>1. ASSUME filter, NEW q \in Rows, NEW u \in Tiles
        PROVE  Checked(q, u)' <=> Checked(q, u)
    <3>1. CASE ReconJob(q, u) = ReconJob(r, t)
      <4>1. pc'[w] = "write" => ~LastCol(w)'
        BY <1>5, <1>7, <2>1 DEF AfterBlock, LastCol
      <4> QED
        BY <1>2, <1>4, <1>7, <1>14, <3>1, <4>1 DEF Checked, Left, Alike
    <3>2. CASE ReconJob(q, u) # ReconJob(r, t)
      BY <1>1, <1>14, <3>2, CheckedSame
    <3> QED
      BY <3>1, <3>2
  <2> QED
    BY <1>1, <1>10, <2>1, RowsCountedSame DEF Busy, ReconBlock
<1>17. \A x \in Rows : LpfOf(x)'
  BY <1>1, <1>2, <1>4, <1>7, <1>11, KeepLpf DEF Busy, ReconBlock
<1>18. \A v \in waiting' : Asleep(v)'
  BY <1>1, <1>2, <1>7, KeepAsleep DEF Busy, ReconBlock
<1> QED
  BY <1>8, <1>11, <1>13, <1>15, <1>16, <1>17, <1>18 DEF Busy

LEMMA ReconErrorInv ==
  ASSUME Running, NEW w \in Workers, ReconError(w)
  PROVE  TypeOK' /\ Busy'
<1> USE DEF Working, Places, ParsePlaces, ReconPlaces, MarkPlaces, LpfPlaces,
            queueVars, syncVars, mainVars, histVars
<1>1. TypeOK /\ Busy /\ QueueType /\ PlaceType /\ FlagType /\ OneEach /\ Suits(w)
  BY DEF Running, TypeOK, Busy
<1>2. pc[w] = "block" /\ w \notin waiting
  BY <1>1 DEF ReconError, Busy, Asleep
<1>3. PICK r \in Rows, t \in Tiles : job[w] = ReconJob(r, t)
  BY <1>1, <1>2, JobOf
<1> PICK c : c = col[w]
  OBVIOUS
<1>4. /\ job[w].row = r /\ job[w].tile = t /\ job[w].type = "recon"
      /\ On(w, ReconJob(r, t)) /\ c \in TileSbs(t) /\ c \in Int
      /\ TileSbs(t) \subseteq Cols
  BY <1>1, <1>2, <1>3, JobFacts, TileInside DEF On, Suits, TileSbs
<1>5. PICK p \in {"tiledone", "dequeue"} : p = IF r = NumRows - 1 THEN "tiledone" ELSE "dequeue"
  OBVIOUS
<1>6. /\ GoTo(w, p) /\ reconMap' = reconMap \cup ({r} \X TileSbs(t))
      /\ Signal(MapWaiters(r, t))
      /\ corrupted' = [corrupted EXCEPT ![w] = TRUE]
  BY <1>4, <1>5 DEF ReconError, RowEnd, LastRow
<1>7. /\ Others(w) /\ pc'[w] = p /\ (p # "dequeue" => job' = job /\ col' = col)
      /\ pc' \in [Workers -> Places] /\ job' \in [Workers -> AllJobs]
      /\ col' \in [Workers -> Nat]
  BY <1>1, <1>6, GoToIs
<1>8. /\ corrupted' \in [Workers -> BOOLEAN] /\ corrupted'[w]
      /\ \A v \in Workers : corrupted[v] => corrupted'[v]
      /\ \A v \in Workers \ {w} : corrupted'[v] = corrupted[v]
  BY <1>1, <1>6 DEF FlagType
<1>9. TypeOK'
  <2>1. waiting' \subseteq waiting
    BY <1>6, SignalIs
  <2>2. reconMap' \subseteq Rows \X Cols
    BY <1>1, <1>4, <1>6 DEF TypeOK, SyncType
  <2> QED
    BY <1>1, <1>7, <1>8, <2>1, <2>2 DEF TypeOK, QueueType, SyncType, PlaceType, FlagType,
         HistoryType, ReconError
<1>10. MapOf(r, t) /\ <<r, c>> \notin recon
  BY <1>1, <1>2, <1>4 DEF Busy, Mapped, MapOf
<1>11. ReconFailed'
  <2>1. <<r, c>> \in reconMap' /\ <<r, c>> \notin recon'
    BY <1>4, <1>6, <1>10 DEF ReconError
  <2> QED
    BY <2>1 DEF ReconFailed
<1>12. Works(w, {}) /\ OneEach' /\ InOrder'
  <2>1. pc'[w] \in Working => job'[w] = job[w]
    BY <1>7
  <2> QED
    BY <1>1, <1>2, <1>7, <1>11, <2>1, KeepQueue DEF Busy, ReconError
<1>13. Suits(w)'
  BY <1>3, <1>4, <1>5, <1>7 DEF Suits, LastRow
<1>14. Parsed' /\ TilesCounted' /\ Served' /\ \A v \in Workers : Suits(v)'
  <2>1. pc'[w] \in Working \/ r # NumRows - 1
    BY <1>5, <1>7
  <2>2. pc'[w] \notin {"done", "qwait"} /\ UNCHANGED <<tilesDone, terminate, filter>>
    BY <1>7 DEF ReconError
  <2> QED
    BY <1>3, <1>8, <1>12, <1>13, <2>1, <2>2, ReconKeeps
<1>15. Mapped'
  <2>1. \A x \in TileSbs(t) : <<r, x>> \in reconMap'
    BY <1>6
  <2>2. ReconJob(r, t) \in Taken' /\ \A v \in Workers : On(v, ReconJob(r, t))' => v = w
    <3>1. ReconJob(r, t) \in Taken
      BY <1>1, <1>2, <1>3 DEF OneEach
    <3>2. /\ pc'[w] \in Working => \A v \in Workers : On(v, ReconJob(r, t))' => v = w
          /\ pc'[w] \notin Working => \A v \in Workers : ~On(v, ReconJob(r, t))'
      BY <1>1, <1>3, <1>12, WorkTouches
    <3> HIDE DEF Working
    <3> QED
      BY <1>12, <3>1, <3>2 DEF Works
  <2>3. \A v \in Workers : On(v, ReconJob(r, t))' => pc'[v] = "tiledone"
    BY <1>7, <2>2 DEF On
  <2>4. MapOf(r, t)'
    BY <2>1, <2>2, <2>3 DEF MapOf
  <2>5. pc'[w] # "block"
    BY <1>7
  <2> QED
    BY <1>3, <1>6, <1>8, <1>12, <2>4, <2>5, ReconMapped DEF ReconError
<1>16. RowsCounted'
  BY <1>1, <1>11, RowsCountedSame DEF Busy, ReconError
<1>17. \A x \in Rows : LpfOf(x)'
  BY <1>1, <1>2, <1>4, <1>7, <1>12, KeepLpf DEF Busy, ReconError
<1>18. \A v \in waiting' : Asleep(v)'
  BY <1>2, <1>6, <1>7, MapSignal DEF ReconError
<1> QED
  BY <1>9, <1>12, <1>14, <1>15, <1>16, <1>17, <1>18 DEF Busy

LEMMA MapWriteInv ==
  ASSUME Running, NEW w \in Workers, MapWrite(w)
  PROVE  TypeOK' /\ Busy'
<1> USE DEF Working, Places, ParsePlaces, ReconPlaces, MarkPlaces, LpfPlaces,
            queueVars, syncVars, mainVars, histVars
<1>1. TypeOK /\ Busy /\ QueueType /\ PlaceType /\ FlagType /\ OneEach /\ Suits(w)
  BY DEF Running, TypeOK, Busy
<1>2. pc[w] = "write" /\ w \notin waiting
  BY <1>1 DEF MapWrite, Busy, Asleep
<1>3. PICK r \in Rows, t \in Tiles : job[w] = ReconJob(r, t)
  BY <1>1, <1>2, JobOf
<1> PICK c : c = col[w]
  OBVIOUS
<1>4. /\ job[w].row = r /\ job[w].tile = t /\ job[w].type = "recon"
      /\ On(w, ReconJob(r, t)) /\ c \in TileSbs(t) /\ c \in Nat
      /\ TileSbs(t) \subseteq Cols
  BY <1>1, <1>2, <1>3, JobFacts, TileInside DEF On, Suits, TileSbs, PlaceType
<1> PICK e : e = (t + 1) * TileCols
  OBVIOUS
<1>5. /\ e \in Int /\ c < e /\ (LastCol(w) <=> c + 1 = e)
      /\ \A x \in TileSbs(t) : x \in Int /\ x < e
      /\ c + 1 # e => c + 1 \in TileSbs(t)
  <2>1. e \in Int /\ t * TileCols \in Int
    BY TileInside DEF TileSbs
  <2> QED
    BY <1>4, <2>1 DEF TileSbs, LastCol
<1>6. PICK p \in {"tiledone", "dequeue", "recon"} :
        p = IF c + 1 # e THEN "recon" ELSE IF r = NumRows - 1 THEN "tiledone" ELSE "dequeue"
  OBVIOUS
<1>7. /\ reconMap' = reconMap \cup {<<r, c>>} /\ Signal(MapWaiters(r, t))
      /\ IF c + 1 = e THEN GoTo(w, p) ELSE NextCol(w, "recon")
  BY <1>4, <1>5, <1>6 DEF MapWrite, RowEnd, LastRow
<1>8. /\ Others(w) /\ pc'[w] = p /\ (p # "dequeue" => job' = job)
      /\ pc' \in [Workers -> Places] /\ job' \in [Workers -> AllJobs]
      /\ col' \in [Workers -> Nat]
      /\ p = "recon" => col'[w] = c + 1
  BY <1>1, <1>6, <1>7, GoToIs, NextColIs
<1>9. TypeOK'
  <2>1. waiting' \subseteq waiting
    BY <1>7, SignalIs
  <2>2. reconMap' \subseteq Rows \X Cols
    BY <1>1, <1>4, <1>7 DEF TypeOK, SyncType
  <2> QED
    BY <1>1, <1>8, <2>1, <2>2 DEF TypeOK, QueueType, SyncType, PlaceType, FlagType,
         HistoryType, MapWrite
<1>10. \A x \in TileSbs(t) : /\ <<r, x>> \in reconMap <=> x < c
                             /\ <<r, x>> \in recon <=> x < c \/ x = c
  BY <1>1, <1>2, <1>4 DEF Busy, Mapped, MapOf
<1>11. ReconFailed' <=> ReconFailed
  <2>1. <<r, c>> \in recon
    BY <1>4, <1>10
  <2> QED
    BY <1>7, <2>1 DEF ReconFailed, MapWrite
<1>12. Works(w, {}) /\ OneEach' /\ InOrder'
  <2>1. pc'[w] \in Working => job'[w] = job[w]
    BY <1>8
  <2> QED
    BY <1>1, <1>2, <1>8, <1>11, <2>1, KeepQueue DEF Busy, MapWrite
<1>13. Suits(w)'
  BY <1>3, <1>4, <1>5, <1>6, <1>8 DEF Suits, LastRow
<1>14. Parsed' /\ TilesCounted' /\ Served' /\ \A v \in Workers : Suits(v)'
  BY <1>3, <1>6, <1>8, <1>12, <1>13, ReconKeeps DEF MapWrite
<1>15. /\ ReconJob(r, t) \in Taken' /\ \A k : k # ReconJob(r, t) => Same(k)
       /\ \A v \in Workers : On(v, ReconJob(r, t)) => v = w
       /\ \A v \in Workers : On(v, ReconJob(r, t))' => v = w
       /\ p # "dequeue" => On(w, ReconJob(r, t))'
  <2>1. ReconJob(r, t) \in Taken
    BY <1>1, <1>2, <1>3 DEF OneEach
  <2>2. /\ \A k : k # ReconJob(r, t) => Same(k)
        /\ \A v \in Workers : On(v, ReconJob(r, t)) => v = w
        /\ pc'[w] \in Working => \A v \in Workers : On(v, ReconJob(r, t))' => v = w
        /\ pc'[w] \notin Working => \A v \in Workers : ~On(v, ReconJob(r, t))'
    BY <1>1, <1>3, <1>12, WorkTouches
  <2>3. p # "dequeue" => On(w, ReconJob(r, t))'
    BY <1>3, <1>8 DEF On
  <2> HIDE DEF Working
  <2> QED
    BY <1>12, <2>1, <2>2, <2>3 DEF Works
<1>16. Mapped'
  <2>1. \A x \in TileSbs(t) : /\ <<r, x>> \in reconMap' <=> x < c + 1
                              /\ <<r, x>> \in recon' <=> x < c + 1
    BY <1>4, <1>5, <1>7, <1>10 DEF MapWrite
  <2>2. MapOf(r, t)'
    <3>1. CASE p = "recon"
      <4>1. pc'[w] \notin MarkPlaces /\ pc'[w] # "tiledone" /\ col'[w] = c + 1
        BY <1>8, <3>1
      <4>2. ~Left(ReconJob(r, t))'
        BY <1>15, <3>1 DEF Left
      <4> QED
        BY <1>15, <2>1, <4>1, <4>2 DEF MapOf
    <3>2. CASE p # "recon"
      <4>1. \A x \in TileSbs(t) : <<r, x>> \in reconMap'
        BY <1>4, <1>5, <1>6, <2>1, <3>2
      <4>2. \A v \in Workers : On(v, ReconJob(r, t))' => pc'[v] = "tiledone"
        BY <1>8, <1>15, <3>2 DEF On
      <4> QED
        BY <1>15, <4>1, <4>2 DEF MapOf
    <3> QED
      BY <3>1, <3>2
  <2>3. ReconFailed' => \E v \in Workers : corrupted'[v]
    BY <1>1, <1>11 DEF Busy, Mapped, MapWrite
  <2>4. pc'[w] # "block" /\ <<r, c>> \in {r} \X TileSbs(t)
    BY <1>4, <1>8
  <2> QED
    BY <1>3, <1>7, <1>12, <2>2, <2>3, <2>4, ReconMapped DEF MapWrite
<1>17. RowsCounted'
  <2>1. ASSUME NEW q \in Rows, NEW u \in Tiles PROVE Checked(q, u)' <=> Checked(q, u)
    <3>1. CASE ReconJob(q, u) = ReconJob(r, t)
      <4>1. CASE c + 1 = e
        <5>1. Checked(r, t)
          BY <1>2, <1>4, <1>5, <4>1 DEF Checked
        <5>2. Checked(r, t)'
          <6>1. CASE p = "dequeue"
            BY <1>8, <1>15, <6>1 DEF Checked, Left, On
          <6>2. CASE p = "tiledone"
            BY <1>8, <1>15, <6>2 DEF Checked
          <6> QED
            BY <1>6, <4>1, <6>1, <6>2
        <5>3. q = r /\ u = t
          BY <3>1, JobFacts
        <5> QED
          BY <5>1, <5>2, <5>3
      <4>2. CASE c + 1 # e
        <5>1. ~Left(ReconJob(r, t)) /\ ~Left(ReconJob(r, t))'
          BY <1>4, <1>6, <1>15, <4>2 DEF Left
        <5> QED
          BY <1>2, <1>5, <1>6, <1>8, <1>15, <3>1, <4>2, <5>1 DEF Checked
      <4> QED
        BY <4>1, <4>2
    <3>2. CASE ReconJob(q, u) # ReconJob(r, t)
      BY <1>1, <1>15, <3>2, CheckedSame
    <3> QED
      BY <3>1, <3>2
  <2> QED
    BY <1>1, <1>11, <2>1, RowsCountedSame DEF Busy, MapWrite
<1>18. \A x \in Rows : LpfOf(x)'
  BY <1>1, <1>2, <1>4, <1>8, <1>12, KeepLpf DEF Busy, MapWrite
<1>19. \A v \in waiting' : Asleep(v)'
  <2>1. reconMap' \subseteq reconMap \cup ({r} \X TileSbs(t))
    BY <1>4, <1>7
  <2> QED
    BY <1>2, <1>7, <1>8, <2>1, MapSignal DEF MapWrite
<1> QED
  BY <1>9, <1>12, <1>14, <1>16, <1>17, <1>18, <1>19 DEF Busy

-----------------------------------------------------------------------------
(* The count of the tiles of a row, and the filtering of the row above.    *)

LEMMA TilesFinite ==
  IsFiniteSet(Tiles) /\ Cardinality(Tiles) = NumTiles
<1>1. IsFiniteSet(0 .. 0 + NumTiles - 1) /\ Cardinality(0 .. 0 + NumTiles - 1) = NumTiles
  BY Interval
<1>2. Tiles = 0 .. 0 + NumTiles - 1
  BY DEF Tiles
<1> QED
  BY <1>1, <1>2

\* The row is full when every tile of it is counted, and only then.
LEMMA RowIsFull ==
  ASSUME RowsCounted, SyncType, FlagType, ~ReconFailed, NEW r \in Rows
  PROVE  rowTiles[r] >= NumTiles <=> filter /\ \A t \in Tiles : Checked(r, t)
<1> DEFINE S == {t \in Tiles : Checked(r, t)}
<1>1. CASE ~filter
  BY <1>1 DEF RowsCounted
<1>2. CASE filter
  <2>1. rowTiles[r] = Cardinality(S)
    BY <1>2 DEF RowsCounted
  <2>2. S \subseteq Tiles
    OBVIOUS
  <2>3. S = Tiles <=> \A t \in Tiles : Checked(r, t)
    OBVIOUS
  <2> HIDE DEF S
  <2>4. /\ IsFiniteSet(S) /\ Cardinality(S) <= Cardinality(Tiles)
        /\ Cardinality(S) = Cardinality(Tiles) => S = Tiles
    BY <2>2, TilesFinite, FS_Subset
  <2>5. Cardinality(S) \in Nat
    BY <2>4, FS_CardinalityType
  <2>6. rowTiles[r] >= NumTiles <=> S = Tiles
    BY <2>1, <2>4, <2>5, TilesFinite
  <2> QED
    BY <1>2, <2>3, <2>6
<1> QED
  BY <1>1, <1>2

\* A tile that is counted in a row is reconstructed in it, and counted in the row
\* above, whose reconstruction is over.
LEMMA CheckedRow ==
  ASSUME Running, ~ReconFailed, NEW r \in Rows, NEW t \in Tiles, Checked(r, t)
  PROVE  /\ \A c \in TileSbs(t) : <<r, c>> \in recon
         /\ r > 0 => /\ Checked(r - 1, t)
                     /\ \A v \in Workers : On(v, ReconJob(r - 1, t)) => pc[v] = "tiledone"
<1>1. PlaceType /\ Mapped /\ reconMap \subseteq recon
  BY DEF Running, TypeOK, Busy, ReconFailed
<1>2. MapOf(r, t)
  BY <1>1 DEF Mapped
<1> PICK e : e = (t + 1) * TileCols - 1
  OBVIOUS
<1>3. e \in TileSbs(t) /\ \A c \in TileSbs(t) : c \in Int /\ c <= e
  BY TileInside DEF TileSbs
<1>4. ASSUME NEW c \in TileSbs(t) PROVE <<r, c>> \in recon
  <2>1. CASE Left(ReconJob(r, t))
    BY <1>1, <1>2, <2>1 DEF MapOf
  <2>2. CASE \E w \in Workers : /\ On(w, ReconJob(r, t))
                                /\ \/ pc[w] = "tiledone"
                                   \/ pc[w] \in {"qlpf", "qlast", "write"} /\ LastCol(w)
    <3>1. PICK w \in Workers : /\ On(w, ReconJob(r, t))
                               /\ \/ pc[w] = "tiledone"
                                  \/ pc[w] \in {"qlpf", "qlast", "write"} /\ LastCol(w)
      BY <2>2
    <3>2. CASE pc[w] = "tiledone"
      BY <1>1, <1>2, <3>1, <3>2 DEF MapOf
    <3>3. CASE pc[w] \in {"qlpf", "qlast", "write"} /\ LastCol(w)
      <4>1. job[w].tile = t /\ col[w] \in Nat
        BY <1>1, <3>1, JobFacts DEF On, PlaceType
      <4>2. col[w] = e
        BY <1>3, <3>3, <4>1, TileInside DEF LastCol
      <4>3. c < col[w] \/ c = col[w]
        BY <1>3, <4>2
      <4> QED
        BY <1>2, <3>1, <3>3, <4>3 DEF MapOf, MarkPlaces
    <3> QED
      BY <3>1, <3>2, <3>3
  <2> QED
    BY <2>1, <2>2 DEF Checked
<1>5. ASSUME r > 0
      PROVE  /\ Checked(r - 1, t)
             /\ \A v \in Workers : On(v, ReconJob(r - 1, t)) => pc[v] = "tiledone"
  <2>1. r - 1 \in Rows
    BY <1>5 DEF Rows
  <2>2. <<r - 1, e>> \in reconMap
    <3>1. <<r, e>> \in recon
      BY <1>3, <1>4
    <3>2. TopDone(r, e)
      BY <1>1, <3>1 DEF Mapped
    <3> QED
      BY <1>5, <3>2 DEF TopDone
  <2>3. MapOf(r - 1, t)
    BY <1>1, <2>1 DEF Mapped
  <2>4. ReconJob(r - 1, t) \in Taken
    BY <1>3, <2>2, <2>3 DEF MapOf
  <2>5. ASSUME NEW v \in Workers, On(v, ReconJob(r - 1, t)), pc[v] # "tiledone"
        PROVE  FALSE
    <3>1. Suits(v) /\ job[v] = ReconJob(r - 1, t) /\ pc[v] \in Working
      BY <2>5 DEF Running, Busy, On
    <3>2. job[v].tile = t /\ job[v].type = "recon"
      BY <2>1, <3>1, JobFacts
    <3>3. col[v] \in TileSbs(t)
      BY <2>5, <3>1, <3>2 DEF Suits, Working, ParsePlaces, LpfPlaces
    <3>4. e < col[v]
      BY <1>3, <2>2, <2>3, <2>5 DEF MapOf
    <3>5. col[v] \in Int /\ e \in Int /\ col[v] <= e
      BY <1>3, <3>3
    <3> QED
      BY <3>4, <3>5
  <2> QED
    BY <2>4, <2>5 DEF Checked, Left
<1> QED
  BY <1>4, <1>5

LEMMA LpfOrder ==
  ASSUME Running, NEW w \in Workers, NEW r \in Rows, r > 0, ~ReconFailed,
         \/ pc[w] = "qlpf" /\ job[w].row = r + 1 /\ r + 1 \in Rows
         \/ pc[w] = "qlast" /\ job[w].row = r /\ r = NumRows - 1
  PROVE  LpfJob(r - 1) \in Queued
<1>1. /\ PlaceType /\ SyncType /\ FlagType /\ RowsCounted
      /\ \A q \in Rows : LpfOf(q)
  BY DEF Running, TypeOK, Busy
<1>2. r - 1 \in Rows /\ RowBelow(r - 1) = r /\ r \in Nat
  BY DEF Rows, RowBelow
<1>3. LpfOf(r) /\ LpfOf(r - 1) /\ Promises(w, r)
  BY <1>1, <1>2 DEF Promises
<1>4. rowTiles[RowBelow(r)] >= NumTiles /\ RowBelow(r) \in Rows
  BY <1>3 DEF LpfOf, RowBelow, Rows
<1>5. CASE pc[w] = "qlpf" /\ job[w].row = r + 1 /\ r + 1 \in Rows
  <2>1. RowBelow(r) = r + 1 /\ (r + 1) - 1 = r /\ r + 1 > 0
    BY <1>5 DEF RowBelow, Rows
  <2>2. filter /\ \A t \in Tiles : Checked(r + 1, t)
    BY <1>1, <1>4, <2>1, RowIsFull
  <2>3. ASSUME NEW t \in Tiles
        PROVE  /\ Checked(r, t)
               /\ \A v \in Workers : On(v, ReconJob(r, t)) => pc[v] = "tiledone"
    BY <1>5, <2>1, <2>2, CheckedRow
  <2>4. rowTiles[r] >= NumTiles
    BY <1>1, <2>2, <2>3, RowIsFull
  <2>5. ASSUME NEW v \in Workers, Promises(v, r - 1) PROVE FALSE
    <3>1. pc[v] = "qlpf" /\ job[v].row = r
      BY <1>2, <1>5, <2>5 DEF Promises, Rows
    <3>2. Suits(v)
      BY DEF Running, Busy
    <3>3. PICK t \in Tiles : job[v] = ReconJob(r, t)
      BY <1>1, <3>1, <3>2, JobOf DEF ReconPlaces, MarkPlaces
    <3> QED
      BY <2>3, <3>1, <3>3 DEF On, Working, ReconPlaces, MarkPlaces
  <2> QED
    BY <1>2, <1>3, <2>4, <2>5 DEF LpfOf
<1>6. CASE pc[w] = "qlast" /\ job[w].row = r /\ r = NumRows - 1
  <2>1. rowTiles[r] >= NumTiles
    BY <1>4, <1>6 DEF RowBelow
  <2>2. ASSUME NEW v \in Workers, Promises(v, r - 1) PROVE FALSE
    <3>1. pc[v] = "qlpf" /\ job[v].row = r
      BY <1>2, <1>6, <2>2 DEF Promises, Rows
    <3>2. Promises(v, r)
      BY <1>6, <3>1 DEF Promises
    <3>3. v = w
      BY <1>3, <3>2 DEF LpfOf
    <3> QED
      BY <1>6, <3>1, <3>3
  <2> QED
    BY <1>2, <1>3, <2>1, <2>2 DEF LpfOf
<1> QED
  BY <1>5, <1>6

\* A tile is counted in a row that was not.
LEMMA RowCountedMore ==
  ASSUME RowsCounted, SyncType, FlagType, filter, filter' = filter, NEW r \in Rows,
         NEW t \in Tiles, rowTiles' = [rowTiles EXCEPT ![r] = @ + 1],
         ReconFailed => ReconFailed', ~Checked(r, t), Checked(r, t)',
         \A q \in Rows, u \in Tiles : ~(q = r /\ u = t) => (Checked(q, u)' <=> Checked(q, u))
  PROVE  RowsCounted'
<1> SUFFICES ASSUME ~ReconFailed', NEW q \in Rows
             PROVE  rowTiles'[q] = Cardinality({u \in Tiles : Checked(q, u)'})
  BY DEF RowsCounted
<1>1. rowTiles[q] = Cardinality({u \in Tiles : Checked(q, u)})
  BY DEF RowsCounted
<1>2. CASE q # r
  <2>1. {u \in Tiles : Checked(q, u)'} = {u \in Tiles : Checked(q, u)}
    BY <1>2
  <2>2. rowTiles'[q] = rowTiles[q]
    BY <1>2 DEF SyncType
  <2> QED
    BY <1>1, <2>1, <2>2
<1>3. CASE q = r
  <2> DEFINE S == {u \in Tiles : Checked(r, u)}
  <2>1. {u \in Tiles : Checked(r, u)'} = S \cup {t}
    OBVIOUS
  <2>2. S \subseteq Tiles /\ t \notin S /\ rowTiles[r] = Cardinality(S)
    BY <1>1, <1>3
  <2> HIDE DEF S
  <2>3. IsFiniteSet(S)
    BY <2>2, TilesFinite, FS_Subset
  <2>4. Cardinality(S \cup {t}) = Cardinality(S) + 1
    BY <2>2, <2>3, FS_AddElement
  <2>5. rowTiles'[r] = rowTiles[r] + 1
    BY DEF SyncType
  <2> QED
    BY <1>3, <2>1, <2>2, <2>4, <2>5
<1> QED
  BY <1>2, <1>3

\* A step between the last superblock of a row and its mark.
LEMMA MarkMapped ==
  ASSUME Running, NEW w \in Workers, NEW S, Works(w, S), NEW r \in Rows,
         NEW t \in Tiles, job[w] = ReconJob(r, t), pc[w] \in MarkPlaces,
         pc'[w] \in MarkPlaces, job' = job, col' = col,
         reconMap' = reconMap, recon' = recon, corrupted' = corrupted
  PROVE  Mapped'
<1> USE DEF Working, Places, ParsePlaces, ReconPlaces, MarkPlaces, LpfPlaces
<1>1. QueueType /\ PlaceType /\ OneEach /\ Mapped
  BY DEF Running, TypeOK, Busy
<1>2. On(w, ReconJob(r, t)) /\ MapOf(r, t)
  BY <1>1 DEF On, Mapped
<1>3. /\ Alike(ReconJob(r, t))
      /\ \A v \in Workers : On(v, ReconJob(r, t)) => v = w
  BY <1>1, WorkTouches
<1>4. ~Left(ReconJob(r, t)) /\ ~Left(ReconJob(r, t))'
  BY <1>2, <1>3, AlikeLeft DEF Left
<1>5. \A v \in Workers : On(v, ReconJob(r, t))' => v = w
  BY <1>3 DEF Alike
<1>6. ReconJob(r, t) \in Taken'
  BY <1>1, <1>2, <1>3 DEF OneEach, On, Alike
<1>7. \A c \in TileSbs(t) :
         /\ <<r, c>> \in reconMap <=> c < col[w]
         /\ <<r, c>> \in recon <=> c < col[w] \/ c = col[w]
  BY <1>2 DEF MapOf
<1>8. MapOf(r, t)'
  BY <1>4, <1>5, <1>6, <1>7 DEF MapOf
<1>9. ReconFailed' => \E v \in Workers : corrupted'[v]
  BY <1>1 DEF Mapped, ReconFailed
<1> QED
  BY <1>8, <1>9, ReconMapped

LEMMA LpfMapWriteCheckInv ==
  ASSUME Running, NEW w \in Workers, LpfMapWriteCheck(w)
  PROVE  TypeOK' /\ Busy'
<1> USE DEF Working, Places, ParsePlaces, ReconPlaces, MarkPlaces, LpfPlaces,
            queueVars, syncVars, mainVars, histVars
<1>1. /\ TypeOK /\ Busy /\ QueueType /\ PlaceType /\ FlagType /\ SyncType
      /\ OneEach /\ Suits(w)
  BY DEF Running, TypeOK, Busy
<1>2. pc[w] = "check" /\ w \notin waiting
  BY <1>1 DEF LpfMapWriteCheck, Busy, Asleep
<1>3. PICK r \in Rows, t \in Tiles : job[w] = ReconJob(r, t)
  BY <1>1, <1>2, JobOf
<1>4. /\ job[w].row = r /\ job[w].tile = t /\ job[w].type = "recon"
      /\ On(w, ReconJob(r, t)) /\ LastCol(w) /\ filter
  BY <1>1, <1>2, <1>3, JobFacts DEF On, Suits
<1>5. PICK p \in {"write", "qlpf", "qlast"} :
        p = IF rowTiles[r] + 1 # NumTiles THEN "write"
            ELSE IF r > 0 THEN "qlpf"
            ELSE IF r = NumRows - 1 THEN "qlast" ELSE "write"
  OBVIOUS
<1>6. GoTo(w, p) /\ rowTiles' = [rowTiles EXCEPT ![r] = @ + 1]
  BY <1>4, <1>5 DEF LpfMapWriteCheck, RowComplete, LastRow
<1>7. /\ Others(w) /\ pc'[w] = p /\ job' = job /\ col' = col
      /\ pc' \in [Workers -> Places]
  BY <1>1, <1>6, GoToIs
<1>8. TypeOK'
  <2>1. rowTiles' \in [Rows -> Nat]
    BY <1>1, <1>6 DEF SyncType
  <2> QED
    BY <1>1, <1>7, <2>1 DEF TypeOK, QueueType, SyncType, PlaceType, FlagType,
         HistoryType, LpfMapWriteCheck
<1>9. ReconFailed' <=> ReconFailed
  BY DEF ReconFailed, LpfMapWriteCheck
<1>10. Works(w, {}) /\ OneEach' /\ InOrder'
  BY <1>1, <1>2, <1>7, <1>9, KeepQueue DEF Busy, LpfMapWriteCheck
<1>11. Suits(w)'
  BY <1>1, <1>2, <1>3, <1>4, <1>5, <1>7 DEF Suits, LastCol, LastRow, LpfMapWriteCheck
<1>12. Parsed' /\ TilesCounted' /\ Served' /\ \A v \in Workers : Suits(v)'
  BY <1>3, <1>7, <1>10, <1>11, ReconKeeps DEF LpfMapWriteCheck
<1>13. /\ Alike(ReconJob(r, t)) /\ \A k : k # ReconJob(r, t) => Same(k)
       /\ \A v \in Workers : On(v, ReconJob(r, t)) => v = w
  <2>1. pc'[w] \in Working
    BY <1>7
  <2> QED
    BY <1>1, <1>3, <1>10, <2>1, WorkTouches
<1>14. Mapped'
  BY <1>2, <1>3, <1>7, <1>10, MarkMapped DEF LpfMapWriteCheck
<1>15. RowsCounted'
  <2>1. ~Checked(r, t)
    BY <1>2, <1>4, <1>13 DEF Checked, Left
  <2>2. Checked(r, t)'
    <3>1. On(w, ReconJob(r, t))' /\ LastCol(w)'
      BY <1>3, <1>4, <1>7 DEF On, LastCol
    <3> QED
      BY <1>7, <3>1 DEF Checked
  <2>3. ASSUME NEW q \in Rows, NEW u \in Tiles, ~(q = r /\ u = t)
        PROVE  Checked(q, u)' <=> Checked(q, u)
    <3>1. ReconJob(q, u) # ReconJob(r, t)
      BY <2>3, JobFacts
    <3> QED
      BY <1>1, <1>13, <3>1, CheckedSame
  <2> QED
    BY <1>1, <1>4, <1>6, <1>9, <2>1, <2>2, <2>3, RowCountedMore DEF Busy, LpfMapWriteCheck
<1>16. ASSUME NEW q \in Rows PROVE LpfOf(q)'
  <2>1. LpfOf(q) /\ RowBelow(q) \in Rows /\ RowBelow(q)' = RowBelow(q) /\ rowTiles[r] \in Nat
    BY <1>1 DEF Busy, RowBelow, Rows, SyncType
  <2>2. LpfJob(q) # ReconJob(r, t)
    BY JobFacts
  <2>3. Same(LpfJob(q)) /\ (LpfJob(q) \in Queued' <=> LpfJob(q) \in Queued)
    BY <1>10, <1>13, <2>2 DEF Works
  <2>4. ~Promises(w, q)
    BY <1>2 DEF Promises
  <2>5. \A v \in Workers \ {w} : Promises(v, q)' <=> Promises(v, q)
    BY <1>7, OthersPromise
  <2>6. filtered'[q] = filtered[q] /\ curSbCol'[q] = curSbCol[q]
    BY DEF LpfMapWriteCheck
  <2>7. Promises(w, q)' <=> rowTiles[r] + 1 = NumTiles /\ RowBelow(q) = r
    BY <1>4, <1>5, <1>7 DEF Promises, RowBelow, Rows
  <2>8. CASE rowTiles[r] + 1 = NumTiles /\ RowBelow(q) = r
    <3>1. /\ ~(rowTiles[RowBelow(q)] >= NumTiles)
          /\ rowTiles'[RowBelow(q)] >= NumTiles
      BY <1>1, <1>6, <2>1, <2>8 DEF SyncType
    <3>2. LpfJob(q) \notin Queued /\ \A v \in Workers : ~Promises(v, q)
      BY <2>1, <3>1 DEF LpfOf
    <3>3. \A v \in Workers : Promises(v, q)' <=> v = w
      BY <2>5, <2>7, <2>8, <3>2
    <3>4. Left(LpfJob(q))' <=> Left(LpfJob(q))
      BY <2>3, AlikeLeft, SameAlike
    <3> QED
      BY <2>1, <2>3, <2>6, <3>1, <3>2, <3>3, <3>4 DEF LpfOf, Same, Alike
  <2>9. CASE ~(rowTiles[r] + 1 = NumTiles /\ RowBelow(q) = r)
    <3>1. \A v \in Workers : Promises(v, q)' <=> Promises(v, q)
      BY <2>4, <2>5, <2>7, <2>9
    <3>2. rowTiles'[RowBelow(q)] >= NumTiles <=> rowTiles[RowBelow(q)] >= NumTiles
      BY <1>1, <1>6, <2>1, <2>9 DEF SyncType
    <3> QED
      BY <2>1, <2>3, <2>6, <3>1, <3>2, LpfSame
  <2> QED
    BY <2>8, <2>9
<1>17. \A v \in waiting' : Asleep(v)'
  BY <1>1, <1>2, <1>7, KeepAsleep DEF Busy, LpfMapWriteCheck
<1> QED
  BY <1>8, <1>10, <1>12, <1>14, <1>15, <1>16, <1>17 DEF Busy

\* Queueing the filtering of row q, which was promised.
LEMMA QueueFilterInv ==
  ASSUME Running, NEW w \in Workers, NEW r \in Rows, NEW q \in Rows,
         NEW p \in {"write", "qlast"},
         pc[w] \in {"qlpf", "qlast"}, job[w].row = r,
         Enqueue(LpfJob(q)), GoTo(w, p),
         \/ pc[w] = "qlpf" /\ r = q + 1 /\ (p = "qlast" <=> r = NumRows - 1)
         \/ pc[w] = "qlast" /\ r = q /\ p = "write",
         UNCHANGED <<syncVars, mainVars, histVars, corrupted>>
  PROVE  TypeOK' /\ Busy'
<1> USE DEF Working, Places, ParsePlaces, ReconPlaces, MarkPlaces, LpfPlaces,
            syncVars, mainVars, histVars
<1>1. /\ TypeOK /\ Busy /\ QueueType /\ PlaceType /\ FlagType /\ SyncType
      /\ OneEach /\ Suits(w)
  BY DEF Running, TypeOK, Busy
<1>2. w \notin waiting
  BY <1>1 DEF Busy, Asleep
<1>3. PICK t \in Tiles : job[w] = ReconJob(r, t)
  BY <1>1, JobOf
<1>4. /\ job[w].type = "recon" /\ On(w, ReconJob(r, t)) /\ LastCol(w) /\ filter
      /\ pc[w] = "qlast" => r = NumRows - 1
  BY <1>1, <1>3, JobFacts DEF On, Suits, LastRow
<1>5. LpfOf(q) /\ Promises(w, q)
  BY <1>1, <1>4 DEF Busy, Promises
<1>6. LpfJob(q) \in AllJobs /\ LpfJob(q) \notin Queued /\ LpfJob(q).type = "lpf"
  BY <1>3, <1>5, JobFacts DEF LpfOf
<1>7. /\ jobs' = Append(jobs, LpfJob(q)) /\ rd' = rd /\ QueueType'
      /\ terminate' = terminate /\ tilesDone' = tilesDone
      /\ waiting' \subseteq waiting
  BY <1>1, <1>6, EnqueueIs
<1>8. /\ Others(w) /\ pc'[w] = p /\ job' = job /\ col' = col
      /\ pc' \in [Workers -> Places]
  BY <1>1, GoToIs
<1>9. TypeOK'
  BY <1>1, <1>7, <1>8 DEF TypeOK, SyncType, PlaceType, FlagType, HistoryType
<1>10. ReconFailed' <=> ReconFailed
  BY DEF ReconFailed
<1>11. Works(w, {LpfJob(q)}) /\ OneEach' /\ InOrder'
  <2>1. ASSUME NEW x \in Rows, x > 0
        PROVE  /\ \A u \in Tiles : LpfJob(q) = ReconJob(x, u) => ReconJob(x - 1, u) \in Queued
               /\ LpfJob(q) = LpfJob(x) => LpfJob(x - 1) \in Queued \/ ReconFailed
    <3>1. \A u \in Tiles : LpfJob(q) # ReconJob(x, u)
      BY <1>6, JobFacts
    <3>2. LpfJob(q) = LpfJob(x) => x = q
      BY <1>3, JobFacts
    <3>3. ASSUME x = q, ~ReconFailed PROVE LpfJob(q - 1) \in Queued
      <4>1. \/ pc[w] = "qlpf" /\ job[w].row = q + 1 /\ q + 1 \in Rows
            \/ pc[w] = "qlast" /\ job[w].row = q /\ q = NumRows - 1
        BY <1>4
      <4> QED
        BY <2>1, <3>3, <4>1, LpfOrder
    <3> QED
      BY <3>1, <3>2, <3>3
  <2>2. pc[w] \in Working /\ job'[w] = job[w]
    BY <1>8
  <2> QED
    BY <1>1, <1>6, <1>7, <1>8, <1>10, <2>1, <2>2, AddToQueue DEF Busy
<1>12. Suits(w)'
  BY <1>1, <1>3, <1>4, <1>8 DEF Suits, LastCol, LastRow
<1>13. Parsed' /\ TilesCounted' /\ Served' /\ \A v \in Workers : Suits(v)'
  BY <1>3, <1>6, <1>7, <1>8, <1>11, <1>12, ReconKeeps
<1>14. /\ Alike(ReconJob(r, t)) /\ \A k : k # ReconJob(r, t) => Same(k)
       /\ \A v \in Workers : On(v, ReconJob(r, t)) => v = w
  <2>1. pc'[w] \in Working
    BY <1>8
  <2> QED
    BY <1>1, <1>3, <1>11, <2>1, WorkTouches
<1>15. Mapped'
  BY <1>3, <1>8, <1>11, MarkMapped
<1>16. RowsCounted'
  <2>1. ASSUME NEW y \in Rows, NEW u \in Tiles PROVE Checked(y, u)' <=> Checked(y, u)
    <3>1. CASE ReconJob(y, u) = ReconJob(r, t)
      <4>1. Checked(r, t)
        BY <1>4 DEF Checked
      <4>2. On(w, ReconJob(r, t))' /\ LastCol(w)'
        BY <1>3, <1>4, <1>8 DEF On, LastCol
      <4>3. Checked(r, t)'
        BY <1>8, <4>2 DEF Checked
      <4>4. y = r /\ u = t
        BY <3>1, JobFacts
      <4> QED
        BY <4>1, <4>3, <4>4
    <3>2. CASE ReconJob(y, u) # ReconJob(r, t)
      BY <1>1, <1>14, <3>2, CheckedSame
    <3> QED
      BY <3>1, <3>2
  <2> QED
    BY <1>1, <1>10, <2>1, RowsCountedSame DEF Busy
<1>17. ASSUME NEW x \in Rows PROVE LpfOf(x)'
  <2>1. LpfOf(x) /\ RowBelow(x)' = RowBelow(x)
    BY <1>1 DEF Busy, RowBelow
  <2>2. LpfJob(x) # ReconJob(r, t) /\ (LpfJob(x) = LpfJob(q) => x = q)
    BY <1>3, JobFacts
  <2>3. Same(LpfJob(x))
    BY <1>14, <2>2
  <2>4. Left(LpfJob(x))' <=> Left(LpfJob(x))
    BY <2>3, AlikeLeft, SameAlike
  <2>5. Queued' = Queued \cup {LpfJob(q)}
    BY <1>11 DEF Works
  <2>6. \A v \in Workers \ {w} : Promises(v, x)' <=> Promises(v, x)
    BY <1>8, OthersPromise
  <2>7. CASE x = q
    <3>1. ~Promises(w, q)'
      BY <1>4, <1>8 DEF Promises, Rows
    <3>2. \A v \in Workers : ~Promises(v, q)'
      BY <1>5, <2>6, <2>7, <3>1 DEF LpfOf
    <3>3. rowTiles[RowBelow(q)] >= NumTiles
      BY <1>5 DEF LpfOf
    <3>4. LpfJob(q) \in Queued'
      BY <2>5
    <3> QED
      BY <2>1, <2>3, <2>4, <2>7, <3>2, <3>3, <3>4 DEF LpfOf, Same, Alike
  <2>8. CASE x # q
    <3>1. Promises(w, x)' <=> Promises(w, x)
      BY <1>4, <1>8, <2>8 DEF Promises, Rows
    <3>2. \A v \in Workers : Promises(v, x)' <=> Promises(v, x)
      BY <2>6, <3>1
    <3>3. LpfJob(x) \in Queued' <=> LpfJob(x) \in Queued
      BY <2>2, <2>5, <2>8
    <3> QED
      BY <2>1, <2>3, <3>2, <3>3, LpfSame
  <2> QED
    BY <2>7, <2>8
<1>18. \A v \in waiting' : Asleep(v)'
  BY <1>1, <1>2, <1>7, <1>8, KeepAsleep DEF Busy
<1> QED
  BY <1>9, <1>11, <1>13, <1>15, <1>16, <1>17, <1>18 DEF Busy

LEMMA QueueLpfInv ==
  ASSUME Running, NEW w \in Workers, QueueLpf(w)
  PROVE  TypeOK' /\ Busy'
<1>1. PlaceType /\ Suits(w) /\ pc[w] = "qlpf"
  BY DEF Running, TypeOK, Busy, QueueLpf
<1> PICK r : r = job[w].row
  OBVIOUS
<1>2. r \in Rows /\ r > 0
  BY <1>1, JobOf DEF Suits
<1>3. r - 1 \in Rows /\ r = (r - 1) + 1
  BY <1>2 DEF Rows
<1>4. PICK p \in {"write", "qlast"} : p = IF r = NumRows - 1 THEN "qlast" ELSE "write"
  OBVIOUS
<1>5. GoTo(w, p) /\ Enqueue(LpfJob(r - 1)) /\ (p = "qlast" <=> r = NumRows - 1)
  BY <1>4 DEF QueueLpf, LastRow, LpfRow
<1> QED
  BY <1>1, <1>2, <1>3, <1>5, QueueFilterInv DEF QueueLpf

LEMMA QueueLastLpfInv ==
  ASSUME Running, NEW w \in Workers, QueueLastLpf(w)
  PROVE  TypeOK' /\ Busy'
<1>1. PlaceType /\ Suits(w) /\ pc[w] = "qlast"
  BY DEF Running, TypeOK, Busy, QueueLastLpf
<1> PICK r : r = job[w].row
  OBVIOUS
<1>2. r \in Rows /\ GoTo(w, "write") /\ Enqueue(LpfJob(r))
  BY <1>1, JobOf DEF QueueLastLpf
<1> QED
  BY <1>1, <1>2, QueueFilterInv DEF QueueLastLpf

-----------------------------------------------------------------------------
(* Filtering.                                                              *)

\* What a step of a filter job of row r does not reach.
LEMMA FilterKeeps ==
  ASSUME Running, NEW w \in Workers, Works(w, {}), NEW r \in Rows,
         job[w] = LpfJob(r), pc[w] \in LpfPlaces,
         pc'[w] \in LpfPlaces \cup {"dequeue"}, Suits(w)',
         UNCHANGED <<tilesDone, terminate, rowTiles, reconMap, mainVars, recon, corrupted>>,
         \A q \in Rows \ {r} : filtered'[q] = filtered[q] /\ curSbCol'[q] = curSbCol[q]
  PROVE  /\ Parsed' /\ TilesCounted' /\ Served' /\ \A v \in Workers : Suits(v)'
         /\ Mapped' /\ RowsCounted'
         /\ \A q \in Rows \ {r} : LpfOf(q)'
         /\ \A v \in Workers : Promises(v, r)' <=> Promises(v, r)
<1> USE DEF mainVars, LpfPlaces
<1>1. /\ QueueType /\ PlaceType /\ OneEach /\ Parsed /\ TilesCounted /\ Served
      /\ Mapped /\ RowsCounted /\ \A v \in Workers : Suits(v)
  BY DEF Running, TypeOK, Busy
<1>2. job[w].type = "lpf" /\ Others(w) /\ pc[w] \in Working
  BY DEF Works, LpfJob
<1>3. Parsed' /\ TilesCounted' /\ Served' /\ Mapped' /\ RowsCounted'
  <2>1. Parsed'
    BY <1>1, <1>2, KeepParsed
  <2>2. TilesCounted'
    BY <1>1, <1>2, KeepTiles
  <2>3. Served'
    BY <1>1, <1>2, KeepServed
  <2>4. Mapped'
    BY <1>1, <1>2, KeepMapped
  <2>5. RowsCounted'
    BY <1>1, <1>2, KeepRows
  <2> QED
    BY <2>1, <2>2, <2>3, <2>4, <2>5
<1>4. \A v \in Workers : Suits(v)'
  BY <1>1, <1>2, KeepSuits
<1>5. ASSUME NEW q \in Rows PROVE \A v \in Workers : Promises(v, q)' <=> Promises(v, q)
  <2>1. ~Promises(w, q) /\ ~Promises(w, q)'
    BY DEF Promises
  <2> QED
    BY <1>2, <2>1, OthersPromise
<1>6. ASSUME NEW q \in Rows \ {r} PROVE LpfOf(q)'
  <2>1. LpfOf(q)
    BY DEF Running, Busy
  <2>2. LpfJob(q) # LpfJob(r)
    BY DEF LpfJob
  <2>3. Same(LpfJob(q))
    BY <1>1, <2>2, WorkTouches
  <2>4. LpfJob(q) \in Queued' <=> LpfJob(q) \in Queued
    BY DEF Works
  <2> QED
    BY <1>5, <2>1, <2>3, <2>4, LpfSame
<1> QED
  BY <1>3, <1>4, <1>5, <1>6

LEMMA SyncReadInv ==
  ASSUME Running, NEW w \in Workers, SyncRead(w)
  PROVE  TypeOK' /\ Busy'
<1> USE DEF Working, Places, ParsePlaces, ReconPlaces, MarkPlaces, LpfPlaces,
            queueVars, syncVars, mainVars, histVars
<1>1. TypeOK /\ Busy /\ QueueType /\ PlaceType /\ FlagType /\ OneEach /\ Suits(w)
  BY DEF Running, TypeOK, Busy
<1>2. pc[w] \in {"read", "wait"} /\ w \notin waiting
  BY <1>1 DEF SyncRead, Woken, Busy, Asleep
<1>3. PICK r \in Rows : job[w] = LpfJob(r) /\ job[w].row = r
  BY <1>1, <1>2, JobOf
<1>4. PICK p \in {"filter", "wait"} :
        /\ GoTo(w, p) /\ waiting' = IF p = "filter" THEN waiting ELSE waiting \cup {w}
        /\ p = "wait" => r # 0 /\ ~AboveDone(r, col[w])
  BY <1>3 DEF SyncRead
<1>5. /\ Others(w) /\ pc'[w] = p /\ job' = job /\ col' = col
      /\ pc' \in [Workers -> Places]
  BY <1>1, <1>4, GoToIs
<1>6. TypeOK'
  BY <1>1, <1>4, <1>5 DEF TypeOK, QueueType, SyncType, PlaceType, FlagType, HistoryType,
       SyncRead
<1>7. Works(w, {}) /\ OneEach' /\ InOrder'
  <2>1. ReconFailed' <=> ReconFailed
    BY DEF ReconFailed, SyncRead
  <2> QED
    BY <1>1, <1>2, <1>5, <2>1, KeepQueue DEF Busy, SyncRead
<1>8. Suits(w)'
  BY <1>1, <1>2, <1>5 DEF Suits
<1>9. /\ Parsed' /\ TilesCounted' /\ Served' /\ \A v \in Workers : Suits(v)'
      /\ Mapped' /\ RowsCounted'
      /\ \A q \in Rows \ {r} : LpfOf(q)'
      /\ \A v \in Workers : Promises(v, r)' <=> Promises(v, r)
  <2>1. pc[w] \in LpfPlaces /\ pc'[w] \in LpfPlaces \cup {"dequeue"}
    BY <1>2, <1>5
  <2> HIDE DEF LpfPlaces
  <2> QED
    BY <1>3, <1>7, <1>8, <2>1, FilterKeeps DEF SyncRead
<1>10. LpfOf(r)'
  <2>1. /\ Alike(LpfJob(r)) /\ \A v \in Workers : On(v, LpfJob(r)) => v = w
    <3>1. pc'[w] \in Working
      BY <1>5
    <3> QED
      BY <1>1, <1>3, <1>7, <3>1, WorkTouches
  <2>2. Left(LpfJob(r))' <=> Left(LpfJob(r))
    BY <2>1, AlikeLeft
  <2>3. LpfOf(r) /\ RowBelow(r)' = RowBelow(r) /\ Queued' = Queued
    BY <1>1, <1>7 DEF Busy, RowBelow, Works
  <2> QED
    BY <1>5, <1>9, <2>1, <2>2, <2>3 DEF LpfOf, Alike, SyncRead
<1>11. \A v \in waiting' : Asleep(v)'
  <2>1. w \in waiting' => Asleep(w)'
    BY <1>2, <1>3, <1>4, <1>5 DEF Asleep, AboveDone, SyncRead, Rows
  <2> QED
    BY <1>1, <1>4, <1>5, <2>1, KeepAsleep DEF Busy, SyncRead
<1> QED
  BY <1>6, <1>7, <1>9, <1>10, <1>11 DEF Busy

\* At most one worker waits for row r, and it is signalled when that row moves on.
LEMMA RowSignal ==
  ASSUME Running, NEW w \in Workers, Others(w), NEW r \in Rows,
         w \notin waiting, Signal(RowWaiters(r)),
         \A q \in Rows \ {r} : curSbCol'[q] = curSbCol[q],
         terminate' = terminate, reconMap' = reconMap
  PROVE  \A v \in waiting' : Asleep(v)'
<1> SUFFICES ASSUME NEW v \in waiting' PROVE Asleep(v)'
  OBVIOUS
<1>1. PlaceType /\ OneEach /\ waiting' \subseteq waiting
  BY SignalIs DEF Running, TypeOK, Busy
<1>2. v \in Workers /\ v \in waiting /\ v # w /\ Asleep(v) /\ Suits(v)
  BY <1>1 DEF PlaceType, Running, Busy
<1>3. pc'[v] = pc[v] /\ job'[v] = job[v] /\ col'[v] = col[v]
  BY <1>2 DEF Others
<1>4. CASE pc[v] # "wait"
  BY <1>2, <1>3, <1>4 DEF Asleep, TopDone
<1>5. CASE pc[v] = "wait"
  <2>1. PICK q \in Rows : job[v] = LpfJob(q) /\ job[v].row = q
    BY <1>1, <1>2, <1>5, JobOf DEF LpfPlaces
  <2>2. q > 0 /\ ~AboveDone(q, col[v]) /\ q - 1 \in Rows
    BY <1>2, <1>5, <2>1 DEF Asleep, Rows
  <2>3. q - 1 # r
    <3> SUFFICES ASSUME q - 1 = r PROVE FALSE
      OBVIOUS
    <3>1. q = r + 1
      BY <2>2 DEF Rows
    <3>2. v \in RowWaiters(r)
      BY <1>2, <1>5, <2>1, <3>1 DEF RowWaiters
    <3>3. ASSUME NEW x \in RowWaiters(r) PROVE x = v
      <4>1. x \in Workers /\ pc[x] = "wait" /\ job[x].row = q
        BY <1>1, <3>1, <3>3 DEF RowWaiters, PlaceType
      <4>2. Suits(x)
        BY <4>1 DEF Running, Busy
      <4>3. job[x] = LpfJob(q)
        BY <1>1, <4>1, <4>2, JobOf DEF LpfPlaces
      <4> QED
        BY <1>1, <1>2, <1>5, <2>1, <4>1, <4>3 DEF OneEach, Working, LpfPlaces
    <3>4. RowWaiters(r) = {v}
      BY <3>2, <3>3
    <3> QED
      BY <3>2, <3>4, SignalIs
  <2> QED
    BY <1>3, <1>5, <2>1, <2>2, <2>3 DEF Asleep, AboveDone
<1> QED
  BY <1>4, <1>5

LEMMA FilterSbInv ==
  ASSUME Running, NEW w \in Workers, FilterSb(w)
  PROVE  TypeOK' /\ Busy'
<1> USE DEF Working, Places, ParsePlaces, ReconPlaces, MarkPlaces, LpfPlaces,
            queueVars, syncVars, mainVars, histVars
<1>1. /\ TypeOK /\ Busy /\ QueueType /\ PlaceType /\ FlagType /\ SyncType /\ HistoryType
      /\ OneEach /\ Suits(w)
  BY DEF Running, TypeOK, Busy
<1>2. pc[w] = "filter" /\ w \notin waiting
  BY <1>1 DEF FilterSb, Busy, Asleep
<1>3. PICK r \in Rows : job[w] = LpfJob(r) /\ job[w].row = r
  BY <1>1, <1>2, JobOf
<1> PICK c : c = col[w]
  OBVIOUS
<1>4. c \in Nat /\ c < NumCols /\ NumCols \in Int /\ On(w, LpfJob(r))
  <2>1. NumCols \in Nat
    BY DEF NumCols
  <2> QED
    BY <1>1, <1>2, <1>3, <2>1 DEF Suits, Cols, On
<1>5. PICK p \in {"dequeue", "read"} : p = IF c = NumCols - 1 THEN "dequeue" ELSE "read"
  OBVIOUS
<1>6. /\ filtered' = [filtered EXCEPT ![r] = @ + 1]
      /\ IF p = "dequeue" THEN GoTo(w, "dequeue") ELSE NextCol(w, "read")
  BY <1>3, <1>5 DEF FilterSb
<1>7. /\ Others(w) /\ pc'[w] = p /\ (p = "read" => job' = job /\ col'[w] = c + 1)
      /\ pc' \in [Workers -> Places] /\ job' \in [Workers -> AllJobs]
      /\ col' \in [Workers -> Nat]
  BY <1>1, <1>6, GoToIs, NextColIs
<1>8. /\ curSbCol' \in [Rows -> Int]
      /\ \A q \in Rows \ {r} : curSbCol'[q] = curSbCol[q]
      /\ c = NumCols - 1 => curSbCol'[r] = NumCols + SyncRange
      /\ \/ Signal(RowWaiters(r))
         \/ curSbCol' = curSbCol /\ waiting' = waiting
  <2>1. CASE c = NumCols - 1
    BY <1>1, <1>3, <1>4, <2>1 DEF FilterSb, SyncType
  <2>2. CASE c # NumCols - 1 /\ c % SyncRange = 0
    BY <1>1, <1>3, <1>4, <2>2 DEF FilterSb, SyncType
  <2>3. CASE c # NumCols - 1 /\ c % SyncRange # 0
    BY <1>1, <1>3, <1>4, <2>3 DEF FilterSb, SyncType
  <2> QED
    BY <2>1, <2>2, <2>3
<1>9. /\ filtered' \in [Rows -> Nat] /\ filtered'[r] = filtered[r] + 1
      /\ \A q \in Rows \ {r} : filtered'[q] = filtered[q]
  BY <1>1, <1>6 DEF HistoryType
<1>10. TypeOK'
  <2>1. waiting' \subseteq waiting
    BY <1>8, SignalIs
  <2> QED
    BY <1>1, <1>7, <1>8, <1>9, <2>1 DEF TypeOK, QueueType, SyncType, PlaceType, FlagType,
         HistoryType, FilterSb
<1>11. Works(w, {}) /\ OneEach' /\ InOrder'
  <2>1. ReconFailed' <=> ReconFailed
    BY DEF ReconFailed, FilterSb
  <2>2. pc'[w] \in Working => job'[w] = job[w]
    BY <1>7
  <2> QED
    BY <1>1, <1>2, <1>7, <2>1, <2>2, KeepQueue DEF Busy, FilterSb
<1>12. Suits(w)'
  <2>1. p = "read" => c + 1 \in Cols
    BY <1>4, <1>5 DEF Cols
  <2> QED
    BY <1>1, <1>2, <1>7, <2>1 DEF Suits
<1>13. /\ Parsed' /\ TilesCounted' /\ Served' /\ \A v \in Workers : Suits(v)'
       /\ Mapped' /\ RowsCounted'
       /\ \A q \in Rows \ {r} : LpfOf(q)'
       /\ \A v \in Workers : Promises(v, r)' <=> Promises(v, r)
  <2>1. pc[w] \in LpfPlaces /\ pc'[w] \in LpfPlaces \cup {"dequeue"}
    BY <1>2, <1>7
  <2> HIDE DEF LpfPlaces
  <2> QED
    BY <1>3, <1>8, <1>9, <1>11, <1>12, <2>1, FilterKeeps DEF FilterSb
<1>14. LpfOf(r)'
  <2>1. /\ LpfOf(r) /\ RowBelow(r)' = RowBelow(r) /\ Queued' = Queued /\ Taken' = Taken
        /\ filtered[r] = c /\ LpfJob(r) \in Taken
    BY <1>1, <1>2, <1>3, <1>4, <1>11 DEF Busy, RowBelow, Works, LpfOf, OneEach
  <2>2. CASE p = "read"
    <3>1. /\ \A v \in Workers : On(v, LpfJob(r))' => v = w
          /\ On(w, LpfJob(r))'
      <4>1. pc'[w] \in Working
        BY <1>7, <2>2
      <4>2. On(w, LpfJob(r))'
        BY <1>3, <1>7, <2>2 DEF On
      <4> QED
        BY <1>1, <1>3, <1>11, <4>1, <4>2, WorkTouches
    <3> QED
      BY <1>7, <1>9, <1>13, <2>1, <2>2, <3>1 DEF LpfOf, Left, FilterSb
  <2>3. CASE p = "dequeue"
    <3>1. \A v \in Workers : ~On(v, LpfJob(r))'
      <4>1. pc'[w] \notin Working
        BY <1>7, <2>3
      <4> QED
        BY <1>1, <1>3, <1>11, <4>1, WorkTouches
    <3>2. filtered'[r] = NumCols /\ curSbCol'[r] = NumCols + SyncRange
      BY <1>4, <1>5, <1>8, <1>9, <2>1, <2>3
    <3> QED
      BY <1>13, <2>1, <3>1, <3>2 DEF LpfOf, FilterSb
  <2> QED
    BY <2>2, <2>3
<1>15. \A v \in waiting' : Asleep(v)'
  <2>1. CASE Signal(RowWaiters(r))
    BY <1>2, <1>7, <1>8, <2>1, RowSignal DEF FilterSb
  <2>2. CASE curSbCol' = curSbCol /\ waiting' = waiting
    BY <1>1, <1>2, <1>7, <2>2, KeepAsleep DEF Busy, FilterSb
  <2> QED
    BY <1>8, <2>1, <2>2
<1> QED
  BY <1>10, <1>11, <1>13, <1>14, <1>15 DEF Busy

\* A step that wakes workers at most.
LEMMA OnlyWakes ==
  ASSUME Running, waiting' \subseteq waiting,
         UNCHANGED <<queueVars, syncVars, mainVars, histVars, pc, job, col, corrupted>>
  PROVE  TypeOK' /\ Busy'
<1> USE DEF queueVars, syncVars, mainVars, histVars
<1>1. TypeOK'
  BY DEF Running, TypeOK, QueueType, SyncType, PlaceType, FlagType, HistoryType
<1>2. TypeOK /\ Busy
  BY DEF Running
<1>3. /\ Queued' = Queued /\ Taken' = Taken /\ (ReconFailed' <=> ReconFailed)
      /\ \A v, k : On(v, k)' <=> On(v, k)
  BY DEF Queued, Taken, ReconFailed, On
<1>4. \A v \in Workers : Suits(v)'
  BY <1>2 DEF Busy, Suits, LastCol, LastRow
<1>5. OneEach' /\ InOrder'
  BY <1>2, <1>3 DEF Busy, OneEach, InOrder, Before
<1>6. \A k : Same(k) /\ Alike(k) /\ (Left(k)' <=> Left(k))
  BY <1>3, AlikeLeft DEF Same, Alike
<1>7. Parsed'
  BY <1>2, <1>3, <1>6, ParsedSame DEF Busy
<1>8. TilesCounted'
  <2>1. \A t \in Tiles : Counted(t)' <=> Counted(t)
    BY <1>3, <1>6 DEF Counted
  <2> QED
    BY <1>2, <2>1, CountedSame DEF Busy
<1>9. Mapped'
  <2>1. \A r \in Rows, t \in Tiles : MapOf(r, t)'
    BY <1>2, <1>6, MapSame DEF Busy, Mapped
  <2> QED
    BY <1>2, <1>3, <2>1 DEF Busy, Mapped, TopDone
<1>10. RowsCounted'
  BY <1>2, <1>3, <1>6, CheckedSame, RowsCountedSame DEF Busy, TypeOK
<1>11. \A r \in Rows : LpfOf(r)'
  <2>1. \A r \in Rows, v \in Workers : Promises(v, r)' <=> Promises(v, r)
    BY DEF Promises
  <2> QED
    BY <1>2, <1>3, <1>6, <2>1, LpfSame DEF Busy
<1>12. \A v \in waiting' : Asleep(v)'
  BY <1>2 DEF Busy, Asleep, TopDone, AboveDone
<1>13. Served'
  BY <1>2 DEF Busy, Served
<1> QED
  BY <1>1, <1>4, <1>5, <1>7, <1>8, <1>9, <1>10, <1>11, <1>12, <1>13 DEF Busy

-----------------------------------------------------------------------------
(* A frame begins, and ends.                                               *)

LEMMA InitInv ==
  ASSUME Init
  PROVE  IndInv
<1>1. 0 \in Rows /\ 0 \in Tiles /\ NoJob \in AllJobs
  <2>1. 0 \in Rows /\ 0 \in Tiles
    BY DEF Rows, Tiles
  <2> QED
    BY <2>1, JobFacts DEF NoJob
<1>2. TypeOK
  BY <1>1 DEF Init, TypeOK, QueueType, SyncType, PlaceType, FlagType, HistoryType, Places
<1>3. AtRest
  <2>1. AllJobsTaken
    BY DEF Init, AllJobsTaken
  <2>2. CleanIsComplete
    BY DEF Init, CleanIsComplete
  <2> QED
    BY <2>1, <2>2 DEF Init, AtRest
<1> QED
  BY <1>2, <1>3 DEF IndInv, Init

LEMMA StartFrameInv ==
  ASSUME TypeOK, AtRest, NEW f \in BOOLEAN, StartFrame(f)
  PROVE  TypeOK' /\ Busy'
<1> USE DEF StartFrame
<1>1. /\ Len(jobs') = NumTiles /\ jobs' \in Seq(AllJobs) /\ 0 \in Rows
      /\ \A i \in 1 .. NumTiles : i - 1 \in Tiles /\ jobs'[i] = ParseJob(0, i - 1)
  <2>1. 0 \in Rows /\ \A i \in 1 .. NumTiles : i - 1 \in Tiles
    BY DEF Rows, Tiles
  <2>2. \A i \in 1 .. NumTiles : ParseJob(0, i - 1) \in AllJobs
    BY <2>1, JobFacts
  <2>3. FirstJobs \in [1 .. NumTiles -> AllJobs]
    BY <2>2 DEF FirstJobs
  <2>4. FirstJobs \in Seq(AllJobs) /\ Len(FirstJobs) = NumTiles
    BY <2>3
  <2> QED
    BY <2>1, <2>4 DEF FirstJobs
<1>2. TypeOK'
  <2>1. QueueType'
    BY <1>1 DEF QueueType
  <2>2. /\ rowTiles' \in [Rows -> Nat] /\ curSbCol' \in [Rows -> Int]
        /\ filtered' \in [Rows -> Nat] /\ pc' \in [Workers -> Places]
        /\ corrupted' \in [Workers -> BOOLEAN]
    BY DEF Places
  <2> QED
    BY <2>1, <2>2 DEF TypeOK, SyncType, PlaceType, FlagType, HistoryType
<1>3. /\ \A j : j \in Queued' <=> \E t \in Tiles : j = ParseJob(0, t)
      /\ Taken' = {} /\ waiting' = {}
      /\ \A v \in Workers : pc'[v] = "dequeue"
  <2>1. Queued' = {jobs'[i] : i \in 1 .. NumTiles}
    BY <1>1 DEF Queued
  <2>2. ASSUME NEW t \in Tiles PROVE t + 1 \in 1 .. NumTiles /\ (t + 1) - 1 = t
    BY DEF Tiles
  <2>3. \A t \in Tiles : ParseJob(0, t) \in Queued'
    BY <1>1, <2>1, <2>2
  <2> QED
    BY <1>1, <2>1, <2>3, SMTT(30) DEF Taken, AtRest
<1>4. \A v \in Workers : pc'[v] \notin Working
  BY <1>3 DEF Working, ParsePlaces, ReconPlaces, MarkPlaces, LpfPlaces
<1>5. \A j : ~Left(j)' /\ \A v \in Workers : ~On(v, j)'
  BY <1>3, <1>4 DEF Left, On
<1>6. \A v \in Workers : Suits(v)'
  BY <1>4 DEF Suits, Working, ReconPlaces, MarkPlaces
<1>7. OneEach'
  <2>1. ASSUME NEW i \in 1 .. Len(jobs'), NEW k \in 1 .. Len(jobs'), jobs'[i] = jobs'[k]
        PROVE  i = k
    <3>1. ParseJob(0, i - 1).tile = i - 1 /\ ParseJob(0, k - 1).tile = k - 1
      BY DEF ParseJob
    <3> QED
      BY <1>1, <2>1, <3>1
  <2> QED
    BY <1>4, <2>1 DEF OneEach
<1>8. InOrder'
  <2>1. ASSUME NEW i \in 1 .. Len(jobs') PROVE jobs'[i].type = "parse"
    BY <1>1, JobFacts
  <2>2. \A i \in 1 .. Len(jobs'), r \in Rows :
           jobs'[i] # LpfJob(r) /\ \A t \in Tiles : jobs'[i] # ReconJob(r, t)
    BY <2>1 DEF LpfJob, ReconJob
  <2> QED
    BY <2>2 DEF InOrder
<1>9. Parsed'
  <2>1. ASSUME NEW r \in Rows, NEW t \in Tiles
        PROVE  ParsedTo(r, t)'
    <3>1. ReconJob(r, t) \notin Queued'
      BY <1>1, <1>3, JobFacts
    <3>2. ParseJob(r, t) \in Queued' => r = 0
      BY <1>1, <1>3, JobFacts
    <3>3. (ParseJob(r, t) \in Queued => \A q \in 0 .. r - 1 : ReconJob(q, t) \in Queued)'
      BY <3>2
    <3> QED
      BY <1>5, <3>1, <3>3 DEF ParsedTo
  <2> QED
    BY <1>3, <2>1 DEF Parsed
<1>10. TilesCounted'
  <2>1. {t \in Tiles : Counted(t)}' = {}
    BY <1>5 DEF Counted
  <2> QED
    BY <2>1, FS_EmptySet DEF TilesCounted
<1>11. Mapped'
  <2>1. \A r \in Rows, t \in Tiles : MapOf(r, t)'
    BY <1>5 DEF MapOf
  <2> QED
    BY <1>3, <2>1 DEF Mapped, ReconFailed
<1>12. RowsCounted'
  <2>1. \A r \in Rows : {t \in Tiles : Checked(r, t)}' = {}
    BY <1>5 DEF Checked
  <2> QED
    BY <2>1, FS_EmptySet DEF RowsCounted
<1>13. ASSUME NEW r \in Rows PROVE LpfOf(r)'
  <2>1. LpfJob(r) \notin Queued' /\ \A v \in Workers : ~Promises(v, r)'
    BY <1>1, <1>3, JobFacts DEF Promises
  <2>2. RowBelow(r) \in Rows /\ ~(rowTiles'[RowBelow(r)'] >= NumTiles)
    BY DEF RowBelow, Rows
  <2> QED
    BY <1>5, <2>1, <2>2 DEF LpfOf
<1>14. Served'
  <2>1. PICK v \in Workers : pc'[v] # "done" /\ pc'[v] # "qwait"
    BY <1>3
  <2>2. tilesDone' # NumTiles
    OBVIOUS
  <2> QED
    BY <2>1, <2>2 DEF Served
<1> QED
  BY <1>2, <1>3, <1>6, <1>7, <1>8, <1>9, <1>10, <1>11, <1>12, <1>13, <1>14 DEF Busy

\* When nobody has a job and the queue is empty, the tiles have been counted.
LEMMA AllCounted ==
  ASSUME Running, rd = Len(jobs), \A w \in Workers : pc[w] \notin Working
  PROVE  /\ \A j \in Queued : Left(j)
         /\ \A t \in Tiles : Counted(t)
         /\ tilesDone = NumTiles
<1>1. QueueType /\ Parsed /\ TilesCounted
  BY DEF Running, TypeOK, Busy
<1>2. \A j \in Queued : Left(j)
  BY DEF Queued, Taken, Left, On
<1>3. ASSUME NEW t \in Tiles PROVE Counted(t)
  <2>1. SUFFICES ASSUME ~Counted(t) PROVE FALSE
    OBVIOUS
  <2> DEFINE T == {r \in Rows : ParseJob(r, t) \notin Queued}
  <2>2. \A r \in Rows : ParsedTo(r, t)
    BY <1>1 DEF Parsed
  <2>3. \A r \in Rows : ParseJob(r, t) \in Queued =>
          /\ ReconJob(r, t) \in Queued
          /\ r + 1 < NumRows => ParseJob(r + 1, t) \in Queued
    <3> SUFFICES ASSUME NEW r \in Rows, ParseJob(r, t) \in Queued
                 PROVE  /\ ReconJob(r, t) \in Queued
                        /\ r + 1 < NumRows => ParseJob(r + 1, t) \in Queued
      OBVIOUS
    <3>1. Left(ParseJob(r, t)) /\ ParsedTo(r, t)
      BY <1>2, <2>2
    <3>2. ReconJob(r, t) \in Queued
      BY <2>1, <3>1 DEF Counted
    <3> QED
      BY <3>1, <3>2 DEF ParsedTo
  <2>4. CASE T = {}
    <3>1. NumRows - 1 \in Rows
      BY DEF Rows
    <3>2. ReconJob(NumRows - 1, t) \in Queued
      BY <2>3, <2>4, <3>1
    <3> QED
      BY <1>2, <2>1, <3>2 DEF Counted
  <2>5. CASE T # {}
    <3>1. T \in SUBSET Nat
      BY DEF Rows
    <3>2. PICK n \in T : \A m \in T : n <= m
      BY <2>5, <3>1, LeastNumber
    <3>3. n # 0
      BY <1>1, <3>2 DEF Parsed
    <3>4. n - 1 \in Rows /\ n - 1 \notin T /\ (n - 1) + 1 = n /\ n < NumRows
      BY <3>2, <3>3 DEF Rows
    <3>5. ParseJob(n - 1, t) \in Queued
      BY <3>4
    <3>6. ParseJob((n - 1) + 1, t) \in Queued
      BY <2>3, <3>4, <3>5
    <3> QED
      BY <3>2, <3>4, <3>6
  <2> QED
    BY <2>4, <2>5
<1>4. {t \in Tiles : Counted(t)} = Tiles
  BY <1>3
<1> QED
  BY <1>1, <1>2, <1>3, <1>4, TilesFinite DEF TilesCounted

\* Nobody was corrupted: no tile was given up, and every row of it is queued.
LEMMA AllQueued ==
  ASSUME Running, rd = Len(jobs), \A w \in Workers : pc[w] \notin Working,
         \A w \in Workers : ~corrupted[w], NEW t \in Tiles, NEW r \in Rows
  PROVE  ReconJob(r, t) \in Queued
<1>1. QueueType /\ Parsed /\ Taken \subseteq Queued
  BY QueuedJobs DEF Running, TypeOK, Busy
<1>2. Counted(t) /\ \A q \in Rows : ParsedTo(q, t)
  BY <1>1, AllCounted DEF Parsed
<1>3. ~\E q \in Rows : Left(ParseJob(q, t)) /\ ReconJob(q, t) \notin Queued
  BY <1>2 DEF ParsedTo
<1>4. Left(ReconJob(NumRows - 1, t))
  BY <1>2, <1>3 DEF Counted
<1>5. NumRows - 1 \in Rows /\ (r = NumRows - 1 \/ r \in 0 .. (NumRows - 1) - 1)
  BY DEF Rows
<1>6. ReconJob(NumRows - 1, t) \in Queued
  BY <1>1, <1>4 DEF Left
<1>7. ParseJob(NumRows - 1, t) \in Queued
  BY <1>1, <1>2, <1>5, <1>6 DEF ParsedTo
<1> QED
  BY <1>2, <1>5, <1>6, <1>7 DEF ParsedTo

LEMMA EndFrameInv ==
  ASSUME Running, EndFrame
  PROVE  TypeOK' /\ AtRest'
<1> USE DEF queueVars, syncVars, histVars
<1>1. /\ QueueType /\ PlaceType /\ SyncType /\ FlagType /\ HistoryType /\ Busy
      /\ \A w \in Workers : pc[w] = "done"
  BY DEF Running, TypeOK, EndFrame
<1>2. TypeOK'
  BY <1>1 DEF TypeOK, QueueType, SyncType, PlaceType, FlagType, HistoryType, EndFrame
<1>3. waiting' = {}
  BY <1>1 DEF Busy, Asleep, PlaceType, EndFrame
<1>4. rd = Len(jobs)
  BY <1>1 DEF QueueType, Busy, Served
<1>5. \A w \in Workers : pc[w] \notin Working
  BY <1>1 DEF Working, ParsePlaces, ReconPlaces, MarkPlaces, LpfPlaces
<1>6. (\A j \in Queued : Left(j)) /\ tilesDone = NumTiles
  BY <1>4, <1>5, AllCounted
<1>7. AllJobsTaken'
  BY <1>4, <1>6 DEF AllJobsTaken, EndFrame
<1>8. CleanIsComplete'
  <2> SUFFICES ASSUME \A w \in Workers : ~corrupted[w]
               PROVE  /\ recon = Rows \X Cols
                      /\ filter => \A r \in Rows : filtered[r] = NumCols
    BY DEF CleanIsComplete, EndFrame
  <2>1. ASSUME NEW r \in Rows, NEW t \in Tiles
        PROVE  Left(ReconJob(r, t)) /\ \A c \in TileSbs(t) : <<r, c>> \in reconMap
    <3>1. Left(ReconJob(r, t))
      BY <1>4, <1>5, <1>6, AllQueued
    <3> QED
      BY <1>1, <3>1 DEF Busy, Mapped, MapOf
  <2>2. ~ReconFailed
    BY <1>1 DEF Busy, Mapped
  <2>3. recon = Rows \X Cols
    <3>1. ASSUME NEW r \in Rows, NEW c \in Cols PROVE <<r, c>> \in recon
      <4>1. PICK t \in Tiles : c \in TileSbs(t)
        BY TilesCover
      <4> QED
        BY <2>1, <2>2, <4>1 DEF ReconFailed
    <3>2. recon \subseteq Rows \X Cols
      BY <1>1 DEF HistoryType
    <3> QED
      BY <3>1, <3>2
  <2>4. ASSUME filter, NEW r \in Rows PROVE filtered[r] = NumCols
    <3>1. RowBelow(r) \in Rows
      BY DEF RowBelow, Rows
    <3>2. rowTiles[RowBelow(r)] >= NumTiles
      BY <1>1, <2>1, <2>2, <2>4, <3>1, RowIsFull DEF Busy, Checked
    <3>3. LpfOf(r) /\ \A w \in Workers : ~Promises(w, r)
      BY <1>1 DEF Busy, Promises
    <3> QED
      BY <1>6, <3>2, <3>3 DEF LpfOf
  <2> QED
    BY <2>3, <2>4
<1> QED
  BY <1>1, <1>2, <1>3, <1>7, <1>8 DEF AtRest, EndFrame

LEMMA NextInv ==
  ASSUME IndInv, [Next]_vars
  PROVE  IndInv'
<1>1. CASE UNCHANGED vars
  <2> USE DEF vars, queueVars, syncVars, mainVars, histVars
  <2>1. TypeOK'
    BY <1>1 DEF IndInv, TypeOK, QueueType, SyncType, PlaceType, FlagType, HistoryType
  <2>2. main = "idle" => AtRest'
    BY <1>1 DEF IndInv, AtRest, AllJobsTaken, CleanIsComplete
  <2>3. main = "busy" => Busy'
    BY <1>1, OnlyWakes DEF IndInv, Running
  <2> QED
    BY <1>1, <2>1, <2>2, <2>3 DEF IndInv
<1>2. CASE \E f \in BOOLEAN : StartFrame(f)
  BY <1>2, StartFrameInv DEF IndInv, StartFrame
<1>3. CASE EndFrame
  BY <1>3, EndFrameInv DEF IndInv, EndFrame, Running
<1>4. ASSUME NEW w \in Workers, WorkerStep(w) \/ ReconError(w) \/ SpuriousWakeup(w)
      PROVE  IndInv'
  <2> USE DEF mainVars
  <2>1. pc[w] # "done" \/ w \in waiting
    BY <1>4 DEF WorkerStep, Dequeue, Woken, Parse, QueueRecon, QueueParse, TileDone,
         Terminate, MapRead, ReconBlock, ReconError, LpfMapWriteCheck, QueueLpf,
         QueueLastLpf, MapWrite, SyncRead, FilterSb, SpuriousWakeup
  <2>2. main = "busy" /\ Running
    BY <2>1 DEF IndInv, AtRest, TypeOK, QueueType, Running
  <2>3. main' = main
    BY <1>4 DEF WorkerStep, Dequeue, Parse, QueueRecon, QueueParse, TileDone,
         Terminate, MapRead, ReconBlock, ReconError, LpfMapWriteCheck, QueueLpf,
         QueueLastLpf, MapWrite, SyncRead, FilterSb, SpuriousWakeup
  <2>4. TypeOK' /\ Busy'
    BY <1>4, <2>2, DequeueInv, ParseInv, QueueReconInv, QueueParseInv, TileDoneInv,
       TerminateInv, MapReadInv, ReconBlockInv, ReconErrorInv, LpfMapWriteCheckInv,
       QueueLpfInv, QueueLastLpfInv, MapWriteInv, SyncReadInv, FilterSbInv, OnlyWakes
       DEF WorkerStep, SpuriousWakeup
  <2> QED
    BY <2>2, <2>3, <2>4 DEF IndInv
<1> QED
  BY <1>1, <1>2, <1>3, <1>4 DEF Next

-----------------------------------------------------------------------------
(* The theorems.                                                           *)

\* The inductive invariant holds throughout, whatever the sizes, the corrupt rows
\* and the order in which the workers run.
THEOREM Invariance == Spec => []IndInv
<1>1. Init => IndInv
  BY InitInv
<1>2. IndInv /\ [Next]_vars => IndInv'
  BY NextInv
<1> QED
  BY <1>1, <1>2, PTL DEF Spec

\* recon_block() predicts from a superblock above that is reconstructed: map_read()
\* and map_write() keep the order, unless a row was given up.
THEOREM TopReconstructed == Spec => []ReconBelowRecon
<1>1. IndInv => ReconBelowRecon
  <2> SUFFICES ASSUME IndInv, NEW w \in Workers, pc[w] = "block", job[w].row > 0
               PROVE  <<job[w].row - 1, col[w]>> \in recon \/ ReconFailed
    BY DEF ReconBelowRecon
  <2>1. Busy
    BY DEF IndInv, TypeOK, QueueType, AtRest
  <2>2. <<job[w].row - 1, col[w]>> \in reconMap
    <3>1. TopDone(job[w].row, col[w])
      BY <2>1 DEF Busy, Mapped
    <3>2. job[w].row \in Rows
      BY JobKinds DEF IndInv, TypeOK, PlaceType
    <3> QED
      BY <3>1, <3>2 DEF TopDone, Rows
  <2> QED
    BY <2>2 DEF ReconFailed
<1> QED
  BY <1>1, Invariance, PTL

\* vp9_loopfilter_job() filters a row when that row and the next are reconstructed
\* in all tiles: the count of lpf_map_write_check() reaches the number of tiles no
\* earlier, unless a row was given up.
THEOREM FilteredWhenReady == Spec => []FilterAfterRecon
<1>1. IndInv => FilterAfterRecon
  <2> SUFFICES ASSUME IndInv, ~ReconFailed, NEW w \in Workers, pc[w] = "filter",
                      NEW r \in Rows, r \in {job[w].row, job[w].row + 1},
                      NEW c \in Cols
               PROVE  <<r, c>> \in recon
    BY DEF FilterAfterRecon
  <2>1. Running
    BY DEF IndInv, TypeOK, QueueType, AtRest, Running
  <2>2. /\ QueueType /\ PlaceType /\ SyncType /\ FlagType /\ RowsCounted /\ OneEach
        /\ Suits(w)
    BY <2>1 DEF Running, TypeOK, Busy
  <2>3. PICK q \in Rows : job[w] = LpfJob(q) /\ job[w].row = q
    BY <2>2, JobOf DEF LpfPlaces
  <2>4. LpfJob(q) \in Queued /\ LpfOf(q)
    BY <2>1, <2>2, <2>3, QueuedJobs DEF OneEach, Working, LpfPlaces, Running, Busy
  <2>5. rowTiles[RowBelow(q)] >= NumTiles /\ RowBelow(q) \in Rows
    BY <2>4 DEF LpfOf, RowBelow, Rows
  <2>6. \A t \in Tiles : Checked(RowBelow(q), t)
    BY <2>2, <2>5, RowIsFull
  <2>7. PICK t \in Tiles : c \in TileSbs(t)
    BY TilesCover
  <2>8. CASE r = RowBelow(q)
    BY <2>1, <2>6, <2>7, <2>8, CheckedRow
  <2>9. CASE r = RowBelow(q) - 1 /\ RowBelow(q) > 0
    <3>1. Checked(r, t)
      BY <2>1, <2>5, <2>6, <2>9, CheckedRow
    <3> QED
      BY <2>1, <2>7, <3>1, CheckedRow
  <2> QED
    BY <2>3, <2>8, <2>9 DEF RowBelow, Rows
<1> QED
  BY <1>1, Invariance, PTL

\* When decode_tiles_row_wise_mt() returns, no job is left in the queue and each tile
\* was counted once.
THEOREM NoJobLeft == Spec => []AllJobsTaken
<1>1. IndInv => AllJobsTaken
  BY DEF IndInv, AtRest, AllJobsTaken
<1> QED
  BY <1>1, Invariance, PTL

\* A frame for which no worker reports corruption is complete: every superblock is
\* reconstructed, and filtered once if the frame is to be filtered.
THEOREM CleanFrameComplete == Spec => []CleanIsComplete
<1>1. IndInv => CleanIsComplete
  BY DEF IndInv, AtRest, CleanIsComplete
<1> QED
  BY <1>1, Invariance, PTL

\* A worker that waits for the superblock or row above has somebody above it who
\* does not wait.
LEMMA ReconWaitsUp ==
  ASSUME Running, NEW w \in waiting, pc[w] = "mwait"
  PROVE  \E v \in Workers : /\ pc[v] \in Working /\ job[v].type = "recon"
                            /\ job[w].row > 0 /\ job[v].row = job[w].row - 1
<1>1. /\ QueueType /\ PlaceType /\ OneEach /\ InOrder /\ Mapped
      /\ w \in Workers /\ Suits(w) /\ Asleep(w)
  BY DEF Running, TypeOK, PlaceType, Busy
<1>2. PICK r \in Rows, t \in Tiles : job[w] = ReconJob(r, t)
  BY <1>1, JobOf DEF ReconPlaces
<1>3. job[w].row = r /\ job[w].tile = t /\ col[w] \in TileSbs(t)
  BY <1>1, <1>2, JobFacts DEF Suits, ReconPlaces
<1>4. r > 0 /\ r - 1 \in Rows /\ <<r - 1, col[w]>> \notin reconMap
  BY <1>1, <1>3 DEF Asleep, TopDone, Rows
<1>5. PICK i \in 1 .. rd : jobs[i] = ReconJob(r, t)
  BY <1>1, <1>2 DEF OneEach, Taken, Working, ReconPlaces
<1>6. ReconJob(r - 1, t) \in Taken
  <2>1. i \in 1 .. Len(jobs)
    BY <1>1 DEF QueueType
  <2>2. PICK k \in 1 .. i - 1 : jobs[k] = ReconJob(r - 1, t)
    BY <1>1, <1>4, <1>5, <2>1 DEF InOrder, Before
  <2>3. k \in 1 .. rd
    BY <1>1, <1>5 DEF QueueType
  <2> QED
    BY <2>2, <2>3 DEF Taken
<1>7. ~Left(ReconJob(r - 1, t))
  BY <1>1, <1>3, <1>4 DEF Mapped, MapOf
<1>8. PICK v \in Workers : On(v, ReconJob(r - 1, t))
  BY <1>6, <1>7 DEF Left
<1> QED
  BY <1>3, <1>4, <1>8, JobFacts DEF On

LEMMA FilterWaitsUp ==
  ASSUME Running, ~ReconFailed, NEW w \in waiting, pc[w] = "wait"
  PROVE  \E v \in Workers : /\ pc[v] \in Working /\ job[v].type = "lpf"
                            /\ job[w].row > 0 /\ job[v].row = job[w].row - 1
<1>1. /\ QueueType /\ PlaceType /\ OneEach /\ InOrder
      /\ w \in Workers /\ Suits(w) /\ Asleep(w)
  BY DEF Running, TypeOK, PlaceType, Busy
<1>2. PICK r \in Rows : job[w] = LpfJob(r) /\ job[w].row = r
  BY <1>1, JobOf DEF LpfPlaces
<1>3. r > 0 /\ r - 1 \in Rows /\ ~AboveDone(r, col[w]) /\ col[w] \in Cols
  BY <1>1, <1>2 DEF Asleep, Suits, LpfPlaces, Rows
<1>4. PICK i \in 1 .. rd : jobs[i] = LpfJob(r)
  BY <1>1, <1>2 DEF OneEach, Taken, Working, LpfPlaces
<1>5. LpfJob(r - 1) \in Taken
  <2>1. i \in 1 .. Len(jobs)
    BY <1>1 DEF QueueType
  <2>2. PICK k \in 1 .. i - 1 : jobs[k] = LpfJob(r - 1)
    BY <1>1, <1>3, <1>4, <2>1 DEF InOrder, Before
  <2>3. k \in 1 .. rd
    BY <1>1, <1>4 DEF QueueType
  <2> QED
    BY <2>2, <2>3 DEF Taken
<1>6. ~Left(LpfJob(r - 1))
  <2> SUFFICES ASSUME Left(LpfJob(r - 1)) PROVE FALSE
    OBVIOUS
  <2>1. curSbCol[r - 1] = NumCols + SyncRange
    BY <1>3 DEF Running, Busy, LpfOf
  <2>2. NumCols \in Nat /\ col[w] \in Int /\ col[w] < NumCols
    BY <1>3 DEF Cols, NumCols
  <2> QED
    BY <1>3, <2>1, <2>2 DEF AboveDone
<1>7. PICK v \in Workers : On(v, LpfJob(r - 1))
  BY <1>5, <1>6 DEF Left
<1>8. LpfJob(r - 1).type = "lpf" /\ LpfJob(r - 1).row = r - 1
  BY DEF LpfJob
<1> QED
  BY <1>2, <1>3, <1>7, <1>8 DEF On

\* The workers that have not left never all wait, for a job, a superblock above or a
\* row above, unless a row was given up: jobs are taken in the order in which they
\* were queued, so the topmost of those that wait has nobody to wait for, and one
\* that waits for a job is woken when the last tile is counted.
THEOREM SomebodyRuns == Spec => []NotAllWaiting
<1>1. IndInv => NotAllWaiting
  <2> SUFFICES ASSUME IndInv, main = "busy", ~ReconFailed,
                      NEW x \in Workers, pc[x] # "done",
                      \A w \in Workers : pc[w] # "done" => w \in waiting
               PROVE  FALSE
    BY DEF NotAllWaiting
  <2>1. Running /\ QueueType /\ PlaceType /\ Busy
    BY DEF IndInv, Running, TypeOK
  <2>2. \A w \in Workers : pc[w] # "done" =>
          w \in waiting /\ Asleep(w) /\ pc[w] \in {"qwait", "mwait", "wait"} /\ Suits(w)
    BY <2>1 DEF Busy, Asleep
  <2>3. ASSUME NEW v \in Workers, pc[v] \in Working
        PROVE  /\ v \in waiting /\ job[v].row \in Nat
               /\ job[v].type = "recon" => pc[v] = "mwait"
               /\ job[v].type = "lpf" => pc[v] = "wait"
    <3>1. pc[v] # "done" /\ pc[v] # "qwait"
      BY <2>3 DEF Working, ParsePlaces, ReconPlaces, MarkPlaces, LpfPlaces
    <3>2. v \in waiting /\ pc[v] \in {"mwait", "wait"} /\ Suits(v)
      BY <2>2, <3>1
    <3>3. job[v].row \in Nat
      BY <2>1, JobKinds DEF PlaceType, Rows
    <3> QED
      BY <3>2, <3>3 DEF Suits, ReconPlaces, LpfPlaces
  <2>4. \A w \in Workers : pc[w] # "mwait"
    <3> DEFINE T == {n \in Nat : \E w \in Workers : pc[w] = "mwait" /\ job[w].row = n}
    <3> SUFFICES ASSUME NEW w \in Workers, pc[w] = "mwait" PROVE FALSE
      OBVIOUS
    <3>1. job[w].row \in T
      BY <2>3 DEF Working, ReconPlaces
    <3>2. PICK n \in T : \A m \in T : n <= m
      BY <3>1, LeastNumber, ZenonT(30)
    <3>3. PICK u \in Workers : pc[u] = "mwait" /\ job[u].row = n
      BY <3>2
    <3>4. u \in waiting
      BY <2>2, <3>3
    <3>5. PICK v \in Workers : /\ pc[v] \in Working /\ job[v].type = "recon"
                               /\ n > 0 /\ job[v].row = n - 1
      BY <2>1, <3>3, <3>4, ReconWaitsUp
    <3>6. n - 1 \in T
      BY <2>3, <3>5
    <3> QED
      BY <3>2, <3>5, <3>6
  <2>5. \A w \in Workers : pc[w] # "wait"
    <3> DEFINE T == {n \in Nat : \E w \in Workers : pc[w] = "wait" /\ job[w].row = n}
    <3> SUFFICES ASSUME NEW w \in Workers, pc[w] = "wait" PROVE FALSE
      OBVIOUS
    <3>1. job[w].row \in T
      BY <2>3 DEF Working, LpfPlaces
    <3>2. PICK n \in T : \A m \in T : n <= m
      BY <3>1, LeastNumber, ZenonT(30)
    <3>3. PICK u \in Workers : pc[u] = "wait" /\ job[u].row = n
      BY <3>2
    <3>4. u \in waiting
      BY <2>2, <3>3
    <3>5. PICK v \in Workers : /\ pc[v] \in Working /\ job[v].type = "lpf"
                               /\ n > 0 /\ job[v].row = n - 1
      BY <2>1, <3>3, <3>4, FilterWaitsUp
    <3>6. n - 1 \in T
      BY <2>3, <3>5
    <3> QED
      BY <3>2, <3>5, <3>6
  <2>6. /\ \A w \in Workers : pc[w] # "done" => pc[w] = "qwait" /\ w \in waiting
        /\ ~terminate
    BY <2>2, <2>4, <2>5 DEF Asleep
  <2>7. rd = Len(jobs)
    BY <2>1, <2>6 DEF QueueType, Busy, Served
  <2>8. \A w \in Workers : pc[w] \notin Working
    BY <2>6 DEF Working, ParsePlaces, ReconPlaces, MarkPlaces, LpfPlaces
  <2>9. tilesDone = NumTiles
    BY <2>1, <2>7, <2>8, AllCounted
  <2>10. \E w \in Workers : pc[w] = "terminate"
    BY <2>1, <2>6, <2>9 DEF Busy, Served
  <2> QED
    BY <2>6, <2>10
<1> QED
  BY <1>1, Invariance, PTL

\* The buffer of 2 * tiles * rows + rows jobs is never full when a job is queued, so
\* the assert of vp9_jobq_queue() holds: no job is queued twice.
THEOREM QueueNeverFull == Spec => []RoomToQueue
<1>1. IndInv => RoomToQueue
  <2> SUFFICES ASSUME IndInv, NEW w \in Workers,
                      pc[w] \in {"qrecon", "qparse", "qlpf", "qlast"}
               PROVE  Len(jobs) < Capacity
    BY DEF RoomToQueue
  <2>1. Busy /\ QueueType /\ PlaceType /\ OneEach /\ Suits(w)
    BY DEF IndInv, TypeOK, QueueType, AtRest, Busy
  <2>2. job[w] \in AllJobs /\ job[w].row \in Rows /\ job[w].tile \in Tiles
    BY <2>1, JobOf
  <2> PICK r \in Rows, t \in Tiles : r = job[w].row /\ t = job[w].tile
    BY <2>2
  <2>3. \E j \in AllJobs : j \notin Queued
    <3>1. CASE pc[w] \in {"qrecon", "qparse"}
      <4>1. On(w, ParseJob(r, t))
        BY <2>1, <3>1, JobOf DEF On, Working, ParsePlaces
      <4>2. ParsedTo(r, t)
        BY <2>1 DEF Busy, Parsed
      <4>3. CASE pc[w] = "qrecon"
        BY <4>1, <4>2, <4>3, JobFacts DEF ParsedTo
      <4>4. CASE pc[w] = "qparse"
        <5>1. ParseJob(r + 1, t) \notin Queued /\ r + 1 \in Rows
          BY <4>1, <4>2, <4>4 DEF ParsedTo, Rows
        <5> QED
          BY <5>1, JobFacts
      <4> QED
        BY <3>1, <4>3, <4>4
    <3>2. CASE pc[w] \in {"qlpf", "qlast"}
      <4>1. PICK q \in Rows : Promises(w, q)
        <5>1. CASE pc[w] = "qlpf"
          <6>1. r - 1 \in Rows /\ r = (r - 1) + 1
            BY <2>1, <5>1 DEF Suits, Rows
          <6> QED
            BY <5>1, <6>1 DEF Promises
        <5>2. CASE pc[w] = "qlast"
          BY <2>1, <5>2 DEF Suits, LastRow, Promises
        <5> QED
          BY <3>2, <5>1, <5>2
      <4>2. LpfJob(q) \notin Queued
        BY <2>1, <4>1 DEF Busy, LpfOf
      <4> QED
        BY <4>2, JobFacts
    <3> QED
      BY <3>1, <3>2
  <2> QED
    BY <2>1, <2>3, Room
<1> QED
  BY <1>1, Invariance, PTL

\* No job of a frame is lost on the way through the queue, from vp9_jobq_queue() to
\* the worker that takes it.
THEOREM EveryJobTaken == Spec => []NoJobLost
<1>1. RoomToQueue /\ AllJobsTaken => NoJobLost
  BY DEF NoJobLost
<1>2. QED
  BY <1>1, QueueNeverFull, NoJobLeft, PTL
=============================================================================
