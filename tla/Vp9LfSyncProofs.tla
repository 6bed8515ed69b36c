--------------------------- MODULE Vp9LfSyncProofs ---------------------------
(***************************************************************************)
(* The safety of the row-parallel loop filter, for frames of any size, any *)
(* sync_range, any number of workers and any sequence of frames.           *)
(***************************************************************************)
EXTENDS Vp9LfSync, FiniteSetTheorems, TLAPS

-----------------------------------------------------------------------------
(* Division: what the dealing out of rows and the synchronisation points   *)
(* rest on.                                                                *)

\* Different multiples of n are at least n apart.
LEMMA MulGap ==
  ASSUME NEW n \in Nat \ {0}, NEW a \in Int, NEW b \in Int, a < b
  PROVE  n * a + n <= n * b
<1>1. n * (b - a - 1) >= 0
  OBVIOUS
<1>2. n * (b - a - 1) = n * b - n * a - n
  OBVIOUS
<1> QED
  BY <1>1, <1>2

\* The remainder is determined by any decomposition.
LEMMA ModUnique ==
  ASSUME NEW n \in Nat \ {0}, NEW q \in Int, NEW m \in 0 .. n - 1
  PROVE  (n * q + m) % n = m
<1> DEFINE x == n * q + m
           q1 == x \div n
           m1 == x % n
<1>1. /\ q1 \in Int /\ m1 \in 0 .. n - 1
      /\ x = n * q1 + m1
  OBVIOUS
<1>2. ~(q1 < q)
  BY <1>1, MulGap
<1>3. ~(q < q1)
  BY <1>1, MulGap
<1> QED
  BY <1>1, <1>2, <1>3

\* The numbers below n are their own remainders.
LEMMA ModSmall ==
  ASSUME NEW n \in Nat \ {0}, NEW m \in 0 .. n - 1
  PROVE  m % n = m
BY ModUnique, n * 0 + m = m

\* Division with remainder.
LEMMA DivMod ==
  ASSUME NEW n \in Nat \ {0}, NEW x \in Nat
  PROVE  \E q \in Int, m \in 0 .. n - 1 : x = n * q + m /\ x % n = m
<1> DEFINE q == x \div n
           m == x % n
<1>1. q \in Int /\ m \in 0 .. n - 1 /\ x = n * q + m
  OBVIOUS
<1> HIDE DEF q
<1> QED
  BY <1>1

\* A worker's next row is a row of its own.
LEMMA ModAdd ==
  ASSUME NEW n \in Nat \ {0}, NEW r \in Nat
  PROVE  (r + n) % n = r % n
<1>1. PICK q \in Int, m \in 0 .. n - 1 : r = n * q + m /\ r % n = m
  BY DivMod
<1>2. r + n = n * (q + 1) + m
  BY <1>1
<1>3. (n * (q + 1) + m) % n = m
  BY ModUnique
<1> QED
  BY <1>1, <1>2, <1>3

\* Between two consecutive rows of a worker there is no other row of its own.
LEMMA ModGap ==
  ASSUME NEW n \in Nat \ {0}, NEW r \in Nat, NEW s \in Nat,
         r < s, s < r + n
  PROVE  s % n # r % n
<1> SUFFICES ASSUME s % n = r % n PROVE FALSE
  OBVIOUS
<1>1. PICK q \in Int, m \in 0 .. n - 1 : r = n * q + m /\ r % n = m
  BY DivMod
<1>2. PICK q2 \in Int, m2 \in 0 .. n - 1 : s = n * q2 + m2 /\ s % n = m2
  BY DivMod
<1>3. m = m2
  BY <1>1, <1>2
<1>4. q = q2 \/ q < q2 \/ q2 < q
  OBVIOUS
<1> QED
  BY <1>1, <1>2, <1>3, <1>4, MulGap

\* Between two synchronisation points the distance to the last one grows by
\* one.
LEMMA ModStep ==
  ASSUME NEW n \in Nat \ {0}, NEW c \in Nat, (c + 1) % n # 0
  PROVE  (c + 1) % n = (c % n) + 1
<1>1. PICK q \in Int, m \in 0 .. n - 1 : c = n * q + m /\ c % n = m
  BY DivMod
<1>2. CASE m = n - 1
  <2>1. c + 1 = n * (q + 1) + 0
    BY <1>1, <1>2
  <2>2. (n * (q + 1) + 0) % n = 0
    BY ModUnique
  <2> QED
    BY <2>1, <2>2
<1>3. CASE m < n - 1
  <2>1. c + 1 = n * q + (m + 1)
    BY <1>1
  <2>2. (n * q + (m + 1)) % n = m + 1
    BY <1>3, ModUnique
  <2> QED
    BY <1>1, <2>1, <2>2
<1> QED
  BY <1>2, <1>3

-----------------------------------------------------------------------------
(* The inductive invariant.                                                *)

\* What the assumption on Frames says of the current frame.
LEMMA FrameFacts ==
  ASSUME TypeOK
  PROVE  /\ frame.rows \in Nat \ {0} /\ frame.rows <= MaxRows
         /\ frame.cols \in Nat \ {0} /\ frame.range \in Nat \ {0}
         /\ MaxRows \in Nat \ {0} /\ MaxWorkers \in Nat \ {0}
BY FrameAssumption DEF TypeOK

\* Rows and workers are numbered.
LEMMA RowsNat == /\ \A r \in Rows : r \in Nat /\ r < MaxRows
                 /\ \A w \in Workers : w \in Nat /\ w < MaxWorkers
                 /\ MaxRows \in Nat /\ MaxWorkers \in Nat
BY FrameAssumption DEF Rows, Workers

\* Rows have owners among the active workers.
LEMMA OwnerFacts ==
  ASSUME numActive \in Nat \ {0}
  PROVE  /\ \A r \in Nat : Owner(r) \in 0 .. numActive - 1
         /\ \A w \in 0 .. numActive - 1 : Owner(w) = w
         /\ \A r \in Nat : Owner(r + numActive) = Owner(r)
         /\ \A r, s \in Nat : r < s /\ s < r + numActive
                               => Owner(s) # Owner(r)
<1>1. \A r \in Nat : Owner(r) \in 0 .. numActive - 1
  BY DivMod DEF Owner
<1>2. \A w \in 0 .. numActive - 1 : Owner(w) = w
  BY ModSmall DEF Owner
<1>3. \A r \in Nat : Owner(r + numActive) = Owner(r)
  BY ModAdd DEF Owner
<1>4. \A r, s \in Nat : r < s /\ s < r + numActive => Owner(s) # Owner(r)
  BY ModGap DEF Owner
<1> QED
  BY <1>1, <1>2, <1>3, <1>4

\* While a frame is filtered, every row has an owner.
LEMMA BusyOwner ==
  ASSUME IndInv, main = "busy", NEW r \in Rows
  PROVE  /\ numActive \in Nat \ {0} /\ numActive <= MaxWorkers
         /\ Owner(r) \in 0 .. numActive - 1 /\ Owner(r) \in Workers
<1>1. numActive \in Nat \ {0} /\ numActive <= MaxWorkers
  BY RowsNat, FrameFacts DEF IndInv, TypeOK, Assignment
<1>2. Owner(r) \in 0 .. numActive - 1
  BY <1>1, OwnerFacts, RowsNat
<1> QED
  BY <1>1, <1>2, RowsNat DEF Workers

\* A worker that is not done is on a superblock of the frame.
LEMMA BusyWorker ==
  ASSUME IndInv, NEW w \in Workers, pc[w] # "done"
  PROVE  /\ main = "busy"
         /\ row[w] \in Rows /\ row[w] \in Nat /\ row[w] < frame.rows
         /\ frame.rows \in Nat /\ frame.rows <= MaxRows
         /\ col[w] \in Nat /\ col[w] < frame.cols /\ frame.cols \in Nat
         /\ syncRange \in Nat \ {0} /\ Owner(row[w]) = w /\ w < launched
         /\ row[w] > 0 =>
              /\ row[w] - 1 \in Rows
              /\ curSbCol[row[w] - 1] \in Int /\ filtered[row[w] - 1] \in Nat
<1>1. main = "busy"
  BY DEF IndInv, TypeOK, Assignment
<1>2. /\ row[w] \in Rows /\ row[w] \in Nat /\ row[w] < frame.rows
      /\ col[w] \in Nat /\ col[w] < frame.cols
      /\ syncRange \in Nat \ {0} /\ Owner(row[w]) = w /\ w < launched
  BY <1>1, RowsNat DEF IndInv, TypeOK, Assignment
<1>3. /\ frame.rows \in Nat /\ frame.rows <= MaxRows /\ frame.cols \in Nat
  BY FrameFacts DEF IndInv
<1>4. row[w] > 0 => row[w] - 1 \in Rows
  BY <1>2, RowsNat DEF Rows
<1> QED
  BY <1>1, <1>2, <1>3, <1>4 DEF IndInv, TypeOK

\* Two busy workers are on different rows.
LEMMA DistinctRows ==
  ASSUME IndInv, NEW v \in Workers, NEW w \in Workers, v # w,
         pc[v] # "done", pc[w] # "done"
  PROVE  row[v] # row[w]
BY DEF IndInv, Assignment

\* Initially no frame is being filtered.
LEMMA InitIndInv == Init => IndInv
<1> SUFFICES ASSUME Init PROVE IndInv
  OBVIOUS
<1>1. TypeOK
  BY FrameAssumption DEF Init, TypeOK, Rows, Workers
<1>2. Assignment /\ Progress /\ PublishedIsFiltered
  BY DEF Init, Assignment, Progress, PublishedIsFiltered, Workers
<1>3. StayBehind
  BY DEF Init, StayBehind, Workers
<1>4. WholeFrameFiltered
  BY DEF Init, WholeFrameFiltered
<1> QED
  BY <1>1, <1>2, <1>3, <1>4 DEF IndInv

\* A new frame: the counters are cleared and nothing is filtered.
LEMMA StartFrameInd ==
  ASSUME IndInv, NEW f \in Frames, NEW n \in 1 .. MaxWorkers, StartFrame(f, n)
  PROVE  IndInv'
<1> USE DEF StartFrame
<1>0. /\ f.rows \in Nat \ {0} /\ f.rows <= MaxRows
      /\ f.cols \in Nat \ {0} /\ f.range \in Nat \ {0}
      /\ MaxWorkers \in Nat \ {0} /\ MaxRows \in Nat \ {0}
      /\ numActive' \in Nat \ {0}
  BY FrameAssumption
<1>1. syncRange' \in Nat \ {0}
  BY <1>0 DEF IndInv, TypeOK, MustRealloc
<1>2. TypeOK'
  <2>1. frame' \in Frames /\ main' \in {"idle", "busy"}
    OBVIOUS
  <2>2. /\ syncRange' \in Nat /\ syncRows' \in Nat /\ numWorkers' \in Nat
        /\ numActive' \in 0 .. MaxWorkers /\ launched' \in 0 .. MaxWorkers
    BY <1>0, <1>1 DEF IndInv, TypeOK
  <2>3. curSbCol' \in [Rows -> Int] /\ filtered' \in [Rows -> Nat]
    OBVIOUS
  <2>4. UNCHANGED <<pc, row, col, waiting>>
    OBVIOUS
  <2> QED
    BY <2>1, <2>2, <2>3, <2>4 DEF IndInv, TypeOK
<1>3. \A w \in Workers : pc'[w] = "done"
  BY DEF IndInv, Assignment
<1>4. Assignment'
  BY <1>0, <1>1, <1>3 DEF IndInv, Assignment, TypeOK
<1>5. Progress'
  <2>1. \A r \in Nat : (r % numActive') \in 0 .. numActive' - 1
    BY <1>0, DivMod
  <2>2. \A r \in Rows : Owner(r)' \in Nat
    BY <1>0, <2>1 DEF Owner, Rows
  <2> QED
    BY <1>3, <2>2 DEF Progress, RowProgress
<1>6. PublishedIsFiltered'
  BY <1>0 DEF PublishedIsFiltered
<1>7. StayBehind'
  BY <1>3 DEF StayBehind
<1> QED
  BY <1>2, <1>4, <1>5, <1>6, <1>7 DEF IndInv, WholeFrameFiltered

\* A worker starts on the first of its rows.
LEMMA LaunchInd ==
  ASSUME IndInv, LaunchWorker
  PROVE  IndInv'
<1> USE DEF LaunchWorker, frameVars, FirstRow
<1> DEFINE k == launched
<1>0. /\ k \in Workers /\ k \in Rows /\ k \in 0 .. numActive - 1
      /\ numActive \in Nat \ {0} /\ syncRange \in Nat \ {0}
      /\ pc[k] = "done" /\ k < frame.rows /\ k \notin waiting
  <2>1. /\ k \in Nat /\ numActive \in Nat /\ syncRange \in Nat
        /\ numActive <= MaxWorkers /\ k < numActive
    BY FrameAssumption DEF IndInv, TypeOK
  <2>2. numActive \in 1 .. frame.rows /\ syncRange > 0
    BY DEF IndInv, Assignment
  <2>3. k \in Workers /\ k \in 0 .. numActive - 1
    BY <2>1, FrameAssumption DEF Workers
  <2>4. k < frame.rows /\ k \in Rows
    BY <2>1, <2>2, FrameFacts DEF IndInv, Rows
  <2>5. pc[k] = "done"
    BY <2>1, <2>3 DEF IndInv, Assignment
  <2>6. k \notin waiting
    BY <2>5 DEF IndInv, Assignment
  <2> QED
    BY <2>1, <2>2, <2>3, <2>4, <2>5, <2>6
<1>1. TypeOK'
  <2>0. numActive \in 0 .. MaxWorkers /\ launched' = k + 1
    BY DEF IndInv, TypeOK
  <2>1. launched' \in 0 .. MaxWorkers
    <3> HIDE DEF LaunchWorker, k
    <3> QED
      BY <1>0, <2>0, FrameAssumption
  <2>2. row' \in [Workers -> Rows] /\ col' \in [Workers -> Nat]
    BY <1>0 DEF IndInv, TypeOK
  <2>3. pc' \in [Workers -> {"read", "wait", "filter", "write", "done"}]
    BY <1>0 DEF IndInv, TypeOK
  <2> QED
    BY <2>1, <2>2, <2>3 DEF IndInv, TypeOK
<1>2. \A r : Owner(r)' = Owner(r)
  BY DEF Owner
<1>3. Owner(k) = k /\ 0 < frame.cols
  BY <1>0, OwnerFacts, FrameFacts DEF IndInv
<1>4. Assignment'
  BY <1>0, <1>2, <1>3 DEF IndInv, TypeOK, Assignment
<1>5. Progress'
  <2>1. \A r \in Rows : r < frame.rows /\ Owner(r) >= k => filtered[r] = 0
    BY DEF IndInv, Progress, RowProgress
  <2>2. \A r \in Rows : Owner(r) = k => ~(r < k)
    BY <1>0, OwnerFacts DEF Rows
  <2>3. ASSUME NEW w \in Workers, pc'[w] # "done"
        PROVE  filtered'[row'[w]]
                 = IF pc'[w] = "write" THEN col'[w] + 1 ELSE col'[w]
    BY <1>0, <1>3, <2>1, <2>3 DEF IndInv, TypeOK, Progress
  <2>4. ASSUME NEW r \in Rows, r < frame.rows, NEW w, w = Owner(r)
        PROVE  RowProgress(r, w)'
    <3>0. numActive \in 0 .. MaxWorkers
      BY DEF IndInv, TypeOK
    <3>1. w \in 0 .. numActive - 1 /\ w \in Workers
      <4>1. w \in 0 .. numActive - 1
        BY <1>0, <2>4, OwnerFacts, RowsNat
      <4> HIDE DEF LaunchWorker, k
      <4> QED
        BY <1>0, <3>0, <4>1, FrameAssumption DEF Workers
    <3>2. RowProgress(r, w)
      BY <2>4 DEF IndInv, Progress
    <3>3. CASE w = k
      <4>0. k \in Nat /\ r \in Nat /\ Owner(r) >= k
        BY <1>0, <2>4, <3>3, RowsNat
      <4>1. filtered[r] = 0 /\ ~(r < k)
        BY <2>1, <2>2, <2>4, <3>3, <4>0
      <4>2. pc'[w] = "read" /\ row'[w] = k /\ launched' = k + 1
        BY <1>0, <3>3 DEF IndInv, TypeOK
      <4> QED
        BY <3>3, <4>0, <4>1, <4>2 DEF RowProgress
    <3>4. CASE w # k
      BY <1>0, <3>1, <3>2, <3>4 DEF IndInv, TypeOK, RowProgress
    <3> QED
      BY <3>3, <3>4
  <2> QED
    BY <1>2, <2>3, <2>4 DEF Progress
<1>6. PublishedIsFiltered'
  BY DEF IndInv, PublishedIsFiltered
<1>7. StayBehind'
  BY <1>0, <1>3, ModSmall
     DEF IndInv, TypeOK, StayBehind, FilteredUpTo
<1> QED
  BY <1>1, <1>4, <1>5, <1>6, <1>7 DEF IndInv, WholeFrameFiltered

\* When all workers are done, every row is filtered.
LEMMA EndFrameInd ==
  ASSUME IndInv, EndFrame
  PROVE  IndInv'
<1> USE DEF EndFrame, frameVars
<1>1. TypeOK' /\ Assignment' /\ PublishedIsFiltered'
  BY DEF IndInv, TypeOK, Assignment, PublishedIsFiltered, Owner
<1>2. Progress'
  BY DEF IndInv, Progress
<1>3. StayBehind'
  BY DEF StayBehind
<1>4. WholeFrameFiltered'
  <2>2. \A r \in Rows : /\ Owner(r) \in Workers /\ Owner(r) \in Nat
                         /\ Owner(r) < launched /\ pc[Owner(r)] = "done"
    BY BusyOwner, RowsNat
  <2>3. launched \in Nat
    BY RowsNat DEF IndInv, TypeOK
  <2> QED
    BY <2>2, <2>3 DEF IndInv, Progress, RowProgress, WholeFrameFiltered
<1> QED
  BY <1>1, <1>2, <1>3, <1>4 DEF IndInv

\* sync_read: whoever goes on has seen the counter of the row above.
LEMMA SyncReadInd ==
  ASSUME IndInv, NEW w \in Workers, SyncRead(w)
  PROVE  IndInv'
<1> USE DEF SyncRead, frameVars
<1>1. TypeOK'
  BY DEF IndInv, TypeOK
<1>2. Assignment'
  BY DEF IndInv, TypeOK, Assignment, Owner
<1>3. Progress'
  <2>1. \A v \in Workers : /\ pc'[v] = "done" <=> pc[v] = "done"
                           /\ pc'[v] = "write" <=> pc[v] = "write"
    BY DEF IndInv, TypeOK
  <2>2. ASSUME NEW r \in Rows, main = "busy", r < frame.rows
        PROVE  RowProgress(r, Owner(r))'
    <3>1. Owner(r) \in Workers
      BY <2>2, BusyOwner
    <3>2. RowProgress(r, Owner(r))
      BY <2>2 DEF IndInv, Progress
    <3> QED
      BY <2>1, <3>1, <3>2 DEF RowProgress, Owner
  <2> QED
    BY <2>1, <2>2 DEF IndInv, Progress
<1>4. PublishedIsFiltered' /\ WholeFrameFiltered'
  BY DEF IndInv, PublishedIsFiltered, WholeFrameFiltered
<1>5. StayBehind'
  <2>1. ASSUME NEW v \in Workers, v # w
        PROVE  pc'[v] = pc[v]
    BY <2>1 DEF IndInv, TypeOK
  <2>2. ASSUME row[w] > 0, pc'[w] = "filter", col[w] % syncRange = 0
        PROVE  FilteredUpTo(row[w] - 1, col[w] + syncRange + 1)
    <3>1. /\ row[w] - 1 \in Rows /\ row[w] - 1 < frame.rows
          /\ main = "busy" /\ col[w] \in Nat /\ syncRange \in Nat
          /\ frame.cols \in Nat
          /\ curSbCol[row[w] - 1] \in Int /\ filtered[row[w] - 1] \in Nat
      BY <2>2, BusyWorker
    <3>2. curSbCol[row[w] - 1] >= col[w] + syncRange
      BY <2>2, <3>1 DEF IndInv, TypeOK, AboveDone
    <3> QED
      BY <3>1, <3>2 DEF IndInv, PublishedIsFiltered, FilteredUpTo
  <2>3. col[w] \in Nat /\ syncRange \in Nat
    BY DEF IndInv, TypeOK
  <2> QED
    BY <2>1, <2>2, <2>3 DEF IndInv, TypeOK, StayBehind, FilteredUpTo
<1> QED
  BY <1>1, <1>2, <1>3, <1>4, <1>5 DEF IndInv

\* Waking up changes nothing that the invariant speaks of.
LEMMA WakeInd ==
  ASSUME IndInv, NEW w \in Workers, Wake(w) \/ SpuriousWakeup(w)
  PROVE  IndInv'
<1> USE DEF Wake, SpuriousWakeup, frameVars
<1>1. TypeOK'
  BY DEF IndInv, TypeOK
<1>2. Assignment'
  BY DEF IndInv, TypeOK, Assignment, Owner
<1>3. Progress'
  <2>1. \A v \in Workers : /\ pc'[v] = "done" <=> pc[v] = "done"
                           /\ pc'[v] = "write" <=> pc[v] = "write"
    BY DEF IndInv, TypeOK
  <2>2. ASSUME NEW r \in Rows, main = "busy", r < frame.rows
        PROVE  RowProgress(r, Owner(r))'
    <3>1. Owner(r) \in Workers
      BY <2>2, BusyOwner
    <3>2. RowProgress(r, Owner(r))
      BY <2>2 DEF IndInv, Progress
    <3> QED
      BY <2>1, <3>1, <3>2 DEF RowProgress, Owner
  <2> QED
    BY <2>1, <2>2 DEF IndInv, Progress
<1>4. PublishedIsFiltered' /\ WholeFrameFiltered'
  BY DEF IndInv, PublishedIsFiltered, WholeFrameFiltered
<1>5. StayBehind'
  BY DEF IndInv, TypeOK, StayBehind, FilteredUpTo
<1> QED
  BY <1>1, <1>2, <1>3, <1>4, <1>5 DEF IndInv

\* Filtering a superblock adds it to its own row only.
LEMMA FilterSbInd ==
  ASSUME IndInv, NEW w \in Workers, FilterSb(w)
  PROVE  IndInv'
<1> USE DEF FilterSb, frameVars
<1>0. /\ pc[w] = "filter" /\ filtered[row[w]] = col[w]
      /\ filtered'[row[w]] = col[w] + 1
      /\ \A r \in Rows : r # row[w] => filtered'[r] = filtered[r]
  BY BusyWorker DEF IndInv, TypeOK, Progress
<1>1. TypeOK'
  BY BusyWorker DEF IndInv, TypeOK
<1>2. Assignment'
  BY DEF IndInv, TypeOK, Assignment, Owner
<1>3. Progress'
  <2>1. /\ pc'[w] = "write"
        /\ \A v \in Workers : v # w => pc'[v] = pc[v]
    BY DEF IndInv, TypeOK
  <2>2. ASSUME NEW v \in Workers, v # w, pc[v] # "done"
        PROVE  filtered'[row[v]] = filtered[row[v]]
    BY <1>0, <2>2, DistinctRows, BusyWorker
  <2>3. ASSUME NEW r \in Rows, main = "busy", r < frame.rows
        PROVE  RowProgress(r, Owner(r))'
    <3>1. Owner(r) \in Workers
      BY <2>3, BusyOwner
    <3>2. RowProgress(r, Owner(r))
      BY <2>3 DEF IndInv, Progress
    <3>3. CASE r = row[w]
      <4>1. Owner(r) = w /\ w < launched /\ w \in Nat /\ launched \in Nat
        BY <1>0, <3>3, BusyWorker, RowsNat DEF IndInv, TypeOK
      <4> QED
        BY <2>1, <3>3, <4>1, BusyWorker, <1>0 DEF RowProgress, Owner
    <3>4. CASE r # row[w]
      <4>1. pc'[Owner(r)] = "done" <=> pc[Owner(r)] = "done"
        BY <1>0, <2>1, <3>1
      <4> QED
        BY <1>0, <3>2, <3>4, <4>1 DEF RowProgress, Owner
    <3> QED
      BY <3>3, <3>4
  <2> QED
    BY <1>0, <2>1, <2>2, <2>3 DEF IndInv, Progress
<1>4. PublishedIsFiltered'
  <2> SUFFICES ASSUME NEW r \in Rows, r < frame.rows, main = "busy"
               PROVE  /\ curSbCol[r] < frame.cols => curSbCol[r] < filtered'[r]
                      /\ curSbCol[r] >= frame.cols
                           => filtered'[r] = frame.cols
    BY DEF PublishedIsFiltered
  <2>1. /\ curSbCol[r] < frame.cols => curSbCol[r] < filtered[r]
        /\ curSbCol[r] >= frame.cols => filtered[r] = frame.cols
    BY DEF IndInv, PublishedIsFiltered
  <2>2. curSbCol[r] \in Int
    BY DEF IndInv, TypeOK
  <2> QED
    BY <1>0, <2>1, <2>2, BusyWorker
<1>5. StayBehind'
  <2>1. ASSUME NEW r \in Rows, NEW n \in Int, FilteredUpTo(r, n)
        PROVE  FilteredUpTo(r, n)'
    BY <1>0, <2>1, BusyWorker DEF FilteredUpTo
  <2>2. ASSUME NEW v \in Workers, row[v] > 0,
               \/ pc'[v] \in {"filter", "write"}
               \/ pc'[v] \in {"read", "wait"} /\ col[v] % syncRange # 0
        PROVE  FilteredUpTo(row[v] - 1,
                            col[v] - (col[v] % syncRange) + syncRange + 1)'
    <3>1. /\ pc[v] # "done"
          /\ \/ pc[v] \in {"filter", "write"}
             \/ pc[v] \in {"read", "wait"} /\ col[v] % syncRange # 0
      BY <1>0, <2>2 DEF IndInv, TypeOK
    <3>2. FilteredUpTo(row[v] - 1,
                       col[v] - (col[v] % syncRange) + syncRange + 1)
      BY <2>2, <3>1 DEF IndInv, StayBehind
    <3>3. /\ row[v] - 1 \in Rows /\ syncRange \in Nat \ {0}
          /\ col[v] \in Nat
      BY <2>2, <3>1, BusyWorker
    <3>4. col[v] % syncRange \in Int
      BY <3>3, DivMod
    <3>5. col[v] - (col[v] % syncRange) + syncRange + 1 \in Int
      BY <3>3, <3>4
    <3> HIDE DEF FilterSb
    <3>6. FilteredUpTo(row[v] - 1,
                       col[v] - (col[v] % syncRange) + syncRange + 1)
          => (\/ filtered'[row[v] - 1]
                   >= col[v] - (col[v] % syncRange) + syncRange + 1
              \/ filtered'[row[v] - 1] = frame.cols)
      BY <2>1, <3>3, <3>5 DEF FilteredUpTo, FilterSb
    <3> QED
      BY <3>2, <3>6 DEF FilteredUpTo, FilterSb
  <2> QED
    BY <2>2 DEF StayBehind
<1>6. WholeFrameFiltered'
  BY <1>0, BusyWorker DEF WholeFrameFiltered
<1> QED
  BY <1>1, <1>2, <1>3, <1>4, <1>5, <1>6 DEF IndInv

\* What sync_write() leaves alone, and what it does to the worker's place.
LEMMA SyncWriteFacts ==
  ASSUME IndInv, NEW w \in Workers, SyncWrite(w)
  PROVE  /\ pc[w] = "write" /\ filtered[row[w]] = col[w] + 1
         /\ filtered' = filtered /\ frame' = frame /\ main' = main
         /\ launched' = launched /\ numActive' = numActive
         /\ syncRange' = syncRange
         /\ waiting' \subseteq waiting /\ w \notin waiting
         /\ \A v \in Workers : v # w => /\ pc'[v] = pc[v] /\ row'[v] = row[v]
                                       /\ col'[v] = col[v]
         /\ \/ /\ col[w] < frame.cols - 1 /\ pc'[w] = "read"
               /\ col'[w] = col[w] + 1 /\ row'[w] = row[w]
            \/ /\ col[w] = frame.cols - 1 /\ pc'[w] = "read" /\ col'[w] = 0
               /\ row'[w] = row[w] + numActive
               /\ row[w] + numActive < frame.rows
            \/ /\ col[w] = frame.cols - 1 /\ pc'[w] = "done"
               /\ ~(row[w] + numActive < frame.rows)
<1> USE DEF SyncWrite, frameVars
<1>1. pc[w] = "write" /\ w \notin waiting
  BY DEF IndInv, Assignment
<1>2. filtered[row[w]] = col[w] + 1
  BY <1>1 DEF IndInv, Progress
<1>3. waiting' \subseteq waiting
  OBVIOUS
<1>4. \A v \in Workers : v # w => /\ pc'[v] = pc[v] /\ row'[v] = row[v]
                                /\ col'[v] = col[v]
  BY DEF IndInv, TypeOK
<1>5. CASE col[w] < frame.cols - 1
  BY <1>1, <1>2, <1>3, <1>4, <1>5 DEF IndInv, TypeOK
<1>6. CASE ~(col[w] < frame.cols - 1)
  <2>1. col[w] = frame.cols - 1
    BY <1>1, <1>6, BusyWorker
  <2>2. CASE row[w] + numActive < frame.rows
    BY <1>1, <1>2, <1>3, <1>4, <1>6, <2>1, <2>2
       DEF IndInv, TypeOK, InFrame, NextRow
  <2>3. CASE ~(row[w] + numActive < frame.rows)
    BY <1>1, <1>2, <1>3, <1>4, <1>6, <2>1, <2>3
       DEF IndInv, TypeOK, InFrame, NextRow
  <2> QED
    BY <2>2, <2>3
<1> QED
  BY <1>5, <1>6

\* sync_write publishes no more than was filtered, and the worker goes on to
\* the next superblock, to its next row, or is done.
LEMMA SyncWriteInd ==
  ASSUME IndInv, NEW w \in Workers, SyncWrite(w)
  PROVE  IndInv'
<1>0. /\ numActive \in Nat \ {0} /\ row[w] + numActive \in Nat
      /\ Owner(row[w] + numActive) = w /\ pc[w] = "write"
  BY SyncWriteFacts, BusyWorker, BusyOwner, OwnerFacts
<1>00. \A r : Owner(r)' = Owner(r)
  BY SyncWriteFacts DEF Owner
<1>1. TypeOK'
  <2>1. row' \in [Workers -> Rows]
    <3>1. row[w] + numActive < frame.rows => row[w] + numActive \in Rows
      BY <1>0, BusyWorker, RowsNat DEF Rows
    <3> QED
      BY <3>1 DEF IndInv, TypeOK, SyncWrite, InFrame, NextRow
  <2>2. curSbCol' \in [Rows -> Int]
    BY FrameFacts DEF IndInv, TypeOK, SyncWrite, Published
  <2>3. /\ pc' \in [Workers -> {"read", "wait", "filter", "write", "done"}]
        /\ col' \in [Workers -> Nat]
    BY DEF IndInv, TypeOK, SyncWrite
  <2> QED
    BY <2>1, <2>2, <2>3, SyncWriteFacts
       DEF IndInv, TypeOK, SyncWrite, frameVars
<1>2. Assignment'
  <2>1. ASSUME NEW v \in Workers, pc'[v] # "done"
        PROVE  /\ v < launched /\ row'[v] < frame.rows
               /\ col'[v] < frame.cols /\ Owner(row'[v]) = v
    <3>1. CASE v # w
      BY <2>1, <3>1, SyncWriteFacts DEF IndInv, Assignment
    <3>2. CASE v = w
      BY <1>0, <2>1, <3>2, SyncWriteFacts, BusyWorker
    <3> QED
      BY <3>1, <3>2
  <2>2. \A v \in waiting' : pc'[v] = "wait"
    BY SyncWriteFacts DEF IndInv, TypeOK, Assignment
  <2>3. main = "busy"
    BY <1>0, BusyWorker
  <2> QED
    BY <1>00, <2>1, <2>2, <2>3, SyncWriteFacts DEF IndInv, Assignment
<1>3. Progress'
  <2>1. ASSUME NEW r \in Rows, r < frame.rows
        PROVE  /\ RowProgress(r, Owner(r)) /\ Owner(r) \in Workers
               /\ Owner(r) \in Nat /\ launched \in Nat /\ r \in Nat
               /\ main = "busy"
    <3>1. main = "busy"
      BY <1>0, BusyWorker
    <3> QED
      BY <2>1, <3>1, BusyOwner, RowsNat DEF IndInv, TypeOK, Progress
  <2>2. ASSUME NEW v \in Workers, pc'[v] # "done"
        PROVE  filtered[row'[v]]
                 = IF pc'[v] = "write" THEN col'[v] + 1 ELSE col'[v]
    <3>1. CASE v # w
      BY <2>2, <3>1, SyncWriteFacts DEF IndInv, Progress
    <3>2. CASE v = w /\ col[w] < frame.cols - 1
      BY <1>0, <3>2, SyncWriteFacts, BusyWorker
    <3>3. CASE v = w /\ ~(col[w] < frame.cols - 1)
      <4>1. /\ col'[w] = 0 /\ pc'[w] = "read"
            /\ row'[w] = row[w] + numActive /\ row'[w] < frame.rows
        BY <2>2, <3>3, SyncWriteFacts
      <4>2. row'[w] \in Rows /\ row'[w] > row[w]
        BY <1>0, <4>1, BusyWorker, RowsNat DEF Rows
      <4>3. Owner(row'[w]) = w /\ w < launched
        BY <1>0, <4>1, BusyWorker
      <4> QED
        BY <1>0, <2>1, <3>3, <4>1, <4>2, <4>3 DEF RowProgress
    <3> QED
      BY <3>1, <3>2, <3>3
  <2>3. ASSUME NEW r \in Rows, r < frame.rows
        PROVE  RowProgress(r, Owner(r))'
    <3>1. CASE Owner(r) # w
      BY <1>00, <2>1, <2>3, <3>1, SyncWriteFacts DEF RowProgress
    <3>2. CASE Owner(r) = w
      <4>1. /\ w < launched /\ w \in Nat /\ launched \in Nat
            /\ r > row[w] => filtered[r] = 0
            /\ r < row[w] => filtered[r] = frame.cols
        BY <1>0, <2>1, <2>3, <3>2, BusyWorker DEF RowProgress
      <4>2. ~(row[w] < r /\ r < row[w] + numActive)
        BY <1>0, <2>1, <2>3, <3>2, OwnerFacts, BusyWorker
      <4>3. CASE col[w] < frame.cols - 1
        BY <1>0, <1>00, <3>2, <4>1, <4>3, SyncWriteFacts, BusyWorker
           DEF RowProgress
      <4>4. CASE ~(col[w] < frame.cols - 1)
        <5>1. col[w] = frame.cols - 1 /\ filtered[row[w]] = frame.cols
          BY <1>0, <4>4, SyncWriteFacts, BusyWorker
        <5>2. r <= row[w] => filtered[r] = frame.cols
          BY <1>0, <2>1, <2>3, <4>1, <5>1, BusyWorker
        <5>3. CASE pc'[w] = "done"
          <6>1. r < row[w] + numActive
            BY <1>0, <2>1, <2>3, <4>4, <5>3, SyncWriteFacts, BusyWorker
          <6>2. r <= row[w]
            BY <1>0, <2>1, <2>3, <4>2, <6>1, BusyWorker
          <6> QED
            BY <1>00, <3>2, <4>1, <5>2, <5>3, <6>2, SyncWriteFacts
               DEF RowProgress
        <5>4. CASE pc'[w] # "done"
          <6>1. row'[w] = row[w] + numActive /\ pc'[w] = "read"
            BY <4>4, <5>4, SyncWriteFacts
          <6>2. r < row'[w] => r <= row[w]
            BY <1>0, <2>1, <2>3, <4>2, <6>1, BusyWorker
          <6>3. r > row'[w] => r > row[w]
            BY <1>0, <2>1, <2>3, <6>1, BusyWorker
          <6> QED
            BY <1>00, <3>2, <4>1, <5>2, <6>1, <6>2, <6>3, SyncWriteFacts
               DEF RowProgress
        <5> QED
          BY <5>3, <5>4
      <4> QED
        BY <4>3, <4>4
    <3> QED
      BY <3>1, <3>2
  <2> QED
    BY <2>2, <2>3, SyncWriteFacts DEF Progress
<1>4. PublishedIsFiltered'
  <2> SUFFICES ASSUME NEW r \in Rows, r < frame.rows
               PROVE  /\ curSbCol'[r] < frame.cols
                           => curSbCol'[r] < filtered[r]
                      /\ curSbCol'[r] >= frame.cols
                           => filtered[r] = frame.cols
    BY SyncWriteFacts DEF PublishedIsFiltered
  <2>1. /\ curSbCol[r] < frame.cols => curSbCol[r] < filtered[r]
        /\ curSbCol[r] >= frame.cols => filtered[r] = frame.cols
    BY <1>0, BusyWorker DEF IndInv, PublishedIsFiltered
  <2>2. CASE curSbCol'[r] = curSbCol[r]
    BY <2>1, <2>2
  <2>3. CASE curSbCol'[r] # curSbCol[r]
    <3>1. r = row[w] /\ curSbCol'[r] = Published(col[w])
      BY <2>3 DEF IndInv, TypeOK, SyncWrite
    <3>2. CASE col[w] < frame.cols - 1
      BY <1>0, <3>1, <3>2, SyncWriteFacts, BusyWorker DEF Published
    <3>3. CASE col[w] = frame.cols - 1
      BY <1>0, <3>1, <3>3, SyncWriteFacts, BusyWorker DEF Published
    <3> QED
      BY <1>0, <3>2, <3>3, BusyWorker
  <2> QED
    BY <2>2, <2>3
<1>5. StayBehind'
  <2> DEFINE Ahead(c) == c - (c % syncRange) + syncRange + 1
  <2>1. ASSUME NEW v \in Workers, row'[v] > 0,
               \/ pc'[v] \in {"filter", "write"}
               \/ pc'[v] \in {"read", "wait"} /\ col'[v] % syncRange # 0
        PROVE  FilteredUpTo(row'[v] - 1, Ahead(col'[v]))
    <3>1. CASE v # w
      BY <2>1, <3>1, SyncWriteFacts DEF IndInv, StayBehind
    <3>2. CASE v = w
      <4>1. 0 % syncRange = 0
        BY <1>0, BusyWorker, ModSmall
      <4>2. /\ col[w] < frame.cols - 1 /\ col'[w] = col[w] + 1
            /\ row'[w] = row[w] /\ (col[w] + 1) % syncRange # 0
        BY <2>1, <3>2, <4>1, SyncWriteFacts
      <4>3. FilteredUpTo(row[w] - 1, Ahead(col[w]))
        BY <1>0, <2>1, <3>2, <4>2 DEF IndInv, StayBehind
      <4>4. (col[w] + 1) % syncRange = (col[w] % syncRange) + 1
        BY <1>0, <4>2, BusyWorker, ModStep
      <4>5. col[w] % syncRange \in Int /\ col[w] \in Int /\ syncRange \in Int
        BY <1>0, BusyWorker, DivMod
      <4>6. Ahead(col'[w]) = Ahead(col[w])
        BY <4>2, <4>4, <4>5
      <4> QED
        BY <3>2, <4>2, <4>3, <4>6
    <3> QED
      BY <3>1, <3>2
  <2> QED
    BY <2>1, SyncWriteFacts DEF StayBehind, FilteredUpTo
<1>6. WholeFrameFiltered'
  BY <1>0, BusyWorker, SyncWriteFacts DEF WholeFrameFiltered
<1> QED
  BY <1>1, <1>2, <1>3, <1>4, <1>5, <1>6 DEF IndInv

-----------------------------------------------------------------------------
(* The theorems.                                                           *)

\* The inductive invariant holds in every reachable state.
THEOREM Invariance == Spec => []IndInv
<1>1. IndInv /\ [Next]_vars => IndInv'
  <2> SUFFICES ASSUME IndInv, [Next]_vars PROVE IndInv'
    OBVIOUS
  <2>1. ASSUME NEW f \in Frames, NEW n \in 1 .. MaxWorkers, StartFrame(f, n)
        PROVE  IndInv'
    BY <2>1, StartFrameInd
  <2>2. CASE LaunchWorker \/ EndFrame
    BY <2>2, LaunchInd, EndFrameInd
  <2>3. ASSUME NEW w \in Workers, WorkerStep(w) \/ SpuriousWakeup(w)
        PROVE  IndInv'
    BY <2>3, SyncReadInd, WakeInd, FilterSbInd, SyncWriteInd DEF WorkerStep
  <2>4. CASE UNCHANGED vars
    BY <2>4
       DEF vars, IndInv, TypeOK, Assignment, Owner, Progress, RowProgress,
           PublishedIsFiltered, StayBehind, FilteredUpTo, WholeFrameFiltered
  <2> QED
    BY <2>1, <2>2, <2>3, <2>4 DEF Next
<1> QED
  BY InitIndInv, <1>1, PTL DEF Spec

\* A superblock is filtered only after the one above and to the right of it,
\* for every frame size, sync_range and number of workers, also when the frame
\* runs with the sync_range of an earlier one.
THEOREM FilterOrder == Spec => []AboveRightFiltered
<1>1. IndInv => AboveRightFiltered
  <2> SUFFICES ASSUME IndInv, NEW w \in Workers, pc[w] = "filter", row[w] > 0
               PROVE  FilteredUpTo(row[w] - 1, col[w] + 2)
    BY DEF AboveRightFiltered
  <2>1. FilteredUpTo(row[w] - 1,
                     col[w] - (col[w] % syncRange) + syncRange + 1)
    BY DEF IndInv, StayBehind
  <2>2. /\ col[w] \in Nat /\ syncRange \in Nat \ {0}
        /\ filtered[row[w] - 1] \in Nat
    BY BusyWorker
  <2>3. col[w] % syncRange \in 0 .. syncRange - 1
    BY <2>2, DivMod
  <2>4. col[w] - (col[w] % syncRange) + syncRange + 1 >= col[w] + 2
    BY <2>2, <2>3
  <2>5. col[w] - (col[w] % syncRange) + syncRange + 1 \in Int
    BY <2>2, <2>3
  <2> QED
    BY <2>1, <2>2, <2>4, <2>5 DEF FilteredUpTo
<1> QED
  BY Invariance, <1>1, PTL

\* When loop_filter_rows_mt() returns, every superblock of the frame has been
\* filtered, once; while it runs, no counter is ahead of the filter.
THEOREM FrameFiltered == Spec => [](WholeFrameFiltered /\ PublishedIsFiltered)
<1>1. IndInv => WholeFrameFiltered /\ PublishedIsFiltered
  BY DEF IndInv
<1> QED
  BY Invariance, <1>1, PTL

\* The condition variable of a row has at most one waiter.
THEOREM SingleWaiter == Spec => []OneWaiterPerRow
<1>1. IndInv => OneWaiterPerRow
  <2> SUFFICES ASSUME IndInv, NEW r \in Rows
               PROVE  Cardinality(WaitersOn(r)) <= 1
    BY DEF OneWaiterPerRow
  <2>1. \A v, w \in WaitersOn(r) : v = w
    BY DistinctRows DEF WaitersOn, IndInv, TypeOK, Assignment
  <2>2. CASE WaitersOn(r) = {}
    BY <2>2, FS_EmptySet
  <2>3. CASE WaitersOn(r) # {}
    <3>1. PICK v : v \in WaitersOn(r)
      BY <2>3
    <3>2. WaitersOn(r) = {v}
      BY <2>1, <3>1
    <3> QED
      BY <3>2, FS_Singleton
  <2> QED
    BY <2>2, <2>3
<1> QED
  BY Invariance, <1>1, PTL
=============================================================================
