---------------------------- MODULE Vp8RowMtProofs ----------------------------
(***************************************************************************)
(* The safety of VP8's multithreaded decoding, for any number of threads   *)
(* and for any sequence of frames of any shapes.                           *)
(***************************************************************************)
EXTENDS Vp8RowMt, FiniteSetTheorems, TLAPS

-----------------------------------------------------------------------------
(* Division: rows are dealt out by their remainders, and columns wait at   *)
(* the multiples of nsync.                                                 *)

\* Different multiples of n are at least n apart.
LEMMA MulGap ==
  ASSUME NEW n \in Nat \ {0}, NEW a \in Int, NEW b \in Int, a < b
  PROVE  n * a + n <= n * b
<1>1. n * (b - a - 1) >= 0
  OBVIOUS
<1>2. n * (b - a - 1) = n * b - n * a - n
  OBVIOUS
<1> QED
  BY <1>1, <1>2

\* The remainder is determined by any decomposition.
LEMMA ModUnique ==
  ASSUME NEW n \in Nat \ {0}, NEW q \in Int, NEW m \in 0 .. n - 1
  PROVE  (n * q + m) % n = m
<1> DEFINE x == n * q + m
           q1 == x \div n
           m1 == x % n
<1>1. /\ q1 \in Int /\ m1 \in 0 .. n - 1
      /\ x = n * q1 + m1
  OBVIOUS
<1>2. ~(q1 < q)
  BY <1>1, MulGap
<1>3. ~(q < q1)
  BY <1>1, MulGap
<1> QED
  BY <1>1, <1>2, <1>3

\* The numbers below n are their own remainders.
LEMMA ModSmall ==
  ASSUME NEW n \in Nat \ {0}, NEW m \in 0 .. n - 1
  PROVE  m % n = m
BY ModUnique, n * 0 + m = m

\* Division with remainder.
LEMMA DivMod ==
  ASSUME NEW n \in Nat \ {0}, NEW x \in Nat
  PROVE  \E q \in Int, m \in 0 .. n - 1 : x = n * q + m /\ x % n = m
<1> DEFINE q == x \div n
           m == x % n
<1>1. q \in Int /\ m \in 0 .. n - 1 /\ x = n * q + m
  OBVIOUS
<1> HIDE DEF q
<1> QED
  BY <1>1

\* A thread's next row is a row of its own.
LEMMA ModAdd ==
  ASSUME NEW n \in Nat \ {0}, NEW r \in Nat
  PROVE  (r + n) % n = r % n
<1>1. PICK q \in Int, m \in 0 .. n - 1 : r = n * q + m /\ r % n = m
  BY DivMod
<1>2. r + n = n * (q + 1) + m
  BY <1>1
<1>3. (n * (q + 1) + m) % n = m
  BY ModUnique
<1> QED
  BY <1>1, <1>2, <1>3

\* Between two consecutive rows of a thread there is no other row of its own.
LEMMA ModGap ==
  ASSUME NEW n \in Nat \ {0}, NEW r \in Nat, NEW s \in Nat,
         r < s, s < r + n
  PROVE  s % n # r % n
<1> SUFFICES ASSUME s % n = r % n PROVE FALSE
  OBVIOUS
<1>1. PICK q \in Int, m \in 0 .. n - 1 : r = n * q + m /\ r % n = m
  BY DivMod
<1>2. PICK q2 \in Int, m2 \in 0 .. n - 1 : s = n * q2 + m2 /\ s % n = m2
  BY DivMod
<1>3. m = m2
  BY <1>1, <1>2
<1>4. q = q2 \/ q < q2 \/ q2 < q
  OBVIOUS
<1> QED
  BY <1>1, <1>2, <1>3, <1>4, MulGap

\* Between two synchronisation points the distance to the last one grows by
\* one.
LEMMA ModStep ==
  ASSUME NEW n \in Nat \ {0}, NEW c \in Nat, (c + 1) % n # 0
  PROVE  (c + 1) % n = (c % n) + 1
<1>1. PICK q \in Int, m \in 0 .. n - 1 : c = n * q + m /\ c % n = m
  BY DivMod
<1>2. CASE m = n - 1
  <2>1. c + 1 = n * (q + 1) + 0
    BY <1>1, <1>2
  <2>2. (n * (q + 1) + 0) % n = 0
    BY ModUnique
  <2> QED
    BY <2>1, <2>2
<1>3. CASE m < n - 1
  <2>1. c + 1 = n * q + (m + 1)
    BY <1>1
  <2>2. (n * q + (m + 1)) % n = m + 1
    BY <1>3, ModUnique
  <2> QED
    BY <1>1, <2>1, <2>2
<1> QED
  BY <1>2, <1>3

-----------------------------------------------------------------------------
(* Facts about the definitions.                                            *)

\* Smallest(S), where there is one.
LEMMA SmallestIs ==
  ASSUME NEW S, \E x \in S : \A y \in S : x <= y
  PROVE  Smallest(S) \in S /\ \A y \in S : Smallest(S) <= y
BY DEF Smallest

\* What the assumption says of a frame.
LEMMA FrameFacts ==
  ASSUME NEW f \in Frames
  PROVE  /\ f.rows \in Nat \ {0} /\ f.cols \in Nat \ {0}
         /\ f.nsync \in Nat \ {0} /\ f.parts \in Nat \ {0}
         /\ \A r \in 0 .. f.rows - 1 : r \in Rows
BY ShapeAssumption DEF Rows

\* Threads and rows are numbered.
LEMMA Numbers ==
  /\ MaxThreads \in Nat \ {0}
  /\ 0 \in Threads /\ 0 \notin Workers
  /\ \A t \in Threads : t \in Nat /\ (t # 0 => t \in Workers)
  /\ \A t \in Workers : t \in Nat \ {0} /\ t \in Threads
  /\ \A r \in Rows : r \in Nat
<1>1. \A r \in Rows : r \in Nat
  BY ShapeAssumption DEF Rows
<1> QED
  BY <1>1, ShapeAssumption DEF Threads, Workers

\* Every row has an owner among n + 1 threads, and the first ones their own.
LEMMA Owner ==
  ASSUME NEW n \in Nat
  PROVE  /\ \A r \in Nat : r % (n + 1) \in 0 .. n
         /\ \A t \in 0 .. n : t % (n + 1) = t
<1>1. ASSUME NEW t \in 0 .. n PROVE t % (n + 1) = t
  BY ModSmall, n + 1 \in Nat \ {0}, t \in 0 .. (n + 1) - 1
<1> QED
  BY <1>1

\* A thread that has rows is one of those of the frame, and has begun.
LEMMA AtWork ==
  ASSUME IndInv, NEW t \in Threads,
         pc[t] \in InRow \cup {"release", "post"}
  PROVE  /\ pc[0] \in InFrame /\ t \in 0 .. count /\ ~Unbegun(t) /\ mt
         /\ t = 0 => pc[0] # "start"
<1>1. CASE t = 0
  BY <1>1 DEF IndInv, TypeOK, Started, Unbegun, InFrame, InRow
<1>2. CASE t # 0
  <2>1. t \in Workers /\ count \in Nat /\ t \in Nat
    BY <1>2, Numbers DEF IndInv, TypeOK
  <2>2. pc[t] \notin AtRest
    BY DEF InRow, AtRest
  <2>3. pc[0] \notin {"restart", "between", "remove", "join"}
    BY <2>1, <2>2 DEF IndInv, Started, Resting, AtRest
  <2>4. pc[0] \in InFrame
    BY <2>3, Numbers DEF IndInv, TypeOK
  <2> QED
    BY <1>2, <2>1, <2>4 DEF IndInv, Started, Resting, Unbegun, InRow
<1> QED
  BY <1>1, <1>2

\* The threads of a frame are threads.
LEMMA Dealt ==
  ASSUME TypeOK
  PROVE  /\ count \in Nat
         /\ \A t \in 0 .. count : t \in Threads /\ (t # 0 => t \in Workers)
BY Numbers DEF TypeOK, Threads, Workers

-----------------------------------------------------------------------------
(* A step of thread t within its rows: what it leaves alone.               *)

StepOf(t) ==
  /\ pc[t] \in InRow \cup {"release"}
  /\ \/ /\ \E l \in InRow \cup {"release", "post"} :
            pc' = [pc EXCEPT ![t] = l]
        /\ turn' = turn
     \/ /\ t = 0 /\ pc' = [pc EXCEPT ![0] = "drain"]
        /\ turn' = 1
  /\ UNCHANGED <<mt, allocated, count, startSem, endSem, frame, key, keyDone,
                 refBad, result>>

\* It changes what belongs to t and to its row.
Within(t) ==
  /\ \A u \in Threads \ {t} : /\ row'[u] = row[u] /\ col'[u] = col[u]
                              /\ corrupted'[u] = corrupted[u]
  /\ \A r \in 0 .. frame.rows - 1 :
       r # row[t] => mbCol'[r] = mbCol[r] /\ decoded'[r] = decoded[r]

\* The other threads are where they were.
LEMMA OthersStay ==
  ASSUME IndInv, NEW t \in Threads, StepOf(t)
  PROVE  /\ pc[0] \in InFrame /\ pc'[0] \in InFrame
         /\ t \in 0 .. count /\ ~Unbegun(t)
         /\ pc'[0] = "start" <=> pc[0] = "start"
         /\ \A u \in Threads : /\ u # t => pc'[u] = pc[u]
                               /\ Unbegun(u)' <=> Unbegun(u)
<1>1. pc[0] \in InFrame /\ t \in 0 .. count /\ ~Unbegun(t)
      /\ (t = 0 => pc[0] # "start")
  BY AtWork DEF StepOf
<1>2. \A u \in Threads : u # t => pc'[u] = pc[u]
  BY DEF StepOf, IndInv, TypeOK
<1>3. pc'[0] \in InFrame /\ (pc'[0] = "start" <=> pc[0] = "start")
      /\ (pc[0] = "start" => turn' = turn)
  <2>1. CASE t = 0
    BY <1>1, <2>1, Numbers DEF StepOf, IndInv, TypeOK, InFrame, InRow
  <2>2. CASE t # 0
    BY <1>1, <1>2, <2>2, Numbers DEF StepOf, InFrame
  <2> QED
    BY <2>1, <2>2
<1>4. ASSUME NEW u \in Threads PROVE Unbegun(u)' <=> Unbegun(u)
  BY <1>3 DEF Unbegun, StepOf
<1> QED
  BY <1>1, <1>2, <1>3, <1>4

\* The threads are started and have posted as before.
LEMMA StepStarted ==
  ASSUME IndInv, NEW t \in Threads, StepOf(t)
  PROVE  Started' /\ Posted' /\ CleanIsComplete'
<1> USE OthersStay
<1>1. t # 0 => t \in Workers /\ ~(count < t)
  BY Dealt, Numbers DEF IndInv
<1>2. Started'
  <2>1. ASSUME NEW u \in Workers
        PROVE  /\ startSem'[u] \in {0, 1}
               /\ pc'[u] \notin {"none", "exited"}
               /\ count' < u => Resting(u)'
               /\ pc'[0] = "start" /\ turn' <= u => startSem'[u] = 0
               /\ Unbegun(u)' => pc'[u] \in {"top", "sleep"}
    <3>1. pc'[0] = "start" => turn' = turn
      BY DEF StepOf, IndInv, TypeOK, InRow
    <3>2. CASE u = t
      BY <1>1, <3>1, <3>2, Numbers
         DEF StepOf, IndInv, TypeOK, Started, Resting, InRow
    <3>3. CASE u # t
      BY <3>1, <3>3, Numbers DEF StepOf, IndInv, Started, Resting
    <3> QED
      BY <3>2, <3>3
  <2>2. pc'[0] = "start" => turn' \in 1 .. count' + 1
    BY DEF StepOf, IndInv, TypeOK, Started, InRow
  <2>3. mt' /\ count' < frame'.rows
    BY DEF StepOf, IndInv, Started
  <2> QED
    BY <2>1, <2>2, <2>3 DEF Started, InFrame
<1>3. Finished' = Finished
  <2>1. ASSUME NEW u \in 1 .. count
        PROVE pc'[u] \in {"top", "sleep"} <=> pc[u] \in {"top", "sleep"}
    BY <1>1, Dealt, Numbers DEF StepOf, IndInv, TypeOK, InRow
  <2>2. ASSUME NEW u \in 1 .. count PROVE Unbegun(u)' <=> Unbegun(u)
    BY Dealt DEF IndInv
  <2> QED
    BY <2>1, <2>2 DEF Finished, StepOf
<1>4. Posted'
  <2>1. CASE t = 0
    <3>1. endSem = Cardinality(Finished) /\ endSem' = endSem /\ count \in Nat
      BY <2>1, Dealt DEF StepOf, IndInv, Posted, InFrame, InRow
    <3>2. pc'[0] # "finish" /\ (pc'[0] = "drain" => turn' = 1)
      BY <2>1, Numbers DEF StepOf, IndInv, TypeOK, InRow
    <3> QED
      BY <1>3, <3>1, <3>2 DEF Posted, StepOf
  <2>2. CASE t # 0
    BY <1>3, <2>2, Numbers DEF StepOf, IndInv, Posted
  <2> QED
    BY <2>1, <2>2
<1>5. CleanIsComplete'
  BY DEF CleanIsComplete, InFrame
<1> QED
  BY <1>2, <1>4, <1>5

\* The rows of the other threads are as they were: it is enough to look at those
\* of t.
LEMMA StepRows ==
  ASSUME IndInv, NEW t \in Threads, StepOf(t),
         Within(t),
         \A r \in 0 .. frame.rows - 1 :
           r % (count + 1) = t => RowState(t, r)'
  PROVE  RowStates'
<1>1. ASSUME NEW r \in 0 .. frame.rows - 1, NEW u \in 0 .. count,
             u = r % (count + 1)
      PROVE  RowState(u, r)'
  <2>1. u \in Threads
    BY Dealt DEF IndInv
  <2>2. CASE u = t
    BY <1>1, <2>2
  <2>3. CASE u # t
    <3>1. r # row[t]
      BY <1>1, <2>3, OthersStay DEF IndInv, InHand, OwnRow, StepOf
    <3>2. RowState(u, r)
      BY <1>1, OthersStay DEF IndInv, RowStates
    <3>3. pc'[u] = pc[u] /\ (Unbegun(u)' <=> Unbegun(u)) /\ frame' = frame
          /\ (u = 0 => pc'[0] = pc[0])
      BY <2>1, <2>3, OthersStay DEF StepOf
    <3>4. /\ row'[u] = row[u] /\ col'[u] = col[u]
          /\ corrupted'[u] = corrupted[u]
          /\ mbCol'[r] = mbCol[r] /\ decoded'[r] = decoded[r]
      BY <2>1, <2>3, <3>1 DEF Within
    <3> QED
      BY <3>2, <3>3, <3>4 DEF RowState
  <2> QED
    BY <2>2, <2>3
<1>2. \A r \in 0 .. frame.rows - 1 : r % (count + 1) \in 0 .. count
  BY Owner, Dealt, FrameFacts DEF IndInv, TypeOK
<1> QED
  BY <1>1, <1>2 DEF RowStates, StepOf

\* The invariant is kept when it is for the thread that makes the step.
LEMMA StepInv ==
  ASSUME IndInv, NEW t \in Threads, StepOf(t), Within(t),
         row' \in [Threads -> Nat], col' \in [Threads -> Nat],
         corrupted' \in [Threads -> BOOLEAN],
         mbCol' \in [Rows -> Int], decoded' \in [Rows -> Nat],
         missing' \in BOOLEAN,
         mbCol'[row[t]] >= mbCol[row[t]],
         OwnRow(t)', Behind(t)',
         \A r \in 0 .. frame.rows - 1 :
           r % (count + 1) = t => RowState(t, r)'
  PROVE  IndInv'
<1>1. pc[0] \in InFrame /\ pc'[0] \in InFrame /\ t \in 0 .. count
      /\ \A u \in Threads : u # t => pc'[u] = pc[u]
  BY OthersStay
<1>2. TypeOK'
  <2>1. pc' \in [Threads -> InFrame \cup AtRest
                            \cup {"restart", "between", "remove", "join"}]
    BY DEF IndInv, TypeOK, StepOf, InFrame, InRow
  <2>2. pc'[0] \notin AtRest
    BY <1>1 DEF InFrame, AtRest
  <2>3. \A u \in Workers :
          pc'[u] \in InRow \cup {"release", "post"} \cup AtRest
    BY <1>1, Numbers DEF IndInv, TypeOK, StepOf
  <2> QED
    BY <2>1, <2>2, <2>3 DEF IndInv, TypeOK, StepOf
<1>3. InHand'
  <2>1. ASSUME NEW u \in 0 .. count PROVE OwnRow(u)'
    <3>1. CASE u = t
      BY <3>1
    <3>2. CASE u # t
      <4>1. OwnRow(u) /\ u \in Threads
        BY <1>1, Dealt DEF IndInv, InHand
      <4> QED
        BY <1>1, <3>2, <4>1 DEF OwnRow, Within, StepOf
    <3> QED
      BY <3>1, <3>2
  <2> QED
    BY <2>1 DEF InHand, StepOf
<1>4. StaysBehind'
  <2>1. ASSUME NEW u \in 0 .. count PROVE Behind(u)'
    <3>1. CASE u = t
      BY <3>1
    <3>2. CASE u # t
      <4>1. OwnRow(u) /\ Behind(u) /\ u \in Threads
        BY <1>1, Dealt DEF IndInv, InHand, StaysBehind
      <4>2. /\ pc'[u] = pc[u] /\ row'[u] = row[u] /\ col'[u] = col[u]
            /\ frame' = frame
        BY <1>1, <3>2, <4>1 DEF Within, StepOf
      <4>3. row[u] \in Nat /\ col[u] \in Nat
            /\ frame.rows \in Nat /\ frame.nsync \in Nat \ {0}
        BY <4>1, FrameFacts DEF IndInv, TypeOK
      <4>4. ASSUME NEW r \in 0 .. frame.rows - 1
            PROVE mbCol'[r] >= mbCol[r] /\ mbCol[r] \in Int /\ mbCol'[r] \in Int
        BY FrameFacts DEF Within, IndInv, TypeOK
      <4> QED
        BY <4>1, <4>2, <4>3, <4>4 DEF Behind, OwnRow, InRow
    <3> QED
      BY <3>1, <3>2
  <2> QED
    BY <2>1 DEF StaysBehind, StepOf
<1> QED
  BY <1>2, <1>3, <1>4, StepStarted, StepRows DEF IndInv

-----------------------------------------------------------------------------
(* The steps of mt_decode_mb_rows().                                       *)

\* What the invariant says of a thread that has a row.
LEMMA Hand ==
  ASSUME IndInv, NEW t \in Threads, pc[t] \in InRow \cup {"release"}
  PROVE  /\ frame.rows \in Nat \ {0} /\ frame.cols \in Nat \ {0}
         /\ frame.nsync \in Nat \ {0} /\ count \in Nat
         /\ t \in 0 .. count /\ ~Unbegun(t)
         /\ row[t] \in 0 .. frame.rows - 1 /\ row[t] \in Rows
         /\ row[t] % (count + 1) = t
         /\ col[t] \in Nat
         /\ OwnRow(t) /\ Behind(t)
         /\ \A r \in 0 .. frame.rows - 1 :
              mbCol[r] \in Int /\ decoded[r] \in Nat /\ r \in Rows
         /\ \A r \in 0 .. frame.rows - 1 :
              r % (count + 1) = t => RowState(t, r)
<1>1. pc[0] \in InFrame /\ t \in 0 .. count /\ ~Unbegun(t)
  BY AtWork
<1>2. OwnRow(t) /\ Behind(t)
  BY <1>1 DEF IndInv, InHand, StaysBehind
<1>3. /\ frame.rows \in Nat \ {0} /\ frame.cols \in Nat \ {0}
      /\ frame.nsync \in Nat \ {0} /\ \A r \in 0 .. frame.rows - 1 : r \in Rows
  BY FrameFacts DEF IndInv, TypeOK
<1>4. row[t] \in Nat /\ col[t] \in Nat /\ count \in Nat
      /\ \A r \in Rows : mbCol[r] \in Int /\ decoded[r] \in Nat
  BY Dealt DEF IndInv, TypeOK
<1>5. row[t] \in 0 .. frame.rows - 1 /\ row[t] % (count + 1) = t
  BY <1>2, <1>3, <1>4 DEF OwnRow
<1>6. \A r \in 0 .. frame.rows - 1 : r % (count + 1) = t => RowState(t, r)
  BY <1>1 DEF IndInv, RowStates
<1> QED
  BY <1>1, <1>2, <1>3, <1>4, <1>5, <1>6

\* The columns published before a macroblock are those that are decoded.
LEMMA PublishInv ==
  ASSUME IndInv, NEW t \in Threads, Publish(t)
  PROVE  IndInv'
<1> USE Hand
<1>0. pc[t] = "publish" /\ pc[t] \in InRow
  BY DEF Publish, InRow
<1>1. StepOf(t)
  BY <1>0 DEF Publish, Goto, StepOf, InRow, sems, shape
<1>2. pc'[t] = "wait" /\ pc'[t] \in InRow /\ ~(Unbegun(t)')
  BY <1>1, OthersStay DEF Publish, Goto, IndInv, TypeOK, InRow
<1>3. /\ mbCol' \in [Rows -> Int]
      /\ \A r \in 0 .. frame.rows - 1 : r # row[t] => mbCol'[r] = mbCol[r]
      /\ mbCol'[row[t]] \in {mbCol[row[t]], col[t] - 1}
  BY <1>0 DEF Publish, IndInv, TypeOK
<1>4. /\ UNCHANGED <<row, col, corrupted, decoded, missing, frame, count>>
  BY DEF Publish, shape, history
<1>5. RowState(t, row[t])
  BY <1>0
<1>6. decoded[row[t]] = col[t] /\ mbCol[row[t]] < col[t]
      /\ col[t] < frame.cols
  BY <1>0, <1>5 DEF RowState, OwnRow
<1>7. mbCol'[row[t]] >= mbCol[row[t]] /\ mbCol'[row[t]] < col[t]
  BY <1>0, <1>3, <1>6
<1>8. Within(t)
  BY <1>3, <1>4 DEF Within
<1>9. OwnRow(t)'
  BY <1>0, <1>2, <1>4, <1>6 DEF OwnRow, InRow
<1>10. Behind(t)'
  <2>1. row[t] > 0 => mbCol'[row[t] - 1] = mbCol[row[t] - 1]
    BY <1>0, <1>3
  <2> QED
    BY <1>0, <1>2, <1>4, <2>1 DEF Behind
<1>11. ASSUME NEW r \in 0 .. frame.rows - 1, r % (count + 1) = t
       PROVE  RowState(t, r)'
  <2>1. RowState(t, r)
    BY <1>0, <1>11
  <2>2. CASE r = row[t]
    <3>1. mbCol'[r] \in Int /\ row'[t] = r
      BY <1>0, <1>3, <1>4, <2>2
    <3>2. mbCol'[r] <= frame.cols + frame.nsync
      BY <1>0, <1>6, <1>7, <2>2, <3>1
    <3> QED
      BY <1>2, <1>4, <1>6, <1>7, <2>2, <3>1, <3>2 DEF RowState, InRow
  <2>3. CASE r # row[t]
    BY <1>0, <1>2, <1>3, <1>4, <2>1, <2>3 DEF RowState
  <2> QED
    BY <2>2, <2>3
<1> QED
  <2>1. /\ row' \in [Threads -> Nat] /\ col' \in [Threads -> Nat]
        /\ corrupted' \in [Threads -> BOOLEAN]
        /\ decoded' \in [Rows -> Nat] /\ missing' \in BOOLEAN
    BY <1>4 DEF IndInv, TypeOK
  <2> QED
    BY <1>1, <1>3, <1>7, <1>8, <1>9, <1>10, <1>11, <2>1, StepInv

\* Past the wait, the row above is published nsync columns ahead.
LEMMA WaitInv ==
  ASSUME IndInv, NEW t \in Threads, NEW use \in BOOLEAN, Wait(t, use)
  PROVE  IndInv'
<1> USE Hand
<1>0. pc[t] = "wait" /\ pc[t] \in InRow
  BY DEF Wait, InRow
<1>1. pc' = [pc EXCEPT ![t] = IF corrupted'[t] THEN "release" ELSE "mb"]
  BY DEF Wait, Goto
<1>2. StepOf(t)
  BY <1>0, <1>1 DEF Wait, StepOf, InRow, sems, shape
<1>3. pc'[t] = (IF corrupted'[t] THEN "release" ELSE "mb") /\ ~(Unbegun(t)')
  BY <1>1, <1>2, OthersStay DEF IndInv, TypeOK
<1>4. /\ UNCHANGED <<row, col, mbCol, decoded, missing, frame, count>>
      /\ corrupted' = [corrupted EXCEPT ![t] = @ \/ use]
  BY DEF Wait, shape, history
<1>5. RowState(t, row[t]) /\ col[t] < frame.cols
  BY <1>0 DEF OwnRow
<1>6. Within(t)
  BY <1>4 DEF Within, IndInv, TypeOK
<1>7. OwnRow(t)'
  BY <1>0, <1>3, <1>4, <1>5 DEF OwnRow, InRow
<1>8. Behind(t)'
  <2>1. col[t] % frame.nsync = 0 /\ row[t] > 0
          => mbCol[row[t] - 1] >= col[t] + frame.nsync
    BY <1>0 DEF Wait, MayGoOn
  <2> QED
    BY <1>0, <1>3, <1>4, <2>1 DEF Behind
<1>9. ASSUME NEW r \in 0 .. frame.rows - 1, r % (count + 1) = t
       PROVE  RowState(t, r)'
  <2>1. RowState(t, r)
    BY <1>0, <1>9
  <2> QED
    BY <1>0, <1>3, <1>4, <2>1 DEF RowState, InRow
<1> QED
  <2>1. /\ row' \in [Threads -> Nat] /\ col' \in [Threads -> Nat]
        /\ corrupted' \in [Threads -> BOOLEAN] /\ mbCol' \in [Rows -> Int]
        /\ decoded' \in [Rows -> Nat] /\ missing' \in BOOLEAN
    BY <1>4 DEF IndInv, TypeOK
  <2> QED
    BY <1>0, <1>2, <1>4, <1>6, <1>7, <1>8, <1>9, <2>1, StepInv

\* A macroblock more, and no farther from the last wait than before.
LEMMA DecodeMbInv ==
  ASSUME IndInv, NEW t \in Threads, NEW lost \in BOOLEAN, DecodeMb(t, lost)
  PROVE  IndInv'
<1> USE Hand
<1>0. pc[t] = "mb" /\ pc[t] \in InRow
  BY DEF DecodeMb, InRow
<1>1. pc' = [pc EXCEPT ![t] = IF col[t] + 1 < frame.cols THEN "publish"
                              ELSE "end"]
  BY DEF DecodeMb, Goto
<1>2. StepOf(t)
  BY <1>0, <1>1 DEF DecodeMb, StepOf, InRow, sems, shape
<1>3. /\ pc'[t] = (IF col[t] + 1 < frame.cols THEN "publish" ELSE "end")
      /\ pc'[t] \in InRow /\ ~(Unbegun(t)')
  BY <1>1, <1>2, OthersStay DEF IndInv, TypeOK, InRow
<1>4. /\ UNCHANGED <<row, mbCol, frame, count>>
      /\ col' = [col EXCEPT ![t] = @ + 1]
      /\ corrupted' = [corrupted EXCEPT ![t] = @ \/ lost]
      /\ decoded' = [decoded EXCEPT ![row[t]] = @ + 1]
      /\ missing' = (missing \/ lost)
  BY DEF DecodeMb, shape
<1>5. /\ row' \in [Threads -> Nat] /\ col' \in [Threads -> Nat]
      /\ corrupted' \in [Threads -> BOOLEAN] /\ mbCol' \in [Rows -> Int]
      /\ decoded' \in [Rows -> Nat] /\ missing' \in BOOLEAN
      /\ col'[t] = col[t] + 1
  BY <1>0, <1>4 DEF IndInv, TypeOK
<1>6. OwnRow(t) /\ Behind(t) /\ RowState(t, row[t])
      /\ row[t] \in Nat /\ col[t] \in Nat /\ frame.cols \in Nat
  BY <1>0
<1>7. /\ \A r \in 0 .. frame.rows - 1 : r # row[t] => decoded'[r] = decoded[r]
      /\ decoded'[row[t]] = decoded[row[t]] + 1
  BY <1>0, <1>4 DEF IndInv, TypeOK
<1>8. Within(t)
  BY <1>4, <1>7 DEF Within, IndInv, TypeOK
<1>9. OwnRow(t)'
  BY ONLY <1>0, <1>3, <1>4, <1>5, <1>6 DEF OwnRow, InRow
<1>10. Behind(t)'
  <2> SUFFICES ASSUME row[t] > 0, (col[t] + 1) % frame.nsync # 0
               PROVE  mbCol[row[t] - 1] >= (col[t] + 1)
                        - ((col[t] + 1) % frame.nsync) + frame.nsync
    BY <1>3, <1>4, <1>5 DEF Behind
  <2>1. (col[t] + 1) % frame.nsync = (col[t] % frame.nsync) + 1
    BY <1>0, ModStep
  <2>2. row[t] > 0 => mbCol[row[t] - 1]
                        >= col[t] - (col[t] % frame.nsync) + frame.nsync
    BY ONLY <1>0, <1>6 DEF Behind
  <2>3. col[t] % frame.nsync \in Int /\ mbCol[row[t] - 1] \in Int
    BY <1>0
  <2> QED
    BY <1>0, <2>1, <2>2, <2>3
<1>11. ASSUME NEW r \in 0 .. frame.rows - 1, r % (count + 1) = t
       PROVE  RowState(t, r)'
  <2>1. RowState(t, r)
    BY <1>0, <1>11
  <2>2. CASE r = row[t]
    <3>1. /\ decoded'[r] = col'[t] /\ mbCol'[r] < col'[t]
          /\ mbCol'[r] <= frame'.cols + frame'.nsync
      BY <1>0, <1>4, <1>5, <1>7, <2>1, <2>2 DEF RowState
    <3>2. row'[t] = r
      BY <1>4, <2>2
    <3> QED
      BY <1>0, <1>3, <3>1, <3>2 DEF RowState
  <2>3. CASE r # row[t]
    <3>1. /\ decoded'[r] = decoded[r] /\ mbCol'[r] = mbCol[r]
          /\ row'[t] = row[t] /\ frame' = frame
      BY <1>4, <1>7, <2>3
    <3> QED
      BY <1>0, <1>3, <2>1, <2>3, <3>1 DEF RowState
  <2> QED
    BY <2>2, <2>3
<1> QED
  BY <1>0, <1>2, <1>4, <1>5, <1>8, <1>9, <1>10, <1>11, StepInv

\* The rows of t from its next row on, and before.
LEMMA NextOwn ==
  ASSUME count \in Nat, NEW t \in Threads, row[t] \in Nat,
         row[t] % (count + 1) = t, NEW r \in Nat, r % (count + 1) = t
  PROVE  /\ r > row[t] => r >= NextRow(t)
         /\ NextRow(t) % (count + 1) = t /\ NextRow(t) \in Nat
         /\ NextRow(t) > row[t]
<1>1. count + 1 \in Nat \ {0}
  OBVIOUS
<1>2. (row[t] + (count + 1)) % (count + 1) = t
  BY <1>1, ModAdd
<1>3. ~(r > row[t] /\ r < row[t] + (count + 1))
  BY <1>1, ModGap
<1>4. NextRow(t) = row[t] + (count + 1)
  BY DEF NextRow
<1>5. NextRow(t) % (count + 1) = t
  BY <1>2, <1>4
<1>6. r > row[t] => r >= row[t] + (count + 1)
  BY <1>3
<1>7. row[t] + (count + 1) \in Nat /\ row[t] + (count + 1) > row[t]
  OBVIOUS
<1> QED
  BY <1>4, <1>5, <1>6, <1>7

\* The end of a row: all of it is decoded.
LEMMA RowEndInv ==
  ASSUME IndInv, NEW t \in Threads, RowEnd(t)
  PROVE  IndInv'
<1> USE Hand
<1> DEFINE more == NextRow(t) < frame.rows
<1>0. pc[t] = "end" /\ pc[t] \in InRow
  BY DEF RowEnd, InRow
<1>1. /\ pc' = [pc EXCEPT ![t] = IF more THEN "publish" ELSE "post"]
      /\ row' = [row EXCEPT ![t] = IF more THEN NextRow(t) ELSE 0]
      /\ col' = [col EXCEPT ![t] = 0]
  BY DEF RowEnd, Goto
<1>2. StepOf(t)
  BY <1>0, <1>1 DEF RowEnd, StepOf, InRow, sems, shape
<1>3. pc'[t] = (IF more THEN "publish" ELSE "post") /\ ~(Unbegun(t)')
  BY <1>1, <1>2, OthersStay DEF IndInv, TypeOK
<1>4. /\ UNCHANGED <<decoded, missing, corrupted, frame, count>>
      /\ mbCol' = [mbCol EXCEPT ![row[t]] = frame.cols + frame.nsync]
  BY DEF RowEnd, shape, history
<1>5. NextRow(t) \in Nat /\ NextRow(t) % (count + 1) = t
      /\ NextRow(t) > row[t]
  BY <1>0, NextOwn
<1>6. /\ row' \in [Threads -> Nat] /\ col' \in [Threads -> Nat]
      /\ corrupted' \in [Threads -> BOOLEAN] /\ mbCol' \in [Rows -> Int]
      /\ decoded' \in [Rows -> Nat] /\ missing' \in BOOLEAN
      /\ col'[t] = 0 /\ row'[t] = (IF more THEN NextRow(t) ELSE 0)
  BY <1>0, <1>1, <1>4, <1>5 DEF IndInv, TypeOK
<1>7. RowState(t, row[t]) /\ col[t] = frame.cols
  BY <1>0 DEF OwnRow
<1>8. /\ \A r \in 0 .. frame.rows - 1 : r # row[t] => mbCol'[r] = mbCol[r]
      /\ mbCol'[row[t]] = frame.cols + frame.nsync
      /\ mbCol'[row[t]] >= mbCol[row[t]]
  BY <1>0, <1>4, <1>7 DEF IndInv, TypeOK, RowState
<1>9. Within(t)
  BY <1>1, <1>4, <1>8 DEF Within, IndInv, TypeOK
<1>10. OwnRow(t)'
  BY <1>0, <1>3, <1>4, <1>5, <1>6 DEF OwnRow, InRow
<1>11. Behind(t)'
  <2>1. 0 % frame.nsync = 0
    BY <1>0, ModSmall
  <2> QED
    BY <1>3, <1>4, <1>6, <2>1 DEF Behind
<1>12. ASSUME NEW r \in 0 .. frame.rows - 1, r % (count + 1) = t
       PROVE  RowState(t, r)'
  <2>1. RowState(t, r)
    BY <1>0, <1>12
  <2>2. /\ mbCol'[r] <= frame'.cols + frame'.nsync
        /\ decoded'[r] = decoded[r] /\ frame' = frame
    BY <1>0, <1>4, <1>8, <2>1 DEF RowState
  <2>3. r <= row[t] => decoded'[r] = frame.cols
    BY <1>0, <1>7, <2>1, <2>2 DEF RowState
  <2>4. r > row[t] => r >= NextRow(t) /\ decoded'[r] = 0 /\ mbCol'[r] = -1
    BY <1>0, <1>8, <1>12, <2>1, <2>2, NextOwn DEF RowState
  <2>5. CASE more
    BY <1>0, <1>3, <1>5, <1>6, <2>2, <2>3, <2>4, <2>5 DEF RowState, InRow
  <2>6. CASE ~more
    <3>1. decoded'[r] = frame.cols
      BY <1>0, <1>5, <2>3, <2>4, <2>6
    <3> QED
      BY <1>3, <2>2, <2>6, <3>1 DEF RowState, InRow
  <2> QED
    BY <2>5, <2>6
<1> QED
  BY <1>0, <1>2, <1>6, <1>8, <1>9, <1>10, <1>11, <1>12, StepInv

\* A row is given up, which its thread's flag tells.
LEMMA ReleaseInv ==
  ASSUME IndInv, NEW t \in Threads, Release(t)
  PROVE  IndInv'
<1> USE Hand
<1>0. pc[t] = "release" /\ pc[t] \in InRow \cup {"release"}
  BY DEF Release
<1>1. corrupted[t] /\ RowState(t, row[t])
  BY <1>0 DEF OwnRow
<1>2. StepOf(t) /\ pc'[t] \in {"release", "post", "drain"}
      /\ (pc'[t] = "release" =>
            row'[t] = NextRow(t) /\ NextRow(t) < frame.rows)
      /\ (t = 0 /\ pc'[t] # "release" => pc'[0] = "drain")
  <2>1. CASE Releases(t)
    BY <1>0, <2>1
       DEF Release, Releases, StepOf, InRow, sems, shape, IndInv, TypeOK
  <2>2. CASE ~Releases(t) /\ t = 0
    BY <1>0, <2>2
       DEF Release, StepOf, Goto, sems, shape, IndInv, TypeOK
  <2>3. CASE ~Releases(t) /\ t # 0
    BY <1>0, <2>3
       DEF Release, StepOf, Goto, sems, shape, IndInv, TypeOK
  <2> QED
    BY <2>1, <2>2, <2>3
<1>3. ~(Unbegun(t)')
  BY <1>2, OthersStay
<1>4. /\ UNCHANGED <<decoded, missing, corrupted, frame, count>>
      /\ mbCol' = [mbCol EXCEPT ![row[t]] = frame.cols + frame.nsync]
      /\ col' = [col EXCEPT ![t] = 0]
  BY DEF Release, shape, history
<1>5. NextRow(t) \in Nat /\ NextRow(t) % (count + 1) = t
  BY <1>0, NextOwn
<1>6. /\ row' \in [Threads -> Nat]
      /\ \A u \in Threads \ {t} : row'[u] = row[u]
  BY <1>5 DEF Release, IndInv, TypeOK
<1>7. /\ col' \in [Threads -> Nat]
      /\ corrupted' \in [Threads -> BOOLEAN] /\ mbCol' \in [Rows -> Int]
      /\ decoded' \in [Rows -> Nat] /\ missing' \in BOOLEAN
  BY <1>0, <1>4 DEF IndInv, TypeOK
<1>8. /\ \A r \in 0 .. frame.rows - 1 : r # row[t] => mbCol'[r] = mbCol[r]
      /\ mbCol'[row[t]] = frame.cols + frame.nsync
      /\ mbCol'[row[t]] >= mbCol[row[t]]
  BY <1>0, <1>1, <1>4 DEF IndInv, TypeOK, RowState
<1>9. Within(t)
  BY <1>4, <1>6, <1>8 DEF Within, IndInv, TypeOK
<1>10. OwnRow(t)'
  BY <1>1, <1>2, <1>4, <1>5 DEF OwnRow, InRow
<1>11. Behind(t)'
  BY <1>2 DEF Behind
<1>12. ASSUME NEW r \in 0 .. frame.rows - 1, r % (count + 1) = t
       PROVE  RowState(t, r)'
  <2>1. RowState(t, r)
    BY <1>0, <1>12
  <2>2. mbCol'[r] <= frame'.cols + frame'.nsync
    BY <1>0, <1>4, <1>8, <2>1 DEF RowState
  <2> QED
    BY <1>1, <1>2, <1>3, <1>4, <2>2 DEF RowState, InRow
<1> QED
  BY <1>0, <1>2, <1>6, <1>7, <1>8, <1>9, <1>10, <1>11, <1>12, StepInv

-----------------------------------------------------------------------------
(* Starting and ending the threads of a frame.                             *)

\* Outside a frame nothing is said of rows and posts.
LEMMA OutOfFrame ==
  ASSUME pc'[0] \notin InFrame
  PROVE  Posted' /\ InHand' /\ RowStates' /\ StaysBehind'
BY DEF Posted, InHand, RowStates, StaysBehind, InFrame

\* The threads that have posted are some of those of the frame.
LEMMA FinishedCount ==
  ASSUME TypeOK
  PROVE  /\ IsFiniteSet(Finished) /\ Cardinality(Finished) \in 0 .. count
         /\ Cardinality(Finished) = count => Finished = 1 .. count
<1>1. count \in Nat
  BY Dealt
<1>2. IsFiniteSet(1 .. count) /\ Cardinality(1 .. count) = count
  BY <1>1, FS_Interval
<1>3. Finished \subseteq 1 .. count
  BY DEF Finished
<1>4. /\ IsFiniteSet(Finished) /\ Cardinality(Finished) <= Cardinality(1 .. count)
      /\ Cardinality(Finished) = Cardinality(1 .. count) => Finished = 1 .. count
  BY <1>2, <1>3, FS_Subset
<1>5. Cardinality(Finished) \in Nat
  BY <1>4, FS_CardinalityType
<1> QED
  BY <1>1, <1>2, <1>4, <1>5

\* A step that leaves the rows alone, and every thread with its row.
Aside ==
  /\ pc[0] \in InFrame
  /\ UNCHANGED <<frame, count, mbCol, decoded, row, col, corrupted>>
  /\ pc[0] = "drain" => pc'[0] = "drain"
  /\ \A u \in 0 .. count :
       /\ Unbegun(u)' <=> Unbegun(u)
       /\ \/ pc'[u] = pc[u]
          \/ /\ pc[u] \notin InRow \cup {"release"}
             /\ pc'[u] \notin InRow \cup {"release"}

\* It keeps what is said of rows.
LEMMA AsideRows ==
  ASSUME IndInv, Aside
  PROVE  InHand' /\ RowStates' /\ StaysBehind'
<1>1. ASSUME NEW u \in 0 .. count PROVE OwnRow(u)' /\ Behind(u)'
  <2>1. OwnRow(u) /\ Behind(u)
    BY DEF IndInv, InHand, StaysBehind, Aside
  <2>2. CASE pc'[u] = pc[u]
    BY <2>1, <2>2 DEF OwnRow, Behind, Aside
  <2>3. CASE pc'[u] \notin InRow \cup {"release"}
    BY <2>3 DEF OwnRow, Behind, InRow
  <2> QED
    BY <2>2, <2>3 DEF Aside
<1>2. ASSUME NEW r \in 0 .. frame.rows - 1, NEW u \in 0 .. count,
             u = r % (count + 1)
      PROVE  RowState(u, r)'
  <2>1. RowState(u, r)
    BY <1>2 DEF IndInv, RowStates, Aside
  <2>2. /\ Unbegun(u)' <=> Unbegun(u)
        /\ UNCHANGED <<frame, mbCol, decoded, row, col, corrupted>>
        /\ pc'[u] \in InRow <=> pc[u] \in InRow
        /\ pc'[u] \in InRow \cup {"release"} <=> pc[u] \in InRow \cup {"release"}
        /\ pc[0] = "drain" => pc'[0] = "drain"
    BY DEF Aside
  <2> QED
    BY <2>1, <2>2 DEF RowState
<1>3. \A r \in 0 .. frame.rows - 1 : r % (count + 1) \in 0 .. count
  BY Owner, Dealt, FrameFacts DEF IndInv, TypeOK
<1>4. UNCHANGED <<frame, count>>
  BY DEF Aside
<1> QED
  BY <1>1, <1>2, <1>3, <1>4 DEF InHand, RowStates, StaysBehind

\* A worker posts its end.
LEMMA WorkerPostInv ==
  ASSUME IndInv, NEW t \in Workers, PostEnd(t)
  PROVE  IndInv'
<1>0. /\ t \in Threads /\ t # 0 /\ pc[t] = "post" /\ pc' = [pc EXCEPT ![t] = "top"]
      /\ endSem' = endSem + 1
      /\ UNCHANGED <<mt, allocated, count, startSem, row, col, frame, key,
                     keyDone, refBad, mbCol, corrupted, result, turn, decoded,
                     missing>>
  BY Numbers DEF PostEnd, Goto, shape, history
<1>1. pc[0] \in InFrame /\ t \in 0 .. count /\ ~Unbegun(t)
  BY <1>0, AtWork
<1>2. TypeOK'
  BY <1>0 DEF IndInv, TypeOK, AtRest
<1>3. /\ pc'[t] = "top" /\ pc'[0] = pc[0]
      /\ \A u \in Threads : u # t => pc'[u] = pc[u]
  BY <1>0, Numbers DEF IndInv, TypeOK
<1>4. \A u \in Threads : Unbegun(u)' <=> Unbegun(u)
  BY <1>0, <1>3 DEF Unbegun
<1>5. Started'
  <2>1. ASSUME NEW u \in Workers
        PROVE  /\ pc'[u] \notin {"none", "exited"}
               /\ count' < u => Resting(u)'
               /\ Unbegun(u)' => pc'[u] \in {"top", "sleep"}
    BY <1>0, <1>1, <1>3, <1>4, Numbers DEF IndInv, Started, Resting
  <2> QED
    BY <1>0, <1>1, <1>3, <2>1, Numbers DEF IndInv, Started, InFrame
<1>6. Posted'
  <2>1. Finished' = Finished \cup {t} /\ t \notin Finished
    BY <1>0, <1>1, <1>3, <1>4, Dealt, Numbers DEF IndInv, Finished
  <2>2. /\ Cardinality(Finished') = Cardinality(Finished) + 1
        /\ Cardinality(Finished) \in Nat
    BY <2>1, FinishedCount, FS_AddElement, FS_CardinalityType DEF IndInv
  <2>3. endSem \in Nat /\ turn \in Nat
    BY DEF IndInv, TypeOK
  <2> QED
    BY <1>0, <1>3, <2>2, <2>3 DEF IndInv, Posted
<1>7. Aside
  BY <1>0, <1>1, <1>3, <1>4, Dealt DEF IndInv, Aside, InRow
<1>8. CleanIsComplete'
  BY <1>1, <1>3 DEF CleanIsComplete, InFrame
<1> QED
  BY <1>2, <1>5, <1>6, <1>7, <1>8, AsideRows DEF IndInv

\* The calling thread posts its end, and waits for all from the first.
LEMMA MainPostInv ==
  ASSUME IndInv, PostEnd(0)
  PROVE  IndInv'
<1>0. /\ pc[0] = "post" /\ pc' = [pc EXCEPT ![0] = "finish"]
      /\ endSem' = endSem + 1 /\ turn' = 0
      /\ UNCHANGED <<mt, allocated, count, startSem, row, col, frame, key,
                     keyDone, refBad, mbCol, corrupted, result, decoded,
                     missing>>
  BY DEF PostEnd, Goto, FirstWait, shape, history
<1>1. pc[0] \in InFrame
  BY <1>0 DEF InFrame
<1>2. TypeOK'
  BY <1>0, Numbers DEF IndInv, TypeOK, AtRest, InFrame
<1>3. pc'[0] = "finish" /\ \A u \in Workers : pc'[u] = pc[u]
  BY <1>0, Numbers DEF IndInv, TypeOK
<1>4. \A u \in Threads : Unbegun(u)' <=> Unbegun(u)
  BY <1>0, <1>3, Numbers DEF Unbegun
<1>5. Started'
  <2>1. ASSUME NEW u \in Workers
        PROVE  /\ pc'[u] \notin {"none", "exited"}
               /\ count' < u => Resting(u)'
               /\ Unbegun(u)' => pc'[u] \in {"top", "sleep"}
    BY <1>0, <1>1, <1>3, <1>4, Numbers DEF IndInv, Started, Resting
  <2> QED
    BY <1>0, <1>1, <1>3, <2>1 DEF IndInv, Started
<1>6. Posted'
  <2>1. Finished' = Finished
    BY <1>0, <1>3, <1>4, Dealt, Numbers DEF IndInv, Finished
  <2>2. endSem = Cardinality(Finished) /\ endSem \in Nat /\ count \in Nat
    BY <1>0, <1>1, Dealt DEF IndInv, Posted, TypeOK
  <2> QED
    BY <1>0, <1>3, <2>1, <2>2 DEF Posted
<1>7. Aside
  BY <1>0, <1>1, <1>3, <1>4, Dealt DEF IndInv, Aside, InRow
<1>8. CleanIsComplete'
  BY <1>3 DEF CleanIsComplete
<1> QED
  BY <1>2, <1>5, <1>6, <1>7, <1>8, AsideRows DEF IndInv

\* A thread that is done, or was just created, looks at b_multithreaded_rd.
LEMMA TopInv ==
  ASSUME IndInv, NEW t \in Workers, Top(t)
  PROVE  IndInv'
<1>0. /\ t \in Threads /\ t # 0 /\ pc[t] = "top"
      /\ pc' = [pc EXCEPT ![t] = IF mt THEN "sleep" ELSE "exited"]
      /\ UNCHANGED <<mt, allocated, count, startSem, endSem, row, col, frame,
                     key, keyDone, refBad, mbCol, corrupted, result, turn,
                     decoded, missing>>
  BY Numbers DEF Top, Goto, sems, shape, history
<1>1. /\ pc'[t] = (IF mt THEN "sleep" ELSE "exited") /\ pc'[0] = pc[0]
      /\ \A u \in Threads : u # t => pc'[u] = pc[u]
  BY <1>0, Numbers DEF IndInv, TypeOK
<1>2. TypeOK'
  BY <1>0, <1>1 DEF IndInv, TypeOK, AtRest
<1>3. CASE pc[0] \in InFrame
  <2>1. \A u \in Threads : Unbegun(u)' <=> Unbegun(u)
    BY <1>0, <1>1 DEF Unbegun
  <2>2. mt /\ pc'[t] = "sleep"
    BY <1>1, <1>3 DEF IndInv, Started
  <2>3. Started'
    <3>1. ASSUME NEW u \in Workers
          PROVE  /\ pc'[u] \notin {"none", "exited"}
                 /\ count' < u => Resting(u)'
                 /\ Unbegun(u)' => pc'[u] \in {"top", "sleep"}
      BY <1>0, <1>1, <1>3, <2>1, <2>2, Numbers DEF IndInv, Started, Resting
    <3> QED
      BY <1>0, <1>1, <1>3, <3>1 DEF IndInv, Started, InFrame
  <2>4. Finished' = Finished
    BY <1>0, <1>1, <2>1, <2>2, Dealt DEF IndInv, Finished
  <2>5. Posted'
    BY <1>0, <1>1, <2>4 DEF IndInv, Posted
  <2>6. Aside
    BY <1>0, <1>1, <1>3, <2>1, <2>2, Dealt DEF IndInv, Aside, InRow
  <2>7. CleanIsComplete'
    BY <1>0, <1>1 DEF IndInv, CleanIsComplete
  <2> QED
    BY <1>2, <2>3, <2>5, <2>6, <2>7, AsideRows DEF IndInv
<1>4. CASE pc[0] \notin InFrame
  <2>1. ASSUME NEW u \in Workers
        PROVE  /\ pc[u] \in AtRest => pc'[u] \in AtRest
               /\ mt /\ Resting(u) => Resting(u)'
    BY <1>0, <1>1, Numbers DEF Resting, AtRest
  <2>2. Started'
    BY <1>0, <1>1, <1>4, <2>1 DEF IndInv, Started, InFrame
  <2>3. CleanIsComplete'
    BY <1>0, <1>1 DEF IndInv, CleanIsComplete
  <2> QED
    BY <1>1, <1>2, <1>4, <2>2, <2>3, OutOfFrame DEF IndInv
<1> QED
  BY <1>3, <1>4

\* A thread that is started begins with the row of its number; one that is
\* removed exits.
LEMMA WakeUpInv ==
  ASSUME IndInv, NEW t \in Workers, WakeUp(t)
  PROVE  IndInv'
<1> DEFINE next == IF ~mt THEN "exited"
                   ELSE IF t < frame.rows THEN "publish" ELSE "post"
<1>0. /\ t \in Threads /\ t # 0 /\ t \in Nat
      /\ pc[t] = "sleep" /\ startSem[t] > 0
      /\ startSem' = [startSem EXCEPT ![t] = @ - 1]
      /\ row' = [row EXCEPT ![t] = t] /\ col' = [col EXCEPT ![t] = 0]
      /\ pc' = [pc EXCEPT ![t] = next]
      /\ UNCHANGED <<mt, allocated, count, endSem, frame, key, keyDone, refBad,
                     mbCol, corrupted, result, turn, decoded, missing>>
  BY Numbers DEF WakeUp, Goto, shape, history
<1>1. /\ pc'[t] = next /\ pc'[0] = pc[0]
      /\ startSem'[t] = startSem[t] - 1 /\ startSem[t] \in Nat
      /\ row'[t] = t /\ col'[t] = 0
      /\ \A u \in Threads : u # t => /\ pc'[u] = pc[u] /\ row'[u] = row[u]
                                    /\ col'[u] = col[u]
      /\ \A u \in Workers : u # t => startSem'[u] = startSem[u]
  BY <1>0, Numbers DEF IndInv, TypeOK
<1>2. TypeOK'
  <2>1. startSem' \in [Workers -> Nat]
    BY <1>0, <1>1 DEF IndInv, TypeOK
  <2>2. row' \in [Threads -> Nat] /\ col' \in [Threads -> Nat]
    BY <1>0 DEF IndInv, TypeOK
  <2>3. /\ pc' \in [Threads -> InFrame \cup AtRest
                            \cup {"restart", "between", "remove", "join"}]
        /\ \A u \in Workers :
             pc'[u] \in InRow \cup {"release", "post"} \cup AtRest
    BY <1>0, <1>1, Numbers DEF IndInv, TypeOK, InFrame, InRow, AtRest
  <2> QED
    BY <1>0, <1>1, <2>1, <2>2, <2>3 DEF IndInv, TypeOK
<1>3. CASE pc[0] \in InFrame
  <2>0. frame.rows \in Nat /\ frame.nsync \in Nat \ {0} /\ count \in Nat
    BY FrameFacts, Dealt DEF IndInv, TypeOK
  <2>1. mt /\ startSem[t] = 1 /\ t \in 0 .. count /\ t < frame.rows
        /\ ~(pc[0] = "start" /\ turn <= t)
    BY <1>0, <1>3, <2>0 DEF IndInv, Started, Resting
  <2>2. pc'[t] = "publish" /\ startSem'[t] = 0
    BY <1>1, <2>1
  <2>3. Unbegun(t) /\ ~(Unbegun(t)')
    BY <1>0, <1>1, <2>1, <2>2 DEF Unbegun
  <2>4. \A u \in Threads : u # t => (Unbegun(u)' <=> Unbegun(u))
    BY <1>0, <1>1, Numbers DEF Unbegun
  <2>5. Started'
    <3>1. ASSUME NEW u \in Workers
          PROVE  /\ pc'[u] \notin {"none", "exited"}
                 /\ startSem'[u] \in {0, 1}
                 /\ pc'[0] = "start" /\ turn' <= u => startSem'[u] = 0
                 /\ count' < u => Resting(u)'
                 /\ Unbegun(u)' => pc'[u] \in {"top", "sleep"}
      <4>1. CASE u = t
        BY <1>0, <2>0, <2>1, <2>2, <2>3, <4>1
      <4>2. CASE u # t
        BY <1>0, <1>1, <1>3, <2>4, <4>2, Numbers DEF IndInv, Started, Resting
      <4> QED
        BY <4>1, <4>2
    <3> QED
      BY <1>0, <1>1, <1>3, <3>1 DEF IndInv, Started, InFrame
  <2>6. Posted'
    <3>1. Finished' = Finished
      BY <1>0, <1>1, <2>2, <2>3, <2>4, Dealt DEF IndInv, Finished
    <3> QED
      BY <1>0, <1>1, <3>1 DEF IndInv, Posted
  <2>7. OwnRow(t)' /\ Behind(t)'
    <3>1. t % (count + 1) = t
      BY <2>0, <2>1, Owner
    <3>2. 0 % frame.nsync = 0
      BY <2>0, ModSmall
    <3>3. frame.cols > 0
      BY FrameFacts DEF IndInv, TypeOK
    <3> QED
      BY <1>0, <1>1, <2>1, <2>2, <3>1, <3>2, <3>3 DEF OwnRow, Behind
  <2>8. ASSUME NEW u \in 0 .. count PROVE OwnRow(u)' /\ Behind(u)'
    <3>1. OwnRow(u) /\ Behind(u) /\ u \in Threads
      BY <1>3, Dealt DEF IndInv, InHand, StaysBehind
    <3> QED
      BY <1>0, <1>1, <2>7, <3>1 DEF OwnRow, Behind
  <2>9. ASSUME NEW r \in 0 .. frame.rows - 1, NEW u \in 0 .. count,
               u = r % (count + 1)
        PROVE  RowState(u, r)'
    <3>1. RowState(u, r) /\ u \in Threads
      BY <1>3, <2>9, Dealt DEF IndInv, RowStates
    <3>2. CASE u = t
      <4>1. ~(r < t)
        <5>1. r \in 0 .. count => r % (count + 1) = r
          BY <2>0, Owner
        <5> QED
          BY <1>0, <2>0, <2>1, <2>9, <3>2, <5>1
      <4>2. decoded[r] = 0 /\ mbCol[r] = -1
            /\ mbCol[r] <= frame.cols + frame.nsync
        BY <2>3, <3>1, <3>2 DEF RowState
      <4> QED
        BY <1>0, <1>1, <2>2, <2>3, <3>2, <4>1, <4>2 DEF RowState, InRow
    <3>3. CASE u # t
      BY <1>0, <1>1, <2>4, <3>1, <3>3 DEF RowState
    <3> QED
      BY <3>2, <3>3
  <2>10. \A r \in 0 .. frame.rows - 1 : r % (count + 1) \in 0 .. count
    BY <2>0, Owner
  <2>11. InHand' /\ StaysBehind' /\ RowStates'
    BY <1>0, <2>8, <2>9, <2>10 DEF InHand, StaysBehind, RowStates
  <2>12. CleanIsComplete'
    BY <1>0, <1>1 DEF IndInv, CleanIsComplete
  <2> QED
    BY <1>2, <2>5, <2>6, <2>11, <2>12 DEF IndInv
<1>4. CASE pc[0] \notin InFrame
  <2>1. pc[0] \in {"restart", "remove", "join"} /\ ~mt
    <3>1. pc[0] \in {"restart", "between", "remove", "join"}
      BY <1>4, Numbers DEF IndInv, TypeOK
    <3> QED
      BY <1>0, <1>1, <3>1 DEF IndInv, Started, Resting
  <2>2. \A u \in Workers : pc'[u] \in AtRest
    BY <1>0, <1>1, <2>1, Numbers DEF IndInv, Started, AtRest
  <2>3. Started'
    BY <1>0, <1>1, <2>1, <2>2 DEF IndInv, Started, InFrame
  <2>4. CleanIsComplete'
    BY <1>0, <1>1 DEF IndInv, CleanIsComplete
  <2> QED
    BY <1>1, <1>2, <1>4, <2>3, <2>4, OutOfFrame DEF IndInv
<1> QED
  BY <1>3, <1>4

-----------------------------------------------------------------------------
(* The calling thread.                                                     *)

\* A thread is started, and has not begun.
LEMMA PostOneInv ==
  ASSUME IndInv, PostStart, turn <= count
  PROVE  IndInv'
<1>0. /\ pc[0] = "start" /\ startSem' = [startSem EXCEPT ![turn] = @ + 1]
      /\ turn' = turn + 1
      /\ UNCHANGED <<mt, allocated, count, endSem, pc, row, col, frame, key,
                     keyDone, refBad, mbCol, corrupted, result, decoded,
                     missing>>
  BY DEF PostStart, shape, history
<1>1. pc[0] \in InFrame /\ turn \in 1 .. count /\ turn \in Nat
      /\ turn \in Workers /\ count \in Nat
  BY <1>0, Dealt DEF IndInv, Started, InFrame
<1>2. startSem[turn] = 0 /\ startSem'[turn] = 1
      /\ \A u \in Workers : u # turn => startSem'[u] = startSem[u]
  BY <1>0, <1>1 DEF IndInv, Started, TypeOK
<1>3. TypeOK'
  <2>1. startSem' \in [Workers -> Nat]
    BY <1>0, <1>1, <1>2 DEF IndInv, TypeOK
  <2> QED
    BY <1>0, <1>1, <2>1 DEF IndInv, TypeOK
<1>4. \A u \in Threads : Unbegun(u)' <=> Unbegun(u)
  BY <1>0, <1>1, <1>2, Numbers DEF Unbegun
<1>5. Started'
  <2>1. ASSUME NEW u \in Workers
        PROVE  /\ startSem'[u] \in {0, 1}
               /\ pc'[0] = "start" /\ turn' <= u => startSem'[u] = 0
               /\ count' < u => Resting(u)'
               /\ Unbegun(u)' => pc'[u] \in {"top", "sleep"}
    <3>1. u \in Nat /\ u \in Threads
      BY Numbers
    <3> QED
      BY <1>0, <1>1, <1>2, <1>4, <3>1 DEF IndInv, Started, Resting
  <2>2. turn' \in 1 .. count' + 1
    BY <1>0, <1>1
  <2> QED
    BY <1>0, <1>1, <2>1, <2>2 DEF IndInv, Started
<1>6. Posted'
  <2>1. Finished' = Finished
    BY <1>0, <1>4, Dealt DEF IndInv, Finished
  <2> QED
    BY <1>0, <1>1, <2>1 DEF IndInv, Posted
<1>7. Aside
  BY <1>0, <1>1, <1>4, Dealt DEF IndInv, Aside
<1>8. CleanIsComplete'
  BY <1>0 DEF IndInv, CleanIsComplete
<1> QED
  BY <1>3, <1>5, <1>6, <1>7, <1>8, AsideRows DEF IndInv

\* All are started, and the calling thread begins with the first row.
LEMMA PostedAllInv ==
  ASSUME IndInv, PostStart, ~(turn <= count)
  PROVE  IndInv'
<1>0. /\ pc[0] = "start" /\ pc' = [pc EXCEPT ![0] = "publish"]
      /\ row' = [row EXCEPT ![0] = 0] /\ col' = [col EXCEPT ![0] = 0]
      /\ UNCHANGED <<mt, allocated, count, startSem, endSem, frame, key,
                     keyDone, refBad, mbCol, corrupted, result, turn, decoded,
                     missing>>
  BY DEF PostStart, Goto, shape, history
<1>1. /\ pc[0] \in InFrame /\ turn = count + 1 /\ count \in Nat
      /\ frame.rows \in Nat \ {0} /\ frame.cols \in Nat \ {0}
      /\ frame.nsync \in Nat \ {0}
  BY <1>0, Dealt, FrameFacts DEF IndInv, Started, TypeOK, InFrame
<1>2. /\ pc'[0] = "publish" /\ row'[0] = 0 /\ col'[0] = 0
      /\ \A u \in Workers : /\ pc'[u] = pc[u] /\ row'[u] = row[u]
                            /\ col'[u] = col[u]
  BY <1>0, Numbers DEF IndInv, TypeOK
<1>3. TypeOK'
  BY <1>0, <1>2 DEF IndInv, TypeOK, InFrame, AtRest
<1>4. Unbegun(0) /\ ~(Unbegun(0)')
  BY <1>0, <1>2 DEF Unbegun
<1>5. \A u \in Workers : u <= count => (Unbegun(u)' <=> Unbegun(u))
  BY <1>0, <1>1, <1>2, Numbers DEF Unbegun
<1>6. Started'
  <2>1. ASSUME NEW u \in Workers
        PROVE  /\ count' < u => Resting(u)'
               /\ Unbegun(u)' => pc'[u] \in {"top", "sleep"}
    <3>1. u \in Nat /\ u # 0 /\ (Unbegun(u)' => Unbegun(u))
      BY <1>0, <1>2, Numbers DEF Unbegun
    <3> QED
      BY <1>0, <1>1, <1>2, <3>1 DEF IndInv, Started, Resting
  <2> QED
    BY <1>0, <1>1, <1>2, <2>1 DEF IndInv, Started
<1>7. Posted'
  <2>1. Finished' = Finished
    BY <1>0, <1>2, <1>5, Dealt DEF IndInv, Finished
  <2> QED
    BY <1>0, <1>1, <1>2, <2>1 DEF IndInv, Posted
<1>8. ASSUME NEW u \in 0 .. count PROVE OwnRow(u)' /\ Behind(u)'
  <2>1. CASE u = 0
    <3>1. 0 % (count + 1) = 0 /\ 0 % frame.nsync = 0
      BY <1>1, ModSmall, count + 1 \in Nat \ {0}
    <3> QED
      BY <1>0, <1>1, <1>2, <2>1, <3>1 DEF OwnRow, Behind
  <2>2. CASE u # 0
    <3>1. OwnRow(u) /\ Behind(u) /\ u \in Workers
      BY <1>1, <2>2, Dealt DEF IndInv, InHand, StaysBehind
    <3> QED
      BY <1>0, <1>2, <3>1 DEF OwnRow, Behind
  <2> QED
    BY <2>1, <2>2
<1>9. ASSUME NEW r \in 0 .. frame.rows - 1, NEW u \in 0 .. count,
             u = r % (count + 1)
      PROVE  RowState(u, r)'
  <2>1. RowState(u, r)
    BY <1>1, <1>9 DEF IndInv, RowStates
  <2>2. CASE u = 0
    <3>1. decoded[r] = 0 /\ mbCol[r] = -1
          /\ mbCol[r] <= frame.cols + frame.nsync
      BY <1>4, <2>1, <2>2 DEF RowState
    <3> QED
      BY <1>0, <1>1, <1>2, <1>4, <2>2, <3>1 DEF RowState, InRow
  <2>3. CASE u # 0
    <3>1. u \in Workers /\ (Unbegun(u)' <=> Unbegun(u))
      BY <1>1, <1>5, <2>3, Dealt DEF IndInv
    <3> QED
      BY <1>0, <1>2, <2>1, <2>3, <3>1 DEF RowState
  <2> QED
    BY <2>2, <2>3
<1>10. \A r \in 0 .. frame.rows - 1 : r % (count + 1) \in 0 .. count
  BY <1>1, Owner
<1>11. InHand' /\ StaysBehind' /\ RowStates'
  BY <1>0, <1>8, <1>9, <1>10 DEF InHand, StaysBehind, RowStates
<1>12. CleanIsComplete'
  BY <1>2 DEF CleanIsComplete
<1> QED
  BY <1>3, <1>6, <1>7, <1>11, <1>12 DEF IndInv

\* The number of threads is a number of threads, and leaves each a row.
LEMMA ClampedType ==
  ASSUME TypeOK, NEW f \in Frames
  PROVE  Clamped(f) \in 0 .. MaxThreads /\ Clamped(f) < f.rows
<1>1. /\ count \in Nat /\ count <= MaxThreads /\ MaxThreads \in Nat
      /\ f.parts \in Nat \ {0} /\ f.rows \in Nat \ {0}
  BY Numbers, FrameFacts DEF TypeOK
<1> DEFINE S == {count, f.parts - 1, f.rows - 1}
<1>2. \E x \in S : \A y \in S : x <= y
  BY <1>1
<1>3. Smallest(S) \in S /\ \A y \in S : Smallest(S) <= y
  <2> HIDE DEF S
  <2> QED
    BY <1>2, SmallestIs
<1>4. Clamped(f) = Smallest(S)
  BY DEF Clamped
<1> QED
  BY <1>1, <1>3, <1>4

\* A frame starts with no thread begun and no row touched.
LEMMA StartFrameInv ==
  ASSUME IndInv, NEW f \in Frames, NEW k \in BOOLEAN, NEW lost \in BOOLEAN,
         StartFrame(f, k, lost)
  PROVE  IndInv'
<1>0. /\ pc[0] = "between" /\ pc' = [pc EXCEPT ![0] = "start"]
      /\ frame' = f /\ key' = k /\ count' = Clamped(f) /\ turn' = 1
      /\ corrupted' = [corrupted EXCEPT ![0] = lost]
      /\ mbCol' = ResetColumns(f)
      /\ decoded' = [r \in Rows |-> 0] /\ missing' = lost
      /\ UNCHANGED <<mt, allocated, startSem, endSem, row, col, keyDone, refBad,
                     result>>
  BY DEF StartFrame, Goto, sems
<1>1. /\ f.rows \in Nat \ {0} /\ f.cols \in Nat \ {0} /\ f.nsync \in Nat \ {0}
      /\ \A r \in 0 .. f.rows - 1 : r \in Rows
  BY FrameFacts
<1>2. count' \in 0 .. MaxThreads /\ count' < f.rows /\ count' \in Nat
  BY <1>0, ClampedType, Numbers DEF IndInv
<1>3. pc'[0] = "start" /\ \A u \in Workers : pc'[u] = pc[u]
  BY <1>0, Numbers DEF IndInv, TypeOK
<1>4. TypeOK'
  <2>1. mbCol' \in [Rows -> Int] /\ decoded' \in [Rows -> Nat]
    BY <1>0 DEF IndInv, TypeOK, ResetColumns
  <2>2. corrupted' \in [Threads -> BOOLEAN]
    BY <1>0 DEF IndInv, TypeOK
  <2> QED
    BY <1>0, <1>2, <1>3, <2>1, <2>2 DEF IndInv, TypeOK, InFrame, AtRest
<1>5. \A u \in Workers : Resting(u) /\ Resting(u)'
  BY <1>0, <1>3 DEF IndInv, Started, Resting
<1>6. \A u \in 0 .. count' : Unbegun(u)'
  BY <1>0, <1>2, <1>3 DEF Unbegun
<1>7. Started'
  BY <1>0, <1>2, <1>3, <1>5 DEF IndInv, Started, Resting
<1>8. Posted'
  <2>1. Finished' = {}
    BY <1>6 DEF Finished
  <2>2. endSem' = 0
    BY <1>0 DEF IndInv, Started
  <2> QED
    BY <1>3, <2>1, <2>2, FS_EmptySet DEF Posted
<1>9. \A u \in 0 .. count' : pc'[u] \in {"start", "top", "sleep"}
  <2>1. \A u \in 0 .. count' : u = 0 \/ u \in Workers
    BY <1>2, Numbers DEF Workers
  <2> QED
    BY <1>3, <1>5, <2>1 DEF Resting
<1>10. InHand' /\ StaysBehind'
  BY <1>9 DEF InHand, OwnRow, StaysBehind, Behind, InRow
<1>11. ASSUME NEW r \in 0 .. f.rows - 1, NEW u \in 0 .. count'
       PROVE  RowState(u, r)'
  <2>1. decoded'[r] = 0 /\ mbCol'[r] = -1
    BY <1>0, <1>1 DEF ResetColumns
  <2> QED
    BY <1>0, <1>1, <1>6, <2>1 DEF RowState
<1>12. \A r \in 0 .. f.rows - 1 : r % (count' + 1) \in 0 .. count'
  <2>1. PICK n \in Nat : n = count'
    BY <1>2
  <2>2. \A r \in Nat : r % (n + 1) \in 0 .. n
    BY Owner
  <2>3. \A r \in 0 .. f.rows - 1 : r \in Nat
    BY <1>1
  <2> QED
    BY <2>1, <2>2, <2>3
<1>13. RowStates'
  BY <1>0, <1>11, <1>12 DEF RowStates
<1>14. CleanIsComplete'
  BY <1>3 DEF CleanIsComplete
<1> QED
  BY <1>4, <1>7, <1>8, <1>10, <1>13, <1>14 DEF IndInv

\* What the end of vp8_decode_frame() leaves.
LEMMA CollectType ==
  ASSUME TypeOK, NEW bad \in BOOLEAN, NEW k \in BOOLEAN, Collect(bad, k)
  PROVE  /\ result' \in {"clean", "corrupt", "error"}
         /\ keyDone' \in BOOLEAN /\ refBad' \in BOOLEAN
         /\ result' = "clean" => ~bad
<1>1. CASE ~keyDone /\ (bad \/ ~k)
  BY <1>1 DEF Collect, TypeOK
<1>2. CASE ~(~keyDone /\ (bad \/ ~k))
  <2>1. /\ result' = (IF bad THEN "corrupt" ELSE "clean") /\ keyDone' = TRUE
        /\ refBad' \in IF bad THEN {TRUE} ELSE IF k THEN {FALSE}
                       ELSE {FALSE, refBad}
    BY <1>2 DEF Collect
  <2> QED
    BY <2>1 DEF TypeOK
<1> QED
  BY <1>1, <1>2

\* A frame on this thread alone is decoded whole.
LEMMA SerialFrameInv ==
  ASSUME IndInv, NEW f \in Frames, NEW k \in BOOLEAN, NEW lost \in BOOLEAN,
         NEW use \in BOOLEAN, SerialFrame(f, k, lost, use)
  PROVE  IndInv'
<1>0. /\ pc[0] = "between" /\ frame' = f /\ key' = k /\ count' = Clamped(f)
      /\ corrupted' = [corrupted EXCEPT ![0] = lost \/ use]
      /\ decoded' = [r \in Rows |-> IF r < f.rows THEN f.cols ELSE 0]
      /\ missing' = lost
      /\ UNCHANGED <<mt, allocated, startSem, endSem, pc, row, col, mbCol, turn>>
  BY DEF SerialFrame, sems
<1>1. /\ result' \in {"clean", "corrupt", "error"}
      /\ keyDone' \in BOOLEAN /\ refBad' \in BOOLEAN
  BY CollectType, (lost \/ use) \in BOOLEAN DEF SerialFrame, IndInv
<1>2. TypeOK'
  <2>1. decoded' \in [Rows -> Nat]
    BY <1>0, FrameFacts
  <2>2. corrupted' \in [Threads -> BOOLEAN]
    BY <1>0 DEF IndInv, TypeOK
  <2>3. count' \in 0 .. MaxThreads
    BY <1>0, ClampedType DEF IndInv
  <2> QED
    BY <1>0, <1>1, <2>1, <2>2, <2>3 DEF IndInv, TypeOK
<1>3. Started'
  BY <1>0 DEF IndInv, Started, Resting, InFrame
<1>4. CleanIsComplete'
  BY <1>0 DEF CleanIsComplete
<1>5. pc'[0] \notin InFrame
  BY <1>0 DEF InFrame
<1> QED
  BY <1>2, <1>3, <1>4, <1>5, OutOfFrame DEF IndInv

\* A post is waited for.
LEMMA OnePostInv ==
  ASSUME IndInv, pc[0] \in {"finish", "drain"}, turn <= count,
         endSem > 0, endSem' = endSem - 1, turn' = turn + 1,
         UNCHANGED <<mt, allocated, count, startSem, pc, row, col, frame, key,
                     keyDone, refBad, mbCol, corrupted, result, decoded, missing>>
  PROVE  IndInv'
<1>1. pc[0] \in InFrame /\ count \in Nat /\ turn \in Nat /\ endSem \in Nat
  BY Dealt DEF InFrame, IndInv, TypeOK
<1>2. TypeOK'
  BY <1>1 DEF IndInv, TypeOK
<1>3. \A u \in Threads : Unbegun(u)' <=> Unbegun(u)
  BY DEF Unbegun
<1>4. Started'
  BY <1>1, <1>3, Numbers DEF IndInv, Started, Resting
<1>5. Posted'
  <2>1. Finished' = Finished
    BY <1>3, Dealt DEF IndInv, Finished
  <2>2. Cardinality(Finished) \in Nat
    BY FinishedCount, <1>1 DEF IndInv
  <2> QED
    BY <1>1, <2>1, <2>2 DEF IndInv, Posted
<1>6. Aside
  BY <1>1, <1>3, Dealt DEF IndInv, Aside
<1>7. CleanIsComplete'
  BY DEF IndInv, CleanIsComplete
<1> QED
  BY <1>2, <1>4, <1>5, <1>6, <1>7, AsideRows DEF IndInv

\* With all posts, all threads rest.
LEMMA AllRest ==
  ASSUME IndInv, pc[0] \in {"finish", "drain"}, ~(turn <= count)
  PROVE  endSem = 0 /\ \A t \in Workers : Resting(t)
<1>1. /\ turn = count + 1 /\ endSem + turn = Cardinality(Finished) + 1
      /\ count \in Nat /\ endSem \in Nat
  BY Dealt DEF IndInv, Posted, TypeOK
<1>2. Cardinality(Finished) = count /\ endSem = 0 /\ Finished = 1 .. count
  BY <1>1, FinishedCount DEF IndInv
<1>3. ASSUME NEW t \in Workers PROVE Resting(t)
  <2>1. pc[0] \in InFrame /\ t \in Nat \ {0}
    BY Numbers DEF InFrame
  <2>2. CASE count < t
    BY <2>1, <2>2 DEF IndInv, Started
  <2>3. CASE t \in Finished
    BY <2>1, <2>3 DEF IndInv, Started, Finished, Resting, Unbegun
  <2> QED
    BY <1>1, <1>2, <2>1, <2>2, <2>3
<1> QED
  BY <1>2, <1>3

\* The frame ends without an error on this thread.
LEMMA FinishInv ==
  ASSUME IndInv, Finish
  PROVE  IndInv'
<1>1. CASE turn <= count
  BY <1>1, OnePostInv DEF Finish, history
<1>2. CASE ~(turn <= count)
  <2>0. /\ pc[0] = "finish" /\ pc' = [pc EXCEPT ![0] = "between"]
        /\ Collect(CorruptTokens, key)
        /\ UNCHANGED <<mt, allocated, count, startSem, endSem, turn, row, col,
                       frame, key, mbCol, corrupted, decoded, missing>>
    BY <1>2 DEF Finish, Goto, history
  <2>1. endSem = 0 /\ \A t \in Workers : Resting(t)
    BY <1>2, <2>0, AllRest
  <2>2. pc'[0] = "between" /\ \A u \in Workers : pc'[u] = pc[u]
    BY <2>0, Numbers DEF IndInv, TypeOK
  <2>3. /\ result' \in {"clean", "corrupt", "error"}
        /\ keyDone' \in BOOLEAN /\ refBad' \in BOOLEAN
        /\ result' = "clean" => ~CorruptTokens
    BY <2>0, CollectType, CorruptTokens \in BOOLEAN
       DEF IndInv, TypeOK, CorruptTokens
  <2>4. TypeOK'
    BY <2>0, <2>2, <2>3 DEF IndInv, TypeOK, AtRest
  <2>5. pc[0] \in InFrame /\ pc'[0] \notin InFrame /\ mt
    BY <2>0, <2>2 DEF IndInv, Started, InFrame
  <2>6. Started'
    BY <2>0, <2>1, <2>2, <2>5 DEF Started, Resting
  <2>7. CleanIsComplete'
    <3> SUFFICES ASSUME result' = "clean", NEW r \in Rows, r < frame.rows
                 PROVE  decoded[r] = frame.cols
      BY <2>0 DEF CleanIsComplete
    <3>1. r \in 0 .. frame.rows - 1 /\ r \in Nat /\ count \in Nat
      BY Numbers, FrameFacts, Dealt DEF IndInv, TypeOK
    <3>2. PICK u \in 0 .. count : u = r % (count + 1)
      BY <3>1, Owner
    <3>3. RowState(u, r)
      BY <2>5, <3>1, <3>2 DEF IndInv, RowStates
    <3>4. CASE u = 0
      BY <2>0, <3>3, <3>4 DEF RowState, Unbegun, InRow
    <3>5. CASE u # 0
      <4>1. u \in Workers /\ u \in 1 .. count
        BY <3>1, <3>5, Dealt DEF IndInv
      <4>2. ~corrupted[u]
        BY <2>3, <4>1 DEF CorruptTokens
      <4>3. pc[u] \notin InRow \cup {"release"} /\ ~Unbegun(u)
        BY <2>0, <2>1, <3>5, <4>1 DEF Resting, Unbegun, InRow
      <4> QED
        BY <3>3, <4>2, <4>3 DEF RowState
    <3> QED
      BY <3>4, <3>5
  <2> QED
    BY <2>4, <2>5, <2>6, <2>7, OutOfFrame DEF IndInv
<1> QED
  BY <1>1, <1>2

\* The frame ends with an error on this thread.
LEMMA DrainInv ==
  ASSUME IndInv, Drain
  PROVE  IndInv'
<1>1. CASE turn <= count
  <2>1. ~Drained
    BY <1>1, Dealt DEF Drained, IndInv, TypeOK
  <2> QED
    BY <1>1, <2>1, OnePostInv DEF Drain, history
<1>2. CASE ~(turn <= count)
  <2>0. /\ pc[0] = "drain" /\ pc' = [pc EXCEPT ![0] = "remove"] /\ turn' = 1
        /\ result' = "resync" /\ refBad' = TRUE
        /\ UNCHANGED <<mt, allocated, count, startSem, endSem, row, col, frame,
                       key, keyDone, mbCol, corrupted, decoded, missing>>
    <3>1. Drained
      BY <1>2, Dealt DEF Drained, IndInv, TypeOK
    <3> QED
      BY <3>1 DEF Drain, Goto, history
  <2>1. \A t \in Workers : Resting(t)
    BY <1>2, <2>0, AllRest
  <2>2. pc'[0] = "remove" /\ \A u \in Workers : pc'[u] = pc[u]
    BY <2>0, Numbers DEF IndInv, TypeOK
  <2>3. TypeOK'
    BY <2>0, <2>2 DEF IndInv, TypeOK, AtRest
  <2>4. pc'[0] \notin InFrame
    BY <2>2 DEF InFrame
  <2>5. Started'
    BY <2>0, <2>1, <2>2, <2>4 DEF Started, Resting, AtRest
  <2>6. CleanIsComplete'
    BY <2>2 DEF CleanIsComplete
  <2> QED
    BY <2>3, <2>4, <2>5, <2>6, OutOfFrame DEF IndInv
<1> QED
  BY <1>1, <1>2

-----------------------------------------------------------------------------
(* Creating and removing the threads.                                      *)

\* New threads rest; if one cannot be created, the others are removed.
LEMMA CreateThreadsInv ==
  ASSUME IndInv, NEW n \in 0 .. MaxThreads, CreateThreads(n)
  PROVE  IndInv'
<1>1. /\ pc'[0] = (IF n = MaxThreads THEN "between" ELSE "remove")
      /\ \A t \in Workers : pc'[t] = (IF t <= n THEN "top" ELSE "none")
      /\ pc' \in [Threads -> {"between", "remove", "top", "none"}]
  BY Numbers DEF CreateThreads
<1>2. TypeOK'
  <2>1. /\ startSem' \in [Workers -> Nat] /\ allocated' \in 0 .. MaxThreads
        /\ count' \in 0 .. MaxThreads /\ endSem' \in Nat /\ turn' \in Nat
        /\ mt' \in BOOLEAN
    BY Numbers DEF CreateThreads
  <2>2. corrupted' \in [Threads -> BOOLEAN]
    BY Numbers DEF CreateThreads, IndInv, TypeOK
  <2>3. /\ pc' \in [Threads -> InFrame \cup AtRest
                            \cup {"restart", "between", "remove", "join"}]
        /\ pc'[0] \notin AtRest
        /\ \A t \in Workers :
             pc'[t] \in InRow \cup {"release", "post"} \cup AtRest
    BY <1>1 DEF AtRest
  <2> QED
    BY <2>1, <2>2, <2>3 DEF CreateThreads, shape, history, IndInv, TypeOK
<1>3. Started'
  <2>1. n = MaxThreads => \A t \in Workers : pc'[t] = "top"
    BY <1>1 DEF Workers
  <2>2. result' = "resync"
    BY DEF CreateThreads, IndInv, Started
  <2>3. mt' /\ endSem' = 0 /\ \A t \in Workers : startSem'[t] = 0
    BY DEF CreateThreads
  <2> QED
    BY <1>1, <2>1, <2>2, <2>3 DEF Started, Resting, AtRest, InFrame
<1>4. CleanIsComplete'
  BY DEF CreateThreads, IndInv, Started, CleanIsComplete
<1>5. pc'[0] \notin InFrame
  BY <1>1 DEF InFrame
<1> QED
  BY <1>2, <1>3, <1>4, <1>5, OutOfFrame DEF IndInv

\* Threads are removed when none of them has a frame to decode.
LEMMA RemoveInv ==
  ASSUME IndInv, Destroy \/ Remove \/ Join
  PROVE  IndInv'
<1>1. CASE Destroy
  <2>1. /\ pc'[0] = "remove" /\ pc' \in [Threads -> InFrame \cup AtRest
                            \cup {"restart", "between", "remove", "join"}]
        /\ \A t \in Workers : pc'[t] = pc[t]
    BY <1>1, Numbers DEF Destroy, Goto, IndInv, TypeOK
  <2>2. TypeOK'
    BY <1>1, <2>1 DEF Destroy, sems, history, IndInv, TypeOK, AtRest
  <2>3. Started'
    BY <1>1, <2>1 DEF Destroy, sems, IndInv, Started, Resting, AtRest, InFrame
  <2>4. CleanIsComplete' /\ pc'[0] \notin InFrame
    BY <2>1 DEF CleanIsComplete, InFrame
  <2> QED
    BY <2>2, <2>3, <2>4, OutOfFrame DEF IndInv
<1>2. CASE Remove
  <2>1. /\ pc'[0] \in {"join", "restart"} /\ pc' \in [Threads -> InFrame
              \cup AtRest \cup {"restart", "between", "remove", "join"}]
        /\ \A t \in Workers : pc'[t] = pc[t]
    BY <1>2, Numbers DEF Remove, Goto, IndInv, TypeOK
  <2>2. startSem' \in [Workers -> Nat]
    BY <1>2 DEF Remove, IndInv, TypeOK
  <2>3. TypeOK'
    BY <1>2, <2>1, <2>2 DEF Remove, shape, history, IndInv, TypeOK, AtRest
  <2>4. Started'
    BY <1>2, <2>1 DEF Remove, IndInv, Started, InFrame
  <2>5. CleanIsComplete' /\ pc'[0] \notin InFrame
    BY <2>1 DEF CleanIsComplete, InFrame
  <2> QED
    BY <2>3, <2>4, <2>5, OutOfFrame DEF IndInv
<1>3. CASE Join
  <2>0. turn # 0
    BY <1>3 DEF Join
  <2>1. /\ pc'[0] = "remove" /\ pc' \in [Threads -> InFrame
              \cup AtRest \cup {"restart", "between", "remove", "join"}]
        /\ \A t \in Workers : pc'[t] \in {pc[t], "none"}
    BY <1>3, <2>0, Numbers DEF Join, IndInv, TypeOK, AtRest
  <2>2. TypeOK'
    <3>1. pc'[0] \notin AtRest /\ \A t \in Workers :
            pc'[t] \in InRow \cup {"release", "post"} \cup AtRest
      BY <2>1 DEF IndInv, TypeOK, AtRest
    <3>2. turn' \in Nat
      BY <1>3 DEF Join, IndInv, TypeOK
    <3> QED
      BY <1>3, <2>1, <3>1, <3>2 DEF Join, sems, shape, history, IndInv, TypeOK
  <2>3. Started'
    BY <1>3, <2>1 DEF Join, IndInv, Started, AtRest, InFrame
  <2>4. CleanIsComplete' /\ pc'[0] \notin InFrame
    BY <2>1 DEF CleanIsComplete, InFrame
  <2> QED
    BY <2>2, <2>3, <2>4, OutOfFrame DEF IndInv
<1> QED
  BY <1>1, <1>2, <1>3

-----------------------------------------------------------------------------
(* The invariant and what follows.                                         *)

\* Decoding starts with no threads and no frame.
LEMMA InitInv == Init => IndInv
<1> SUFFICES ASSUME Init PROVE IndInv
  OBVIOUS
<1>1. pc[0] = "restart" /\ \A t \in Workers : pc[t] = "none"
  BY Numbers DEF Init
<1>2. TypeOK
  <2>1. /\ pc \in [Threads -> InFrame \cup AtRest
                           \cup {"restart", "between", "remove", "join"}]
        /\ pc[0] \notin AtRest
        /\ \A t \in Workers : pc[t] \in InRow \cup {"release", "post"} \cup AtRest
    BY <1>1 DEF Init, AtRest
  <2>2. /\ startSem \in [Workers -> Nat] /\ row \in [Threads -> Nat]
        /\ col \in [Threads -> Nat] /\ corrupted \in [Threads -> BOOLEAN]
        /\ mbCol \in [Rows -> Int] /\ decoded \in [Rows -> Nat]
    BY DEF Init
  <2>3. allocated \in 0 .. MaxThreads /\ count \in 0 .. MaxThreads
    BY Numbers DEF Init
  <2> QED
    BY <2>1, <2>2, <2>3 DEF Init, TypeOK
<1>3. Started /\ CleanIsComplete
  BY <1>1 DEF Init, Started, CleanIsComplete, AtRest, InFrame
<1>4. Posted /\ InHand /\ RowStates /\ StaysBehind
  BY <1>1 DEF Posted, InHand, RowStates, StaysBehind, InFrame
<1> QED
  BY <1>2, <1>3, <1>4 DEF IndInv

\* The steps of one thread within its rows.
LEMMA RowStepInv == ASSUME IndInv, NEW t \in Threads, RowStep(t) PROVE IndInv'
<1>1. CASE PostEnd(t)
  BY <1>1, WorkerPostInv, MainPostInv, Numbers
<1> QED
  BY <1>1, PublishInv, RowEndInv, ReleaseInv, WaitInv, DecodeMbInv DEF RowStep

\* Every step keeps the invariant.
LEMMA NextInv == IndInv /\ [Next]_vars => IndInv'
<1> SUFFICES ASSUME IndInv, [Next]_vars PROVE IndInv'
  OBVIOUS
<1>1. CASE MainStep
  <2>1. CASE PostStart
    BY <2>1, PostOneInv, PostedAllInv
  <2>2. CASE RowStep(0)
    BY <2>2, RowStepInv, Numbers
  <2> QED
    BY <1>1, <2>1, <2>2, FinishInv, DrainInv, RemoveInv DEF MainStep
<1>2. ASSUME NEW t \in Workers, WorkerStep(t) PROVE IndInv'
  BY <1>2, RowStepInv, TopInv, WakeUpInv, Numbers DEF WorkerStep
<1>3. CASE UNCHANGED vars
  BY <1>3 DEF vars, sems, shape, history, IndInv, TypeOK, Started, Posted,
              InHand, RowStates, StaysBehind, CleanIsComplete, Resting, Unbegun,
              Finished, OwnRow, RowState, Behind
<1> QED
  BY <1>1, <1>2, <1>3, CreateThreadsInv, StartFrameInv, SerialFrameInv,
     RemoveInv DEF Next

\* The inductive invariant: rows are dealt, begun, published and given up as the
\* threads of vp8/decoder/threading.c are started and post, over any frames.
THEOREM Invariance == Spec => []IndInv
<1> QED
  BY InitInv, NextInv, PTL DEF Spec

\* mt_current_mb_col keeps every macroblock behind the one above and to its
\* right, for any number of threads, any size of frame and any nsync, unless
\* the thread of the row above has met an error.
THEOREM KeptBehind == Spec => []AboveRightDecoded
<1>1. IndInv => AboveRightDecoded
  <2> SUFFICES ASSUME IndInv, NEW t \in Threads, pc[t] = "mb", row[t] > 0,
                      ~GivenUp(row[t] - 1)
               PROVE  decoded[row[t] - 1] >= Smallest({col[t] + 2, frame.cols})
    BY DEF AboveRightDecoded
  <2>1. /\ frame.rows \in Nat \ {0} /\ frame.cols \in Nat \ {0}
        /\ frame.nsync \in Nat \ {0} /\ count \in Nat
        /\ row[t] \in 0 .. frame.rows - 1 /\ col[t] \in Nat /\ Behind(t)
        /\ \A r \in 0 .. frame.rows - 1 : mbCol[r] \in Int /\ decoded[r] \in Nat
    BY Hand DEF InRow
  <2> DEFINE above == row[t] - 1
  <2>2. above \in 0 .. frame.rows - 1 /\ above \in Nat
    BY <2>1
  <2>3. mbCol[above] >= col[t] - (col[t] % frame.nsync) + frame.nsync
    BY <2>1 DEF Behind
  <2>4. col[t] % frame.nsync \in 0 .. frame.nsync - 1
    BY <2>1
  <2>5. mbCol[above] >= col[t] + 1
    BY <2>1, <2>2, <2>3, <2>4
  <2>6. PICK u \in 0 .. count : u = above % (count + 1)
    BY <2>1, <2>2, Owner
  <2>7. ~corrupted[u]
    BY <2>6 DEF GivenUp
  <2>8. RowState(u, above)
    <3>1. pc[0] \in InFrame
      BY AtWork DEF InRow
    <3> QED
      BY <2>2, <2>6, <3>1 DEF IndInv, RowStates
  <2>9. pc[u] # "release"
    <3>1. pc[0] \in InFrame
      BY AtWork DEF InRow
    <3> QED
      BY <2>7, <3>1 DEF IndInv, InHand, OwnRow
  <2>10. decoded[above] >= col[t] + 2 \/ decoded[above] = frame.cols
    <3>1. u \in Threads
      BY Dealt DEF IndInv
    <3>2. row[u] \in Nat /\ col[u] \in Nat
      BY <3>1 DEF IndInv, TypeOK
    <3> HIDE DEF above
    <3> QED
      BY <2>1, <2>2, <2>5, <2>7, <2>8, <2>9, <3>2 DEF RowState, InRow
  <2>11. /\ Smallest({col[t] + 2, frame.cols}) \in {col[t] + 2, frame.cols}
         /\ Smallest({col[t] + 2, frame.cols}) <= col[t] + 2
         /\ Smallest({col[t] + 2, frame.cols}) <= frame.cols
    <3> DEFINE S == {col[t] + 2, frame.cols}
    <3>1. \E x \in S : \A y \in S : x <= y
      BY <2>1
    <3>2. Smallest(S) \in S /\ \A y \in S : Smallest(S) <= y
      <4> HIDE DEF S
      <4> QED
        BY <3>1, SmallestIs
    <3> QED
      BY <3>2
  <2> HIDE DEF above
  <2>12. decoded[above] >= Smallest({col[t] + 2, frame.cols})
    BY <2>1, <2>2, <2>10, <2>11
  <2> QED
    BY <2>12 DEF above
<1> QED
  BY Invariance, <1>1, PTL

\* vp8mt_decode_mb_rows() never returns while a thread still decodes, whether it
\* ends well or by a jump out of a macroblock, whatever the others meet.
THEOREM ReturnsAlone == Spec => []OthersFinished
<1>1. IndInv => OthersFinished
  <2> SUFFICES ASSUME IndInv, pc[0] \notin InFrame, NEW t \in Workers
               PROVE  pc[t] \in {"none", "top", "sleep", "exited"}
    BY DEF OthersFinished
  <2>1. pc[0] \in {"restart", "between", "remove", "join"}
    BY Numbers DEF IndInv, TypeOK
  <2> QED
    BY <2>1 DEF IndInv, Started, Resting, AtRest
<1> QED
  BY Invariance, <1>1, PTL

\* A frame reported as clean is decoded to the last macroblock, however its rows
\* were dealt out and whatever earlier frames left.
THEOREM CleanComplete == Spec => []CleanIsComplete
<1>1. IndInv => CleanIsComplete
  BY DEF IndInv
<1> QED
  BY Invariance, <1>1, PTL

=============================================================================
