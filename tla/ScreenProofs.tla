---------------------------- MODULE ScreenProofs ----------------------------
(***************************************************************************)
(* Theorems about TuiApp, PageMap and Screen, for any set of files, any    *)
(* sizes and samples, any number of workers and any length of the list:    *)
(*                                                                         *)
(*  - what the list of TuiApp keeps, counts and shows;                     *)
(*  - what the operators of PageMap return: the bits of a sample, the runs *)
(*    of a map;                                                            *)
(*  - that Screen implements TuiApp, that every event finds its file and   *)
(*    that every map on the screen is that of its file;                    *)
(*  - that what is drawn of a map is fair to it, and that the summary is   *)
(*    the sum of what was left of each file.                               *)
(*                                                                         *)
(* Facts about sizes are proved by the least number that would refute them *)
(* (LeastNumber), for no rule of induction can be instantiated here.       *)
(***************************************************************************)
EXTENDS Screen, FiniteSetTheorems, WellFoundedInduction, TLAPS

-----------------------------------------------------------------------------
\* What RemoveAt leaves.
LEMMA Removed ==
  ASSUME NEW S, NEW s \in Seq(S), NEW r \in 1 .. Len(s)
  PROVE  /\ RemoveAt(s, r) \in Seq(S)
         /\ Len(RemoveAt(s, r)) = Len(s) - 1
         /\ \A n \in 1 .. Len(s) - 1 :
              RemoveAt(s, r)[n] = IF n < r THEN s[n] ELSE s[n + 1]
<1> DEFINE front == SubSeq(s, 1, r - 1)
           back  == SubSeq(s, r + 1, Len(s))
<1>1. /\ front \in Seq(S) /\ Len(front) = r - 1
      /\ \A n \in 1 .. r - 1 : front[n] = s[n]
  OBVIOUS
<1>2. /\ back \in Seq(S) /\ Len(back) = Len(s) - r
      /\ \A n \in 1 .. Len(s) - r : back[n] = s[r + n]
  OBVIOUS
<1> HIDE DEF front, back
<1>3. /\ front \o back \in Seq(S)
      /\ Len(front \o back) = Len(s) - 1
      /\ \A n \in 1 .. Len(s) - 1 :
           (front \o back)[n] = IF n < r THEN s[n] ELSE s[n + 1]
  <2>1. front \o back \in Seq(S) /\ Len(front \o back) = Len(s) - 1
    BY <1>1, <1>2
  <2>2. \A n \in 1 .. Len(s) - 1 :
          (front \o back)[n] = IF n <= r - 1 THEN front[n] ELSE back[n - (r - 1)]
    BY <1>1, <1>2
  <2>3. \A n \in 1 .. Len(s) - 1 :
          n > r - 1 => n - (r - 1) \in 1 .. Len(s) - r /\ r + (n - (r - 1)) = n + 1
    OBVIOUS
  <2>4. \A n \in 1 .. Len(s) - 1 : n > r - 1 => back[n - (r - 1)] = s[n + 1]
    BY <1>2, <2>3
  <2>5. \A n \in 1 .. Len(s) - 1 : n <= r - 1 => n < r /\ front[n] = s[n]
    BY <1>1
  <2> QED
    BY <2>1, <2>2, <2>4, <2>5
<1> QED
  BY <1>3 DEF RemoveAt, front, back

\* Two finite sets together, and one without another.
LEMMA Counting ==
  ASSUME NEW S, NEW T, IsFiniteSet(S), IsFiniteSet(T)
  PROVE  /\ Cardinality(S) \in Nat /\ Cardinality(T) \in Nat /\ Cardinality(T \cap S) \in Nat
         /\ Cardinality(S \cup T) = Cardinality(S) - Cardinality(T \cap S) + Cardinality(T)
         /\ Cardinality(S \ T) = Cardinality(S) - Cardinality(T \cap S)
         /\ Cardinality(T \cap S) <= Cardinality(S)
<1>1. S \cap T = T \cap S
  OBVIOUS
<1>2. T \cap S \in SUBSET S
  OBVIOUS
<1>3. IsFiniteSet(T \cap S) /\ Cardinality(T \cap S) <= Cardinality(S)
  BY <1>2, FS_Subset
<1>4. Cardinality(S) \in Nat /\ Cardinality(T) \in Nat /\ Cardinality(T \cap S) \in Nat
  BY <1>3, FS_CardinalityType
<1>5. Cardinality(S \cup T) = Cardinality(S) + Cardinality(T) - Cardinality(T \cap S)
  BY <1>1, FS_Union
<1>6. Cardinality(S \ T) = Cardinality(S) - Cardinality(T \cap S)
  BY <1>1, FS_Difference, ZenonT(30)
<1> QED
  BY <1>3, <1>4, <1>5, <1>6

-----------------------------------------------------------------------------
\* The strengthening.  Rows and places are what they should be, ...
Typed ==
  /\ files \in Seq(File)
  /\ index \in [DOMAIN index -> Nat] /\ DOMAIN index \subseteq Ids
  /\ running \subseteq Ids
  /\ finished \subseteq [id : Ids, total : 1 .. MaxPages]

\* ... each file has one row and each row is that of its file, ...
Located ==
  /\ \A i \in DOMAIN index : index[i] \in 1 .. Len(files) /\ files[index[i]].id = i
  /\ \A n \in 1 .. Len(files) : files[n].id \in DOMAIN index /\ index[files[n].id] = n

\* ... the running files have rows that are not done, and there are no other rows
\* but of files that have finished, ...
Tracked ==
  /\ \A i \in running : i \in DOMAIN index /\ ~files[index[i]].done
  /\ \A i \in DOMAIN index : i \in running \/ \E f \in finished : f.id = i
  /\ \A f \in finished : f.id \notin running

\* ... and every count is that of a map that lies within its file.
Counted ==
  \A n \in 1 .. Len(files) : /\ files[n].residency \subseteq 1 .. files[n].total
                             /\ files[n].resident = Cardinality(files[n].residency)

IInv == Typed /\ Located /\ Tracked /\ Counted

(* A map within a file has a count within it. *)
LEMMA Within ==
  ASSUME NEW total \in 1 .. MaxPages, NEW map \in SUBSET (1 .. total)
  PROVE  /\ IsFiniteSet(map)
         /\ Cardinality(map) \in 0 .. MaxPages
         /\ map \in SUBSET (1 .. MaxPages)
<1>1. MaxPages \in Nat
  BY TuiAppAssumption
<1>2. IsFiniteSet(1 .. total) /\ Cardinality(1 .. total) = total
  BY <1>1, FS_Interval
<1>3. IsFiniteSet(map) /\ Cardinality(map) <= total
  BY <1>2, FS_Subset
<1> QED
  BY <1>1, <1>3, FS_CardinalityType

\* The strengthening holds of the empty list.
LEMMA InitIInv == Init => IInv
BY DEF Init, IInv, Typed, Located, Tracked, Counted

-----------------------------------------------------------------------------
\* A file begins.
LEMMA StartIInv ==
  ASSUME IInv, NEW i \in Ids, NEW total \in 1 .. MaxPages, NEW residency \in SUBSET (1 .. total),
         Start(i, total, residency)
  PROVE  IInv'
<1> DEFINE row == [id |-> i, total |-> total, residency |-> residency,
                   resident |-> Cardinality(residency), done |-> FALSE]
           k   == Len(files) + 1
<1>1. row \in File
  BY Within DEF File
<1>2. files \in Seq(File) /\ k \in Nat
  BY DEF IInv, Typed
<1>3. i \notin DOMAIN index /\ i \notin running /\ \A f \in finished : f.id # i
  BY DEF IInv, Tracked, Start
<1>4. /\ files' = Append(files, row) /\ running' = running \cup {i} /\ finished' = finished
      /\ index' = [j \in DOMAIN index \cup {i} |-> IF j = i THEN k ELSE index[j]]
  BY DEF Start, Put
<1> HIDE DEF row
<1>5. /\ files' \in Seq(File) /\ Len(files') = k /\ files'[k] = row
      /\ \A n \in 1 .. Len(files) : files'[n] = files[n]
  BY <1>1, <1>2, <1>4
<1>6. /\ DOMAIN index' = DOMAIN index \cup {i} /\ index'[i] = k
      /\ \A j \in DOMAIN index : index'[j] = index[j]
  BY <1>3, <1>4
<1>7. row.id = i /\ row.total = total /\ row.residency = residency
      /\ row.resident = Cardinality(residency) /\ row.done = FALSE
  BY DEF row
<1>8. Typed'
  <2>1. index' \in [DOMAIN index' -> Nat]
    BY <1>2, <1>4, <1>6 DEF IInv, Typed
  <2> QED
    BY <2>1, <1>4, <1>5, <1>6 DEF IInv, Typed
<1>9. Located'
  <2>1. \A j \in DOMAIN index' : index'[j] \in 1 .. Len(files') /\ files'[index'[j]].id = j
    <3> TAKE j \in DOMAIN index'
    <3>1. CASE j = i
      BY <3>1, <1>2, <1>5, <1>6, <1>7
    <3>2. CASE j \in DOMAIN index
      <4>1. index[j] \in 1 .. Len(files) /\ files[index[j]].id = j
        BY <3>2 DEF IInv, Located
      <4> QED
        BY <3>2, <4>1, <1>2, <1>5, <1>6
    <3> QED
      BY <3>1, <3>2, <1>6
  <2>2. \A n \in 1 .. Len(files') : files'[n].id \in DOMAIN index' /\ index'[files'[n].id] = n
    <3> TAKE n \in 1 .. Len(files')
    <3>1. CASE n = k
      BY <3>1, <1>5, <1>6, <1>7
    <3>2. CASE n \in 1 .. Len(files)
      BY <3>2, <1>5, <1>6 DEF IInv, Located
    <3> QED
      BY <3>1, <3>2, <1>2, <1>5
  <2> QED
    BY <2>1, <2>2 DEF Located
<1>10. Tracked'
  <2>1. \A j \in running' : j \in DOMAIN index' /\ ~files'[index'[j]].done
    BY <1>4, <1>5, <1>6, <1>7 DEF IInv, Located, Tracked
  <2>2. \A j \in DOMAIN index' : j \in running' \/ \E f \in finished' : f.id = j
    BY <1>4, <1>6 DEF IInv, Tracked
  <2>3. \A f \in finished' : f.id \notin running'
    BY <1>3, <1>4 DEF IInv, Tracked
  <2> QED
    BY <2>1, <2>2, <2>3 DEF Tracked
<1>11. Counted'
  <2> SUFFICES ASSUME NEW n \in 1 .. Len(files')
               PROVE  /\ files'[n].residency \subseteq 1 .. files'[n].total
                      /\ files'[n].resident = Cardinality(files'[n].residency)
    BY DEF Counted
  <2>1. CASE n = k
    BY <2>1, <1>5, <1>7
  <2>2. CASE n \in 1 .. Len(files)
    BY <2>2, <1>5 DEF IInv, Counted
  <2> QED
    BY <2>1, <2>2, <1>2, <1>5
<1> QED
  BY <1>8, <1>9, <1>10, <1>11 DEF IInv

-----------------------------------------------------------------------------
\* The pages of a row change.
LEMMA WalkedIsCounted ==
  ASSUME NEW f \in File, f.residency \subseteq 1 .. f.total, f.resident = Cardinality(f.residency),
         NEW pages \in SUBSET (1 .. f.total), NEW resident \in BOOLEAN
  PROVE  LET g == Walked(f, pages, resident)
         IN  /\ g \in File
             /\ g.id = f.id /\ g.done = f.done
             /\ g.residency \subseteq 1 .. g.total /\ g.resident = Cardinality(g.residency)
<1> DEFINE map   == IF resident THEN f.residency \cup pages ELSE f.residency \ pages
           count == f.resident - Cardinality(pages \cap f.residency)
                      + (IF resident THEN Cardinality(pages) ELSE 0)
<1>1. /\ f.total \in 1 .. MaxPages /\ f.id \in Ids /\ f.done \in BOOLEAN
      /\ f = [id |-> f.id, total |-> f.total, residency |-> f.residency,
              resident |-> f.resident, done |-> f.done]
  BY DEF File
<1>2. IsFiniteSet(f.residency) /\ IsFiniteSet(pages)
  BY <1>1, Within
<1>3. Cardinality(map) = count
  <2>1. CASE resident
    BY <2>1, <1>2, Counting, ZenonT(30)
  <2>2. CASE ~resident
    <3>1. /\ Cardinality(f.residency) \in Nat /\ Cardinality(pages \cap f.residency) \in Nat
          /\ Cardinality(f.residency \ pages)
               = Cardinality(f.residency) - Cardinality(pages \cap f.residency)
      BY <1>2, Counting
    <3> QED
      BY <2>2, <3>1
  <2> QED
    BY <2>1, <2>2
<1>4. map \in SUBSET (1 .. f.total)
  OBVIOUS
<1>5. map \in SUBSET (1 .. MaxPages) /\ Cardinality(map) \in 0 .. MaxPages
  BY <1>1, <1>4, Within
<1>6. Walked(f, pages, resident)
        = [id |-> f.id, total |-> f.total, residency |-> map, resident |-> count, done |-> f.done]
  <2>1. Walked(f, pages, resident) = [f EXCEPT !.residency = map, !.resident = count]
    BY DEF Walked
  <2> HIDE DEF map, count
  <2> QED
    BY <1>1, <2>1
<1> HIDE DEF map, count
<1> QED
  BY <1>1, <1>3, <1>4, <1>5, <1>6 DEF File

\* A row in its place is replaced by one of the same file.
LEMMA ReplacedRow ==
  ASSUME IInv, NEW n \in 1 .. Len(files), NEW g \in File, g.id = files[n].id,
         g.residency \subseteq 1 .. g.total, g.resident = Cardinality(g.residency),
         NEW list, list = [files EXCEPT ![n] = g]
  PROVE  /\ list \in Seq(File) /\ Len(list) = Len(files)
         /\ list[n] = g /\ \A m \in 1 .. Len(files) : m # n => list[m] = files[m]
         /\ \A m \in 1 .. Len(files) : list[m].id = files[m].id
         /\ \A m \in 1 .. Len(list) : /\ list[m].residency \subseteq 1 .. list[m].total
                                       /\ list[m].resident = Cardinality(list[m].residency)
<1>1. files \in Seq(File)
  BY DEF IInv, Typed
<1>2. /\ list \in Seq(File) /\ Len(list) = Len(files)
      /\ list[n] = g /\ \A m \in 1 .. Len(files) : m # n => list[m] = files[m]
  BY <1>1
<1>3. \A m \in 1 .. Len(files) : list[m].id = files[m].id
  BY <1>2
<1>4. \A m \in 1 .. Len(files) : /\ list[m].residency \subseteq 1 .. list[m].total
                                  /\ list[m].resident = Cardinality(list[m].residency)
  BY <1>2 DEF IInv, Counted
<1> QED
  BY <1>2, <1>3, <1>4

\* Progress of a file.
LEMMA ProgressIInv ==
  ASSUME IInv, NEW i \in Ids, NEW offset \in Nat, NEW count \in Nat, NEW resident \in BOOLEAN,
         Progress(i, offset, count, resident)
  PROVE  IInv'
<1> DEFINE n     == index[i]
           end   == IF offset + count > files[n].total THEN files[n].total ELSE offset + count
           pages == (offset + 1) .. end
           g     == Walked(files[n], pages, resident)
<1>1. i \in running
  BY DEF Progress
<1>2. n \in 1 .. Len(files) /\ files[n].id = i
  BY <1>1 DEF IInv, Located, Tracked
<1>3. files \in Seq(File) /\ files[n] \in File
  BY <1>2 DEF IInv, Typed
<1>4. files[n].total \in Nat
  <2>1. files[n].total \in 1 .. MaxPages
    BY <1>3 DEF File
  <2> HIDE DEF n
  <2> QED
    BY <2>1, TuiAppAssumption
<1>5. pages \in SUBSET (1 .. files[n].total)
  BY <1>4
<1>6. /\ g \in File /\ g.id = files[n].id /\ g.done = files[n].done
      /\ g.residency \subseteq 1 .. g.total /\ g.resident = Cardinality(g.residency)
  <2>1. files[n].residency \subseteq 1 .. files[n].total
        /\ files[n].resident = Cardinality(files[n].residency)
    BY <1>2 DEF IInv, Counted
  <2> HIDE DEF pages
  <2> QED
    BY <2>1, <1>3, <1>5, WalkedIsCounted
<1>7. files' = [files EXCEPT ![n] = g] /\ UNCHANGED <<index, running, finished>>
  BY DEF Progress
<1> HIDE DEF g, n, pages
<1>8. /\ files' \in Seq(File) /\ Len(files') = Len(files)
      /\ files'[n] = g /\ \A m \in 1 .. Len(files) : m # n => files'[m] = files[m]
      /\ \A m \in 1 .. Len(files) : files'[m].id = files[m].id
      /\ \A m \in 1 .. Len(files') : /\ files'[m].residency \subseteq 1 .. files'[m].total
                                      /\ files'[m].resident = Cardinality(files'[m].residency)
  <2>1. \A list : list = [files EXCEPT ![n] = g] =>
          /\ list \in Seq(File) /\ Len(list) = Len(files)
          /\ list[n] = g /\ \A m \in 1 .. Len(files) : m # n => list[m] = files[m]
          /\ \A m \in 1 .. Len(files) : list[m].id = files[m].id
          /\ \A m \in 1 .. Len(list) : /\ list[m].residency \subseteq 1 .. list[m].total
                                        /\ list[m].resident = Cardinality(list[m].residency)
    BY <1>2, <1>6, ReplacedRow
  <2> QED
    BY <2>1, <1>7, ZenonT(30)
<1>9. Typed' /\ Located' /\ Counted'
  BY <1>7, <1>8 DEF IInv, Typed, Located, Counted
<1>10. \A m \in 1 .. Len(files) : files'[m].done = files[m].done
  BY <1>6, <1>8
<1>11. Tracked'
  BY <1>7, <1>10 DEF IInv, Located, Tracked
<1> QED
  BY <1>9, <1>11 DEF IInv

-----------------------------------------------------------------------------
\* The row of a running file is marked as done.
LEMMA Marked ==
  ASSUME IInv, NEW i \in running
  PROVE  LET n    == index[i]
             list == [files EXCEPT ![n].done = TRUE]
         IN  /\ n \in 1 .. Len(files) /\ files[n].id = i
             /\ list \in Seq(File) /\ Len(list) = Len(files)
             /\ \A m \in 1 .. Len(files) : m # n => list[m] = files[m]
             /\ list[n].done /\ list[n].total = files[n].total
             /\ \A m \in 1 .. Len(files) : list[m].id = files[m].id
             /\ \A m \in 1 .. Len(list) : /\ list[m].residency \subseteq 1 .. list[m].total
                                           /\ list[m].resident = Cardinality(list[m].residency)
             /\ [id |-> i, total |-> files[n].total] \in [id : Ids, total : 1 .. MaxPages]
<1> DEFINE n    == index[i]
           g    == [files[n] EXCEPT !.done = TRUE]
           list == [files EXCEPT ![n].done = TRUE]
<1>1. n \in 1 .. Len(files) /\ files[n].id = i
  BY DEF IInv, Located, Tracked
<1>2. files \in Seq(File) /\ files[n] \in File
  BY <1>1 DEF IInv, Typed
<1> HIDE DEF n
<1>3. /\ g \in File /\ g.id = files[n].id /\ g.done /\ g.total = files[n].total
      /\ g.residency = files[n].residency /\ g.resident = files[n].resident
      /\ [id |-> i, total |-> files[n].total] \in [id : Ids, total : 1 .. MaxPages]
  BY <1>1, <1>2 DEF File
<1>4. g.residency \subseteq 1 .. g.total /\ g.resident = Cardinality(g.residency)
  BY <1>1, <1>3 DEF IInv, Counted
<1>5. list = [files EXCEPT ![n] = g]
  OBVIOUS
<1> HIDE DEF g, list
<1>6. /\ list \in Seq(File) /\ Len(list) = Len(files)
      /\ list[n] = g /\ \A m \in 1 .. Len(files) : m # n => list[m] = files[m]
      /\ \A m \in 1 .. Len(files) : list[m].id = files[m].id
      /\ \A m \in 1 .. Len(list) : /\ list[m].residency \subseteq 1 .. list[m].total
                                    /\ list[m].resident = Cardinality(list[m].residency)
  <2>1. \A l : l = [files EXCEPT ![n] = g] =>
          /\ l \in Seq(File) /\ Len(l) = Len(files)
          /\ l[n] = g /\ \A m \in 1 .. Len(files) : m # n => l[m] = files[m]
          /\ \A m \in 1 .. Len(files) : l[m].id = files[m].id
          /\ \A m \in 1 .. Len(l) : /\ l[m].residency \subseteq 1 .. l[m].total
                                     /\ l[m].resident = Cardinality(l[m].residency)
    <3>1. n \in 1 .. Len(files) /\ g \in File /\ g.id = files[n].id
      BY <1>1, <1>3
    <3> QED
      BY <3>1, <1>4, ReplacedRow
  <2>2. /\ list \in Seq(File) /\ Len(list) = Len(files)
        /\ list[n] = g /\ \A m \in 1 .. Len(files) : m # n => list[m] = files[m]
    BY <2>1, <1>5
  <2>3. \A m \in 1 .. Len(files) : list[m].id = files[m].id
    BY <2>1, <1>5
  <2>4. \A m \in 1 .. Len(list) : /\ list[m].residency \subseteq 1 .. list[m].total
                                  /\ list[m].resident = Cardinality(list[m].residency)
    BY <2>1, <1>5
  <2> QED
    BY <2>2, <2>3, <2>4
<1> QED
  BY <1>1, <1>3, <1>6 DEF n, list

\* A file ends, and another that is done may leave the list.
LEMMA DoneIInv ==
  ASSUME IInv, NEW i \in Ids, Done(i)
  PROVE  IInv'
<1> DEFINE n    == index[i]
           list == [files EXCEPT ![n].done = TRUE]
           last == Len(files)
<1>1. /\ i \in running /\ Trim(list) /\ running' = running \ {i}
      /\ finished' = finished \cup {[id |-> i, total |-> files[n].total]}
  BY DEF Done
<1>2. /\ n \in 1 .. last /\ files[n].id = i
      /\ list \in Seq(File) /\ Len(list) = last
      /\ \A m \in 1 .. last : m # n => list[m] = files[m]
      /\ list[n].done
      /\ \A m \in 1 .. last : list[m].id = files[m].id
      /\ \A m \in 1 .. Len(list) : /\ list[m].residency \subseteq 1 .. list[m].total
                                    /\ list[m].resident = Cardinality(list[m].residency)
      /\ [id |-> i, total |-> files[n].total] \in [id : Ids, total : 1 .. MaxPages]
  BY <1>1, Marked
<1>3. last \in Nat /\ DOMAIN list = 1 .. last
  BY <1>2 DEF IInv, Typed
<1> HIDE DEF list, n, last
<1>4. \A j \in running' : j \in DOMAIN index /\ index[j] \in 1 .. last /\ ~list[index[j]].done
  BY <1>1, <1>2 DEF IInv, Located, Tracked, n, last
<1>5. /\ \A j \in DOMAIN index : j \in running' \/ \E f \in finished' : f.id = j
      /\ \A f \in finished' : f.id \notin running'
  <2> DEFINE new == [id |-> i, total |-> files[n].total]
  <2>1. new.id = i
    OBVIOUS
  <2>2. finished' = finished \cup {new}
    BY <1>1
  <2> HIDE DEF new
  <2> QED
    BY <2>1, <2>2, <1>1 DEF IInv, Tracked
<1>6. /\ running' \subseteq Ids
      /\ finished' \subseteq [id : Ids, total : 1 .. MaxPages]
  BY <1>1, <1>2 DEF IInv, Typed
<1>7. /\ \A j \in DOMAIN index : index[j] \in 1 .. last /\ list[index[j]].id = j
      /\ \A m \in 1 .. last : list[m].id \in DOMAIN index /\ index[list[m].id] = m
      /\ index \in [DOMAIN index -> Nat] /\ DOMAIN index \subseteq Ids
  BY <1>2 DEF IInv, Typed, Located, last
<1>8. CASE files' = list /\ index' = index
  <2>1. Typed' /\ Located' /\ Counted'
    BY <1>2, <1>6, <1>7, <1>8 DEF Typed, Located, Counted
  <2>2. Tracked'
    BY <1>4, <1>5, <1>8 DEF Tracked
  <2> QED
    BY <2>1, <2>2 DEF IInv
<1>9. CASE \E r \in DoneIn(list) :
             /\ files' = RemoveAt(list, r)
             /\ index' = [j \in {j \in DOMAIN index : index[j] # r} |->
                            IF index[j] > r THEN index[j] - 1 ELSE index[j]]
  <2>1. PICK r \in DoneIn(list) :
          /\ files' = RemoveAt(list, r)
          /\ index' = [j \in {j \in DOMAIN index : index[j] # r} |->
                         IF index[j] > r THEN index[j] - 1 ELSE index[j]]
    BY <1>9
  <2>2. r \in 1 .. last /\ list[r].done
    BY <1>3 DEF DoneIn
  <2>3. /\ files' \in Seq(File) /\ Len(files') = last - 1
        /\ \A m \in 1 .. last - 1 : files'[m] = IF m < r THEN list[m] ELSE list[m + 1]
    BY <1>2, <2>1, <2>2, Removed
  <2>4. /\ DOMAIN index' = {j \in DOMAIN index : index[j] # r}
        /\ \A j \in DOMAIN index' :
             index'[j] = IF index[j] > r THEN index[j] - 1 ELSE index[j]
    BY <2>1
  <2>5. \A j \in DOMAIN index' : /\ index'[j] \in 1 .. last - 1
                                 /\ files'[index'[j]] = list[index[j]]
    <3> TAKE j \in DOMAIN index'
    <3>1. index[j] \in 1 .. last /\ index[j] # r
      BY <1>7, <2>4
    <3>2. CASE index[j] > r
      <4>1. index'[j] = index[j] - 1 /\ index[j] - 1 \in 1 .. last - 1 /\ ~(index[j] - 1 < r)
        BY <1>3, <2>2, <2>4, <3>1, <3>2
      <4>2. (index[j] - 1) + 1 = index[j]
        BY <3>1
      <4> QED
        BY <2>3, <4>1, <4>2
    <3>3. CASE ~(index[j] > r)
      <4>1. index'[j] = index[j] /\ index[j] \in 1 .. last - 1 /\ index[j] < r
        BY <1>3, <2>2, <2>4, <3>1, <3>3
      <4> QED
        BY <2>3, <4>1
    <3> QED
      BY <3>2, <3>3
  <2>6. \A m \in 1 .. last - 1 : /\ files'[m].id \in DOMAIN index'
                                 /\ index'[files'[m].id] = m
    <3> TAKE m \in 1 .. last - 1
    <3>1. CASE m < r
      <4>1. files'[m] = list[m] /\ m \in 1 .. last /\ m # r
        BY <1>3, <2>2, <2>3, <3>1
      <4>2. list[m].id \in DOMAIN index /\ index[list[m].id] = m
        BY <1>7, <4>1
      <4>3. list[m].id \in DOMAIN index'
        BY <2>4, <4>1, <4>2
      <4> QED
        BY <1>3, <2>2, <2>4, <3>1, <4>1, <4>2, <4>3
    <3>2. CASE ~(m < r)
      <4>1. files'[m] = list[m + 1] /\ m + 1 \in 1 .. last /\ m + 1 # r /\ m + 1 > r
            /\ (m + 1) - 1 = m
        BY <1>3, <2>2, <2>3, <3>2
      <4>2. list[m + 1].id \in DOMAIN index /\ index[list[m + 1].id] = m + 1
        BY <1>7, <4>1
      <4>3. list[m + 1].id \in DOMAIN index'
        BY <2>4, <4>1, <4>2
      <4> QED
        BY <2>4, <4>1, <4>2, <4>3
    <3> QED
      BY <3>1, <3>2
  <2>7. Typed'
    <3>1. index' \in [DOMAIN index' -> Nat]
      <4>1. index' = [j \in DOMAIN index' |-> index'[j]]
        BY <2>1
      <4> QED
        BY <1>3, <2>5, <4>1
    <3>2. DOMAIN index' \subseteq Ids
      BY <1>7, <2>4
    <3> QED
      BY <1>6, <2>3, <3>1, <3>2 DEF Typed
  <2>8. Located'
    <3>1. \A j \in DOMAIN index' : files'[index'[j]].id = j
      BY <1>7, <2>4, <2>5
    <3> QED
      BY <2>3, <2>5, <2>6, <3>1 DEF Located
  <2>9. Tracked'
    <3>1. \A j \in running' : j \in DOMAIN index' /\ ~files'[index'[j]].done
      BY <1>4, <2>2, <2>4, <2>5
    <3>2. \A j \in DOMAIN index' : j \in running' \/ \E f \in finished' : f.id = j
      BY <1>5, <2>4
    <3> QED
      BY <1>5, <3>1, <3>2 DEF Tracked
  <2>10. Counted'
    <3> SUFFICES ASSUME NEW m \in 1 .. last - 1
                 PROVE  /\ files'[m].residency \subseteq 1 .. files'[m].total
                        /\ files'[m].resident = Cardinality(files'[m].residency)
      BY <2>3 DEF Counted
    <3>1. \E k \in 1 .. Len(list) : files'[m] = list[k]
      BY <1>2, <1>3, <2>2, <2>3
    <3> QED
      BY <1>2, <3>1
  <2> QED
    BY <2>7, <2>8, <2>9, <2>10 DEF IInv
<1> QED
  BY <1>1, <1>8, <1>9 DEF Trim

-----------------------------------------------------------------------------
\* No step leads out of the invariant.
LEMMA NextIInv == IInv /\ [Next]_vars => IInv'
<1> SUFFICES ASSUME IInv, [Next]_vars
             PROVE  IInv'
  OBVIOUS
<1>1. CASE UNCHANGED vars
  BY <1>1 DEF vars, IInv, Typed, Located, Tracked, Counted
<1>2. CASE Next
  <2>1. ASSUME NEW i \in Ids, NEW total \in 1 .. MaxPages, NEW residency \in SUBSET (1 .. total),
               Start(i, total, residency)
        PROVE  IInv'
    BY <2>1, StartIInv
  <2>2. ASSUME NEW i \in Ids, NEW offset \in 0 .. MaxPages - 1, NEW count \in 1 .. MaxPages,
               NEW resident \in BOOLEAN, Progress(i, offset, count, resident)
        PROVE  IInv'
    <3>1. offset \in Nat /\ count \in Nat
      BY TuiAppAssumption
    <3> QED
      BY <2>2, <3>1, ProgressIInv
  <2>3. ASSUME NEW i \in Ids, Done(i)
        PROVE  IInv'
    BY <2>3, DoneIInv
  <2> QED
    BY <1>2, <2>1, <2>2, <2>3 DEF Next
<1> QED
  BY <1>1, <1>2

\* The strengthening is an invariant of TuiApp: the list, the places in it and
\* the counts of its rows agree after every event.
THEOREM Invariant == Spec => []IInv
<1> QED
  BY InitIInv, NextIInv, PTL DEF Spec

\* Every row is a row and no count of resident pages leaves 0 .. MaxPages: the
\* subtraction of set_pages_resident cannot run below zero.
THEOREM TypeCorrect == Spec => []TypeOK
<1>1. IInv => TypeOK
  BY DEF IInv, Typed, TypeOK
<1> QED
  BY <1>1, Invariant, PTL

\* Whatever is trimmed from the middle of the list, file_index leads every
\* event to the row of its own file, and every row is found by it.
THEOREM IndexCorrect == Spec => []IndexIsSound
<1>1. IInv => IndexIsSound
  BY DEF IInv, Typed, Located, IndexIsSound
<1> QED
  BY <1>1, Invariant, PTL

\* The count of resident pages kept beside each map is the map's, after any
\* sequence of progress events, those that reach past the end of the file and
\* those that set what is set already among them.
THEOREM CountsCorrect == Spec => []CountsAgree
<1>1. IInv => CountsAgree
  BY DEF IInv, Typed, Counted, CountsAgree
<1> QED
  BY <1>1, Invariant, PTL

-----------------------------------------------------------------------------
\* What is kept.  The rows of the files that are done, as finished has them ...
Entry(row)    == [id |-> row.id, total |-> row.total]
Entries(list) == {Entry(list[n]) : n \in DoneIn(list)}

\* ... are the largest that finished, as many as there is room for; and a row that
\* is not done is that of a running file.
Ranked ==
  /\ IsFiniteSet(finished)
  /\ \A f, g \in finished : f.id = g.id => f = g
  /\ \A n \in 1 .. Len(files) : ~files[n].done => files[n].id \in running
  /\ Entries(files) \subseteq finished
  /\ Cardinality(Entries(files)) = IF Cardinality(finished) < MaxDisplay
                                   THEN Cardinality(finished) ELSE MaxDisplay
  /\ \A f \in Entries(files), g \in finished \ Entries(files) : Smaller(g, f)

(* Rows of different files that are done are as many as their entries. *)
LEMMA EntriesCounted ==
  ASSUME NEW list \in Seq(File),
         \A m, n \in 1 .. Len(list) : list[m].id = list[n].id => m = n
  PROVE  /\ IsFiniteSet(DoneIn(list)) /\ IsFiniteSet(Entries(list))
         /\ Cardinality(Entries(list)) = Cardinality(DoneIn(list))
         /\ Cardinality(DoneIn(list)) \in Nat
<1> DEFINE S == DoneIn(list)
           T == Entries(list)
           f == [n \in S |-> Entry(list[n])]
<1>1. Len(list) \in Nat /\ S \subseteq 1 .. Len(list)
  BY DEF DoneIn
<1>2. IsFiniteSet(S)
  <2>1. IsFiniteSet(1 .. Len(list))
    BY <1>1, FS_Interval
  <2> QED
    BY <1>1, <2>1, FS_Subset
<1>3. \A n \in S : Entry(list[n]).id = list[n].id
  BY DEF Entry
<1>4. T = {Entry(list[n]) : n \in S}
  BY DEF Entries
<1> HIDE DEF S, T
<1>5. f \in [S -> T] /\ \A t \in T : \E n \in S : f[n] = t
  BY <1>4
<1>6. \A m, n \in S : f[m] = f[n] => m = n
  <2> SUFFICES ASSUME NEW m \in S, NEW n \in S, Entry(list[m]) = Entry(list[n])
               PROVE  m = n
    OBVIOUS
  <2>1. list[m].id = list[n].id
    BY <1>3
  <2> QED
    BY <2>1, <1>1
<1> HIDE DEF f
<1>7. f \in Bijection(S, T)
  BY <1>5, <1>6 DEF Bijection, Injection, Surjection, IsInjective
<1>8. ExistsBijection(S, T)
  BY <1>7 DEF ExistsBijection
<1> QED
  BY <1>2, <1>8, FS_Bijection, FS_CardinalityType DEF S, T

\* The comparison is one of entries, and can be chained.
LEMMA SmallerOrders ==
  /\ \A f, g : Smaller(Entry(f), Entry(g)) <=> Smaller(f, g)
  /\ \A f, g, h \in [id : Ids, total : 1 .. MaxPages] :
       Smaller(f, g) /\ Smaller(g, h) => Smaller(f, h)
<1>1. \A f : Entry(f).id = f.id /\ Entry(f).total = f.total
  BY DEF Entry
<1>2. \A f, g : Smaller(Entry(f), Entry(g)) <=> Smaller(f, g)
  BY <1>1 DEF Smaller
<1>3. \A f \in [id : Ids, total : 1 .. MaxPages] : f.id \in Nat /\ f.total \in Nat
  <2>1. Ids \subseteq Nat /\ 1 .. MaxPages \subseteq Nat
    BY TuiAppAssumption
  <2> QED
    BY <2>1
<1>4. ASSUME NEW f \in [id : Ids, total : 1 .. MaxPages],
             NEW g \in [id : Ids, total : 1 .. MaxPages],
             NEW h \in [id : Ids, total : 1 .. MaxPages],
             Smaller(f, g), Smaller(g, h)
      PROVE  Smaller(f, h)
  <2>1. /\ f.id \in Nat /\ f.total \in Nat /\ g.id \in Nat /\ g.total \in Nat
        /\ h.id \in Nat /\ h.total \in Nat
    BY <1>3
  <2> QED
    BY <1>4, <2>1 DEF Smaller
<1> QED
  BY <1>2, <1>4

\* The ranking of the done files holds of the empty list.
LEMMA InitRanked == Init => Ranked
<1> SUFFICES ASSUME Init
             PROVE  Ranked
  OBVIOUS
<1>1. files = <<>> /\ finished = {} /\ Len(files) = 0 /\ DOMAIN files = {}
  BY DEF Init
<1>2. Entries(files) = {}
  BY <1>1 DEF Entries, DoneIn
<1>3. MaxDisplay \in Nat \ {0} /\ Cardinality({}) = 0 /\ IsFiniteSet({})
  BY TuiAppAssumption, FS_EmptySet
<1> QED
  BY <1>1, <1>2, <1>3 DEF Ranked

\* A file that begins is not among the done ones.
LEMMA StartRanked ==
  ASSUME IInv, Ranked, NEW i \in Ids, NEW total \in 1 .. MaxPages, NEW residency,
         Start(i, total, residency)
  PROVE  Ranked'
<1> DEFINE row == [id |-> i, total |-> total, residency |-> residency,
                   resident |-> Cardinality(residency), done |-> FALSE]
           k   == Len(files) + 1
<1>1. files' = Append(files, row) /\ running' = running \cup {i} /\ finished' = finished
  BY DEF Start
<1>2. row.id = i /\ row.done = FALSE
  OBVIOUS
<1> HIDE DEF row
<1>3. Len(files) \in Nat /\ files \in Seq(File)
  BY DEF IInv, Typed
<1>4. /\ Len(files') = k /\ files'[k] = row
      /\ \A n \in 1 .. Len(files) : files'[n] = files[n]
      /\ DOMAIN files' = 1 .. k /\ DOMAIN files = 1 .. Len(files)
  <2> DEFINE all == Seq(File \cup {row})
  <2>1. files \in all /\ row \in File \cup {row}
    BY <1>3
  <2> QED
    BY <1>1, <1>3, <2>1
<1>5. DoneIn(files') = DoneIn(files)
  BY <1>2, <1>3, <1>4 DEF DoneIn
<1>6. \A n \in DoneIn(files) : files'[n] = files[n]
  BY <1>4 DEF DoneIn
<1>7. Entries(files') = Entries(files)
  BY <1>5, <1>6 DEF Entries
<1>8. \A n \in 1 .. Len(files') : ~files'[n].done => files'[n].id \in running'
  BY <1>1, <1>2, <1>3, <1>4 DEF Ranked
<1> QED
  BY <1>1, <1>7, <1>8 DEF Ranked

\* Progress moves no file.
LEMMA ProgressRanked ==
  ASSUME IInv, Ranked, NEW i \in Ids, NEW offset, NEW count, NEW resident,
         Progress(i, offset, count, resident)
  PROVE  Ranked'
<1> DEFINE end   == IF offset + count > files[index[i]].total THEN files[index[i]].total
                    ELSE offset + count
           g     == Walked(files[index[i]], (offset + 1) .. end, resident)
<1>1. files' = [files EXCEPT ![index[i]] = g] /\ running' = running /\ finished' = finished
  BY DEF Progress
<1>2. index[i] \in 1 .. Len(files) /\ files \in Seq(File) /\ files[index[i]] \in File
  BY DEF Progress, IInv, Typed, Located, Tracked
<1>3. g.id = files[index[i]].id /\ g.total = files[index[i]].total /\ g.done = files[index[i]].done
  BY <1>2 DEF Walked, File
<1> HIDE DEF g
<1>4. /\ DOMAIN files' = 1 .. Len(files) /\ DOMAIN files = 1 .. Len(files)
      /\ Len(files') = Len(files)
      /\ \A n \in 1 .. Len(files) : files'[n].id = files[n].id /\ files'[n].total = files[n].total
                                    /\ files'[n].done = files[n].done
  BY <1>1, <1>2, <1>3
<1>5. DoneIn(files') = DoneIn(files) /\ DoneIn(files) \subseteq 1 .. Len(files)
  BY <1>4 DEF DoneIn
<1>6. \A n \in DoneIn(files) : Entry(files'[n]) = Entry(files[n])
  BY <1>4, <1>5 DEF Entry
<1>7. Entries(files') = Entries(files)
  BY <1>5, <1>6 DEF Entries
<1> QED
  BY <1>1, <1>4, <1>7 DEF Ranked

\* A file that is done is among the kept ones if there is room or it is not the
\* smallest, and then the smallest makes room.
LEMMA DoneRanked ==
  ASSUME IInv, Ranked, NEW i \in Ids, Done(i)
  PROVE  Ranked'
<1> DEFINE n     == index[i]
           list  == [files EXCEPT ![n].done = TRUE]
           last  == Len(files)
           new   == [id |-> i, total |-> files[n].total]
           kept  == Entries(files)
           S     == [id : Ids, total : 1 .. MaxPages]
<1>1. /\ i \in running /\ Trim(list) /\ running' = running \ {i}
      /\ finished' = finished \cup {new}
  BY DEF Done
<1>2. /\ n \in 1 .. last /\ files[n].id = i
      /\ list \in Seq(File) /\ Len(list) = last
      /\ \A m \in 1 .. last : m # n => list[m] = files[m]
      /\ list[n].done /\ list[n].total = files[n].total
      /\ \A m \in 1 .. last : list[m].id = files[m].id
      /\ new \in S /\ new.id = i
  BY <1>1, Marked
<1>3. Entry(list[n]) = new
  BY <1>2 DEF Entry
<1>4. /\ files \in Seq(File) /\ last \in Nat
      /\ DOMAIN list = 1 .. last /\ DOMAIN files = 1 .. last
      /\ \A j, k \in 1 .. last : files[j].id = files[k].id => j = k
      /\ finished \subseteq S
      /\ ~files[n].done
  BY <1>1, <1>2 DEF IInv, Typed, Located, Tracked
<1>5. \A j, k \in 1 .. last : list[j].id = list[k].id => j = k
  BY <1>2, <1>4
<1> HIDE DEF list, n, last, new, kept, S
<1>6. DoneIn(list) = DoneIn(files) \cup {n} /\ n \notin DoneIn(files)
  BY <1>2, <1>4 DEF DoneIn
<1>7. Entries(list) = kept \cup {new}
  <2>1. \A m \in DoneIn(files) : list[m] = files[m]
    BY <1>2, <1>4, <1>6 DEF DoneIn
  <2> QED
    BY <1>3, <1>6, <2>1 DEF Entries, kept
<1>8. /\ IsFiniteSet(finished) /\ kept \subseteq finished
      /\ Cardinality(kept) = IF Cardinality(finished) < MaxDisplay
                             THEN Cardinality(finished) ELSE MaxDisplay
      /\ \A f \in kept, g \in finished \ kept : Smaller(g, f)
  BY DEF Ranked, kept
<1>9. new \notin finished /\ \A f \in finished : f.id # i
  BY <1>1, <1>2 DEF IInv, Tracked
<1>10. /\ IsFiniteSet(kept) /\ Cardinality(kept) \in Nat
       /\ Cardinality(finished) \in Nat /\ MaxDisplay \in Nat \ {0}
  <2>1. IsFiniteSet(kept)
    BY <1>8, FS_Subset
  <2> QED
    BY <1>8, <2>1, FS_CardinalityType, TuiAppAssumption
<1>11. /\ Cardinality(Entries(list)) = Cardinality(kept) + 1
       /\ IsFiniteSet(Entries(list))
       /\ Cardinality(DoneIn(list)) = Cardinality(kept) + 1
  <2>1. new \notin kept
    BY <1>8, <1>9
  <2>2. IsFiniteSet(kept \cup {new}) /\ Cardinality(kept \cup {new}) = Cardinality(kept) + 1
    BY <1>10, <2>1, FS_AddElement
  <2>3. Cardinality(Entries(list)) = Cardinality(DoneIn(list))
    BY <1>2, <1>5, EntriesCounted
  <2> QED
    BY <1>7, <2>2, <2>3
<1>12. /\ IsFiniteSet(finished') /\ Cardinality(finished') = Cardinality(finished) + 1
       /\ \A f, g \in finished' : f.id = g.id => f = g
  <2>1. IsFiniteSet(finished') /\ Cardinality(finished') = Cardinality(finished) + 1
    BY <1>1, <1>8, <1>9, FS_AddElement
  <2>2. \A f, g \in finished : f.id = g.id => f = g
    BY DEF Ranked
  <2> QED
    BY <1>1, <1>2, <1>9, <2>1, <2>2
<1>13. \A m \in 1 .. last : ~list[m].done => list[m].id \in running'
  <2> SUFFICES ASSUME NEW m \in 1 .. last, ~list[m].done
               PROVE  list[m].id \in running'
    OBVIOUS
  <2>1. m # n
    BY <1>2
  <2>2. list[m] = files[m] /\ files[m].id # i
    BY <1>2, <1>4, <2>1
  <2>3. files[m].id \in running
    BY <2>2 DEF Ranked, last
  <2> QED
    BY <1>1, <2>2, <2>3
<1>14. CASE Cardinality(DoneIn(list)) <= MaxDisplay
  <2>1. files' = list
    BY <1>1, <1>14 DEF Trim
  <2>2. Cardinality(kept) = Cardinality(finished)
    BY <1>8, <1>10, <1>11, <1>14
  <2>3. kept = finished
    BY <1>8, <2>2, FS_Subset
  <2>4. Entries(files') = finished'
    BY <1>1, <1>7, <2>1, <2>3
  <2>5. Cardinality(Entries(files')) = IF Cardinality(finished') < MaxDisplay
                                       THEN Cardinality(finished') ELSE MaxDisplay
    <3>1. Cardinality(finished') <= MaxDisplay
      BY <1>10, <1>11, <1>12, <1>14, <2>2
    <3> QED
      BY <1>10, <1>12, <2>4, <3>1
  <2> QED
    BY <1>2, <1>12, <1>13, <2>1, <2>4, <2>5 DEF Ranked
<1>15. CASE ~(Cardinality(DoneIn(list)) <= MaxDisplay)
  <2>1. PICK r \in DoneIn(list) : IsSmallest(list, r) /\ files' = RemoveAt(list, r)
    BY <1>1, <1>15 DEF Trim
  <2> DEFINE d == Entry(list[r])
  <2>2. r \in 1 .. last /\ list[r].done /\ d \in Entries(list)
    BY <1>4 DEF DoneIn, Entries
  <2>3. /\ Len(files') = last - 1 /\ files' \in Seq(File)
        /\ \A m \in 1 .. last - 1 : files'[m] = IF m < r THEN list[m] ELSE list[m + 1]
    BY <1>2, <2>1, <2>2, Removed
  <2>4. /\ \A m \in 1 .. last - 1 : \E k \in 1 .. last : k # r /\ files'[m] = list[k]
        /\ \A k \in 1 .. last : k # r => \E m \in 1 .. last - 1 : files'[m] = list[k]
    <3>1. ASSUME NEW m \in 1 .. last - 1
          PROVE  \E k \in 1 .. last : k # r /\ files'[m] = list[k]
      <4>1. CASE m < r
        BY <1>4, <2>2, <2>3, <4>1
      <4>2. CASE ~(m < r)
        <5>1. m + 1 \in 1 .. last /\ m + 1 # r
          BY <1>4, <2>2, <4>2
        <5> QED
          BY <2>3, <4>2, <5>1
      <4> QED
        BY <4>1, <4>2
    <3>2. ASSUME NEW k \in 1 .. last, k # r
          PROVE  \E m \in 1 .. last - 1 : files'[m] = list[k]
      <4>1. CASE k < r
        <5>1. k \in 1 .. last - 1
          BY <1>4, <2>2, <4>1
        <5> QED
          BY <2>3, <4>1, <5>1
      <4>2. CASE ~(k < r)
        <5>1. k - 1 \in 1 .. last - 1 /\ ~(k - 1 < r) /\ (k - 1) + 1 = k
          BY <1>4, <2>2, <3>2, <4>2
        <5> QED
          BY <2>3, <5>1
      <4> QED
        BY <4>1, <4>2
    <3> QED
      BY <3>1, <3>2
  <2>5. DOMAIN files' = 1 .. last - 1
    BY <2>3
  <2>6. \A m \in DoneIn(list) \ {r} : Entry(list[m]) # d
    <3>1. \A f : Entry(f).id = f.id
      BY DEF Entry
    <3> QED
      BY <1>4, <1>5, <2>2, <3>1 DEF DoneIn
  <2>7. Entries(files') = Entries(list) \ {d}
    <3>1. ASSUME NEW m \in DoneIn(files')
          PROVE  \E k \in DoneIn(list) \ {r} : Entry(files'[m]) = Entry(list[k])
      <4>1. m \in 1 .. last - 1 /\ files'[m].done
        BY <2>5 DEF DoneIn
      <4>2. PICK k \in 1 .. last : k # r /\ files'[m] = list[k]
        BY <2>4, <4>1
      <4>3. k \in DoneIn(list) \ {r}
        BY <1>4, <4>1, <4>2 DEF DoneIn
      <4> QED
        BY <4>2, <4>3
    <3>2. ASSUME NEW k \in DoneIn(list) \ {r}
          PROVE  \E m \in DoneIn(files') : Entry(files'[m]) = Entry(list[k])
      <4>1. k \in 1 .. last /\ list[k].done /\ k # r
        BY <1>4 DEF DoneIn
      <4>2. PICK m \in 1 .. last - 1 : files'[m] = list[k]
        BY <2>4, <4>1
      <4>3. m \in DoneIn(files')
        BY <2>5, <4>1, <4>2 DEF DoneIn
      <4> QED
        BY <4>2, <4>3
    <3> HIDE DEF d
    <3>3. \A m \in DoneIn(list) : m = r => Entry(list[m]) = d
      BY DEF d
    <3> QED
      BY <2>6, <3>1, <3>2, <3>3 DEF Entries
  <2>8. \A f \in Entries(list) \ {d} : Smaller(d, f)
    <3> SUFFICES ASSUME NEW m \in DoneIn(list), Entry(list[m]) # d
                 PROVE  Smaller(d, Entry(list[m]))
      BY DEF Entries
    <3>1. m \in DoneIn(list) \ {r}
      OBVIOUS
    <3>2. Smaller(list[r], list[m])
      BY <2>1, <3>1 DEF IsSmallest
    <3> QED
      BY <3>2, SmallerOrders
  <2> HIDE DEF d
  <2>9. /\ Cardinality(kept) = MaxDisplay /\ ~(Cardinality(finished) < MaxDisplay)
    BY <1>8, <1>10, <1>11, <1>15
  <2>10. Cardinality(Entries(files')) = MaxDisplay
    <3>1. Cardinality(Entries(list) \ {d}) = Cardinality(Entries(list)) - 1
      BY <1>11, <2>2, FS_RemoveElement
    <3> QED
      BY <1>10, <1>11, <2>7, <2>9, <3>1
  <2>11. Entries(files') \subseteq finished'
    BY <1>1, <1>7, <1>8, <2>7
  <2>12. \A f \in Entries(files'), g \in finished' \ Entries(files') : Smaller(g, f)
    <3> SUFFICES ASSUME NEW f \in Entries(files'), NEW g \in finished' \ Entries(files')
                 PROVE  Smaller(g, f)
      OBVIOUS
    <3>1. f \in Entries(list) /\ f # d /\ Smaller(d, f)
      BY <2>7, <2>8
    <3>2. f \in S /\ g \in S /\ d \in S
      BY <1>1, <1>2, <1>4, <1>7, <1>8, <2>2, <3>1
    <3>3. CASE g = d
      BY <3>1, <3>3
    <3>4. CASE g # d
      <4>1. g \in finished /\ g \notin kept
        BY <1>1, <1>7, <2>7, <3>4
      <4>2. CASE f \in kept
        BY <1>8, <4>1, <4>2
      <4>3. CASE f \notin kept
        <5>1. d \in kept
          BY <1>7, <2>2, <3>1, <4>3
        <5>2. Smaller(g, d)
          BY <1>8, <4>1, <5>1
        <5> QED
          BY <3>1, <3>2, <5>2, SmallerOrders DEF S
      <4> QED
        BY <4>2, <4>3
    <3> QED
      BY <3>3, <3>4
  <2>13. Cardinality(Entries(files')) = IF Cardinality(finished') < MaxDisplay
                                        THEN Cardinality(finished') ELSE MaxDisplay
    BY <1>10, <1>12, <2>9, <2>10
  <2>14. \A m \in 1 .. Len(files') : ~files'[m].done => files'[m].id \in running'
    BY <1>13, <2>3, <2>4
  <2> QED
    BY <1>12, <2>11, <2>12, <2>13, <2>14 DEF Ranked
<1> QED
  BY <1>14, <1>15

\* Every event keeps the ranking.
LEMMA NextRanked == IInv /\ Ranked /\ [Next]_vars => Ranked'
<1> SUFFICES ASSUME IInv, Ranked, [Next]_vars
             PROVE  Ranked'
  OBVIOUS
<1>1. CASE UNCHANGED vars
  BY <1>1 DEF vars, Ranked, Entries, DoneIn
<1>2. CASE Next
  <2>1. ASSUME NEW i \in Ids, NEW total \in 1 .. MaxPages, NEW residency \in SUBSET (1 .. total),
               Start(i, total, residency)
        PROVE  Ranked'
    BY <2>1, StartRanked
  <2>2. ASSUME NEW i \in Ids, NEW offset \in 0 .. MaxPages - 1, NEW count \in 1 .. MaxPages,
               NEW resident \in BOOLEAN, Progress(i, offset, count, resident)
        PROVE  Ranked'
    BY <2>2, ProgressRanked
  <2>3. ASSUME NEW i \in Ids, Done(i)
        PROVE  Ranked'
    BY <2>3, DoneRanked
  <2> QED
    BY <1>2, <2>1, <2>2, <2>3 DEF Next
<1> QED
  BY <1>1, <1>2

\* What the ranking says of the list.
LEMMA RankedIsRight == IInv /\ Ranked => RightFilesAreKept
<1> SUFFICES ASSUME IInv, Ranked
             PROVE  RightFilesAreKept
  OBVIOUS
<1> DEFINE kept == {f \in finished : \E n \in DoneFiles : files[n].id = f.id}
<1>1. files \in Seq(File) /\ DOMAIN files = 1 .. Len(files) /\ DoneFiles \subseteq 1 .. Len(files)
  BY DEF IInv, Typed, DoneFiles, DoneIn
<1>2. \A j, k \in 1 .. Len(files) : files[j].id = files[k].id => j = k
  BY DEF IInv, Located
<1>3. kept = Entries(files)
  <2>1. \A n \in DoneFiles : Entry(files[n]) \in finished /\ Entry(files[n]).id = files[n].id
    BY DEF Ranked, Entries, Entry, DoneFiles
  <2>2. Entries(files) \subseteq kept
    BY <2>1 DEF Entries, DoneFiles
  <2>3. ASSUME NEW f \in finished, NEW n \in DoneFiles, files[n].id = f.id
        PROVE  f = Entry(files[n])
    BY <2>1, <2>3 DEF Ranked
  <2> QED
    BY <2>2, <2>3 DEF Entries, DoneFiles
<1>4. running = {files[n].id : n \in DOMAIN files \ DoneFiles}
  <2>1. \A n \in DOMAIN files \ DoneFiles : files[n].id \in running
    BY <1>1 DEF Ranked, DoneFiles, DoneIn
  <2>2. ASSUME NEW j \in running
        PROVE  \E n \in DOMAIN files \ DoneFiles : files[n].id = j
    <3>1. index[j] \in 1 .. Len(files) /\ files[index[j]].id = j /\ ~files[index[j]].done
      BY DEF IInv, Located, Tracked
    <3> QED
      BY <1>1, <3>1 DEF DoneFiles, DoneIn
  <2> QED
    BY <2>1, <2>2
<1>5. Cardinality(DoneFiles) = Cardinality(kept)
  BY <1>1, <1>2, <1>3, EntriesCounted DEF DoneFiles
<1>6. /\ Cardinality(kept) = IF Cardinality(finished) < MaxDisplay THEN Cardinality(finished)
                             ELSE MaxDisplay
      /\ \A f \in kept, g \in finished \ kept : Smaller(g, f)
  BY <1>3 DEF Ranked
<1> QED
  BY <1>4, <1>5, <1>6 DEF RightFilesAreKept

\* Trimming one file at a time, as each is done, keeps at every moment what one
\* sort of all the finished files would: the largest MaxDisplay of them, and no
\* running file is lost or shown as done.
THEOREM KeepsTheLargest == Spec => []RightFilesAreKept
<1>1. Init => IInv /\ Ranked
  BY InitIInv, InitRanked
<1>2. (IInv /\ Ranked) /\ [Next]_vars => (IInv /\ Ranked)'
  BY NextIInv, NextRanked
<1>3. IInv /\ Ranked => RightFilesAreKept
  BY RankedIsRight
<1> QED
  BY <1>1, <1>2, <1>3, PTL DEF Spec

-----------------------------------------------------------------------------
(* Every set of numbers has a least element: what induction there is below *)
(* rests on this.                                                          *)
LEMMA LeastNumber ==
  ASSUME NEW S \in SUBSET Nat, S # {}
  PROVE  \E n \in S : \A m \in S : n <= m
<1> DEFINE R == OpToRel(<, Nat)
<1>1. IsWellFoundedOn(R, Nat)
  BY NatLessThanWellFounded
<1>2. \A m, n \in Nat : m < n => <<m, n>> \in R
  BY DEF OpToRel
<1> HIDE DEF R
<1>3. PICK n \in S : \A m \in S : ~ (<<m, n>> \in R)
  BY <1>1, WFMin
<1>4. \A m \in S : m \in Nat /\ n \in Nat /\ ~ (m < n)
  BY <1>2, <1>3
<1>5. \A m \in S : n <= m
  BY <1>4
<1> QED
  BY <1>5

(***************************************************************************)
(* The elements of a finite set, in the order of a relation that is total  *)
(* on it: the k-th is the one with k - 1 before it.                        *)
(***************************************************************************)
Before(L, S, i) == Cardinality({j \in S : <<j, i>> \in L})

IsOrderOn(L, S) ==
  /\ \A i \in S : <<i, i>> \notin L
  /\ \A i, j, k \in S : <<i, j>> \in L /\ <<j, k>> \in L => <<i, k>> \in L
  /\ \A i, j \in S : i = j \/ <<i, j>> \in L \/ <<j, i>> \in L

(* What comes before a later element is more, ... *)
LEMMA BeforeGrows ==
  ASSUME NEW S, IsFiniteSet(S), NEW L, IsOrderOn(L, S),
         NEW i \in S, NEW k \in S, <<i, k>> \in L
  PROVE  Before(L, S, i) < Before(L, S, k)
<1> DEFINE below == {j \in S : <<j, i>> \in L}
           upto  == {j \in S : <<j, k>> \in L}
<1>1. IsFiniteSet(below) /\ IsFiniteSet(upto)
  BY FS_Subset
<1>2. i \notin below /\ below \cup {i} \in SUBSET upto
  BY DEF IsOrderOn
<1> HIDE DEF below, upto
<1>3. IsFiniteSet(below \cup {i}) /\ Cardinality(below \cup {i}) = Cardinality(below) + 1
  BY <1>1, <1>2, FS_AddElement
<1>4. Cardinality(below) + 1 <= Cardinality(upto)
  BY <1>1, <1>2, <1>3, FS_Subset
<1>5. Cardinality(below) \in Nat /\ Cardinality(upto) \in Nat
  BY <1>1, FS_CardinalityType
<1>6. Cardinality(below) < Cardinality(upto)
  BY <1>4, <1>5
<1> QED
  BY <1>6 DEF Before, below, upto

(* ... and less than all, ... *)
LEMMA BeforeIsPlace ==
  ASSUME NEW S, IsFiniteSet(S), NEW L, IsOrderOn(L, S), NEW i \in S
  PROVE  Before(L, S, i) \in 0 .. Cardinality(S) - 1
<1> DEFINE below == {j \in S : <<j, i>> \in L}
<1>1. IsFiniteSet(S \ {i}) /\ Cardinality(S \ {i}) = Cardinality(S) - 1
  BY FS_RemoveElement
<1>2. below \in SUBSET (S \ {i})
  BY DEF IsOrderOn
<1> HIDE DEF below
<1>3. IsFiniteSet(below) /\ Cardinality(below) <= Cardinality(S) - 1
  BY <1>1, <1>2, FS_Subset
<1>4. Cardinality(below) \in Nat /\ Cardinality(S) \in Nat
  BY <1>3, FS_CardinalityType
<1>5. Cardinality(below) \in 0 .. Cardinality(S) - 1
  BY <1>3, <1>4
<1> QED
  BY <1>5 DEF Before, below

(* ... so that each number of them is that of exactly one element: n       *)
(* pigeons cannot do with n - 1 holes.                                     *)
LEMMA PlaceIsTaken ==
  ASSUME NEW S, IsFiniteSet(S), NEW L, IsOrderOn(L, S), NEW r \in 0 .. Cardinality(S) - 1
  PROVE  \E i \in S : Before(L, S, i) = r
<1> SUFFICES ASSUME \A i \in S : Before(L, S, i) # r PROVE FALSE
  OBVIOUS
<1> DEFINE Places == 0 .. Cardinality(S) - 1
           f      == [i \in S |-> Before(L, S, i)]
<1>1. Cardinality(S) \in Nat
  BY FS_CardinalityType
<1>2. IsFiniteSet(Places) /\ Cardinality(Places) = Cardinality(S)
  <2>1. 0 \in Int /\ Cardinality(S) - 1 \in Int
    BY <1>1
  <2>2. /\ IsFiniteSet(Places)
        /\ Cardinality(Places) =
             IF 0 > Cardinality(S) - 1 THEN 0 ELSE Cardinality(S) - 1 - 0 + 1
    BY <2>1, FS_Interval
  <2> QED
    BY <1>1, <2>2
<1>3. IsFiniteSet(Places \ {r}) /\ Cardinality(Places \ {r}) = Cardinality(S) - 1
  BY <1>2, FS_RemoveElement
<1>4. f \in [S -> Places \ {r}]
  BY BeforeIsPlace
<1>5. Cardinality(Places \ {r}) < Cardinality(S)
  BY <1>1, <1>3
<1> HIDE DEF f
<1>6. PICK i, k \in S : i # k /\ f[i] = f[k]
  BY <1>3, <1>4, <1>5, FS_PigeonHole
<1>7. Before(L, S, i) = Before(L, S, k) /\ Before(L, S, i) \in Int
  BY <1>6, BeforeIsPlace DEF f
<1>8. <<i, k>> \in L \/ <<k, i>> \in L
  BY <1>6 DEF IsOrderOn
<1>9. Before(L, S, i) < Before(L, S, k) \/ Before(L, S, k) < Before(L, S, i)
  BY <1>8, BeforeGrows
<1> QED
  BY <1>7, <1>9

\* Choosing each element by its place enumerates the set in its order.
LEMMA Enumerated ==
  ASSUME NEW S, IsFiniteSet(S), NEW L, IsOrderOn(L, S),
         NEW nth, nth = [k \in 1 .. Cardinality(S) |-> nth[k]],
         \A k \in 1 .. Cardinality(S) : nth[k] = CHOOSE i \in S : Before(L, S, i) = k - 1
  PROVE  /\ Cardinality(S) \in Nat /\ nth \in [1 .. Cardinality(S) -> S]
         /\ \A i \in S : \E k \in 1 .. Cardinality(S) : nth[k] = i
         /\ \A k, l \in 1 .. Cardinality(S) : k < l <=> <<nth[k], nth[l]>> \in L
<1> DEFINE D == 1 .. Cardinality(S)
<1>1. Cardinality(S) \in Nat
  BY FS_CardinalityType
<1>2. ASSUME NEW k \in D PROVE nth[k] \in S /\ Before(L, S, nth[k]) = k - 1
  <2>1. k - 1 \in 0 .. Cardinality(S) - 1
    BY <1>1
  <2>2. \E i \in S : Before(L, S, i) = k - 1
    BY <2>1, PlaceIsTaken
  <2> QED
    BY <2>2
<1>3. nth \in [D -> S]
  <2> HIDE DEF D
  <2> QED
    BY <1>2 DEF D
<1>4. ASSUME NEW i \in S, NEW j \in S PROVE <<i, j>> \in L <=> Before(L, S, i) < Before(L, S, j)
  <2>1. Before(L, S, i) \in Nat /\ Before(L, S, j) \in Nat
    BY <1>1, BeforeIsPlace
  <2>2. CASE i = j
    BY <2>1, <2>2 DEF IsOrderOn
  <2>3. CASE <<j, i>> \in L
    <3>1. Before(L, S, j) < Before(L, S, i)
      BY <2>3, BeforeGrows
    <3>2. <<i, j>> \notin L
      BY <2>3 DEF IsOrderOn
    <3> QED
      BY <2>1, <3>1, <3>2
  <2>4. CASE <<i, j>> \in L
    BY <2>4, BeforeGrows
  <2> QED
    BY <2>2, <2>3, <2>4 DEF IsOrderOn
<1>5. ASSUME NEW i \in S PROVE \E k \in D : nth[k] = i
  <2>1. Before(L, S, i) \in 0 .. Cardinality(S) - 1
    BY BeforeIsPlace
  <2> DEFINE k == Before(L, S, i) + 1
  <2>2. k \in D /\ k - 1 = Before(L, S, i)
    BY <1>1, <2>1
  <2> HIDE DEF k
  <2>3. nth[k] \in S /\ Before(L, S, nth[k]) = Before(L, S, i)
    BY <1>2, <2>2
  <2>4. <<nth[k], i>> \notin L /\ <<i, nth[k]>> \notin L
    <3>1. <<nth[k], i>> \in L <=> Before(L, S, i) < Before(L, S, i)
      BY <1>4, <2>3
    <3>2. <<i, nth[k]>> \in L <=> Before(L, S, i) < Before(L, S, i)
      BY <1>4, <2>3
    <3>3. ~ (Before(L, S, i) < Before(L, S, i))
      BY <1>1, <2>1
    <3> QED
      BY <3>1, <3>2, <3>3
  <2>5. nth[k] = i
    BY <2>3, <2>4 DEF IsOrderOn
  <2> QED
    BY <2>2, <2>5
<1>6. ASSUME NEW k \in D, NEW l \in D PROVE k < l <=> <<nth[k], nth[l]>> \in L
  <2>1. <<nth[k], nth[l]>> \in L <=> k - 1 < l - 1
    BY <1>2, <1>4
  <2> QED
    BY <1>1, <2>1
<1> QED
  BY <1>1, <1>3, <1>5, <1>6

-----------------------------------------------------------------------------
(* Division with remainder. *)
LEMMA Divided ==
  ASSUME NEW q \in Nat, NEW n \in Nat \ {0}
  PROVE  q \div n \in Nat /\ q % n \in 0 .. n - 1 /\ q = (q \div n) * n + (q % n)
<1> DEFINE d == q \div n
           r == q % n
<1>1. d \in Nat /\ r \in 0 .. n - 1
  OBVIOUS
<1>2. q - d * n = r
  BY Z3
<1> HIDE DEF d, r
<1>3. d * n \in Nat
  BY <1>1
<1>4. q = d * n + r
  BY <1>1, <1>2, <1>3
<1> QED
  BY <1>1, <1>4 DEF d, r

(* A function on the first n numbers is a sequence. *)
LEMMA FunctionIsSeq ==
  ASSUME NEW T, NEW n \in Nat, NEW f \in [1 .. n -> T]
  PROVE  f \in Seq(T) /\ Len(f) = n
OBVIOUS

(* Every element of a sequence is in the chunk, and at the place, that     *)
(* division says.                                                          *)
LEMMA ChunkAt ==
  ASSUME NEW v \in Seq(Nat), NEW n \in Nat \ {0}, NEW q \in 0 .. Len(v) - 1
  PROVE  /\ q \div n + 1 \in DOMAIN Chunks(v, n)
         /\ DOMAIN Chunks(v, n) = 1 .. Len(Chunks(v, n)) /\ Len(Chunks(v, n)) \in Nat
         /\ Chunks(v, n)[q \div n + 1] \in Seq(Nat)
         /\ (q % n) + 1 \in 1 .. Len(Chunks(v, n)[q \div n + 1])
         /\ Chunks(v, n)[q \div n + 1][(q % n) + 1] = v[q + 1]
<1> DEFINE d == q \div n
           r == q % n
           k == d + 1
           N == Len(v) + n - 1
           c == N \div n
           rest == N % n
<1>1. q \in Nat /\ Len(v) \in Nat /\ q < Len(v) /\ N \in Nat
  OBVIOUS
<1>2. d \in Nat /\ r \in 0 .. n - 1 /\ q = d * n + r
  BY <1>1, Divided
<1>21. c \in Nat /\ rest \in 0 .. n - 1 /\ N = c * n + rest
  <2> HIDE DEF N
  <2> QED
    BY <1>1, Divided
<1>22. Chunks(v, n) = [j \in 1 .. c |->
                        SubSeq(v, (j - 1) * n + 1, IF j * n <= Len(v) THEN j * n ELSE Len(v))]
  BY DEF Chunks
<1> HIDE DEF d, r, c, rest
<1>23. k \in Nat \ {0} /\ k - 1 = d /\ d * n \in Nat /\ q = (k - 1) * n + r /\ k * n = d * n + n
  BY <1>2
<1>3. k <= c
  <2>1. d * n < c * n
    <3>1. d * n + r < c * n + rest - n + 1 /\ c * n \in Nat
      BY <1>1, <1>2, <1>21
    <3> QED
      BY <3>1, <1>2, <1>21, <1>23
  <2> QED
    BY <2>1, <1>2, <1>21, <1>23
<1> HIDE DEF k
<1> DEFINE last == IF k * n <= Len(v) THEN k * n ELSE Len(v)
<1>4. /\ last \in Nat /\ (k - 1) * n + r + 1 <= last /\ last <= Len(v) /\ (k - 1) * n \in Nat
  <2>1. k * n = (k - 1) * n + n /\ k * n \in Nat /\ (k - 1) * n \in Nat
    BY <1>23
  <2>2. CASE k * n <= Len(v)
    BY <2>1, <2>2, <1>1, <1>2, <1>23
  <2>3. CASE ~ (k * n <= Len(v))
    BY <2>1, <2>3, <1>1, <1>2, <1>23
  <2> QED
    BY <2>2, <2>3
<1>6. /\ DOMAIN Chunks(v, n) = 1 .. c /\ k \in 1 .. c
      /\ Chunks(v, n)[k] = SubSeq(v, (k - 1) * n + 1, last)
  <2>1. k \in 1 .. c
    BY <1>3, <1>21, <1>23
  <2> QED
    BY <2>1, <1>22
<1>7. Chunks(v, n) \in Seq({Chunks(v, n)[j] : j \in 1 .. c}) /\ Len(Chunks(v, n)) = c
  <2> DEFINE all == Chunks(v, n)
  <2>1. all \in [1 .. c -> {all[j] : j \in 1 .. c}]
    BY <1>22
  <2> HIDE DEF all
  <2>2. all \in Seq({all[j] : j \in 1 .. c}) /\ Len(all) = c
    BY <2>1, <1>21, FunctionIsSeq
  <2> QED
    BY <2>2 DEF all
<1> HIDE DEF last
<1>8. /\ SubSeq(v, (k - 1) * n + 1, last) \in Seq(Nat)
      /\ Len(SubSeq(v, (k - 1) * n + 1, last)) = last - (k - 1) * n
      /\ \A j \in 1 .. last - (k - 1) * n :
           SubSeq(v, (k - 1) * n + 1, last)[j] = v[(k - 1) * n + j]
  <2> DEFINE a == (k - 1) * n
  <2>1. a \in Nat /\ last \in a .. Len(v) /\ last \in Nat
    BY <1>1, <1>2, <1>4
  <2> HIDE DEF a
  <2>2. /\ SubSeq(v, a + 1, last) \in Seq(Nat)
        /\ Len(SubSeq(v, a + 1, last)) = last - a
        /\ \A j \in 1 .. last - a : SubSeq(v, a + 1, last)[j] = v[a + j]
    BY <2>1
  <2> QED
    BY <2>2 DEF a
<1>9. r + 1 \in 1 .. last - (k - 1) * n /\ (k - 1) * n + (r + 1) = q + 1
  BY <1>1, <1>2, <1>23, <1>4
<1>10. /\ Chunks(v, n)[k] \in Seq(Nat) /\ r + 1 \in 1 .. Len(Chunks(v, n)[k])
       /\ Chunks(v, n)[k][r + 1] = v[q + 1]
  BY <1>6, <1>8, <1>9, SMTT(30)
<1> HIDE DEF N
<1> QED
  BY <1>21, <1>6, <1>7, <1>10 DEF k, r, d

(* The bits of a vector of bytes, packed and unpacked, are the bytes that  *)
(* are not zero.                                                           *)
LEMMA BitsAreTheBytes ==
  ASSUME NEW bytes \in Seq(Nat)
  PROVE  /\ FromResidencyBytes(bytes) \in Seq(BOOLEAN)
         /\ Len(FromResidencyBytes(bytes)) = Len(bytes)
         /\ \A p \in 1 .. Len(bytes) : FromResidencyBytes(bytes)[p] <=> bytes[p] # 0
<1> DEFINE W == WordBits
           B == ByteBits
           N == Len(bytes)
           words == Packed(bytes)
           bits  == [p \in 1 .. Len(words) * W |-> words[(p - 1) \div W + 1][(p - 1) % W]]
           chunks == Chunks(bytes, W)
<1>1. W \in Nat \ {0} /\ B \in Nat \ {0} /\ N \in Nat
  BY ScreenAssumption
<1>2. Chunks(bytes, W) = [j \in 1 .. (N + W - 1) \div W |->
                            SubSeq(bytes, (j - 1) * W + 1, IF j * W <= N THEN j * W ELSE N)]
  BY DEF Chunks
<1> DEFINE c == (N + W - 1) \div W
<1>3. DOMAIN chunks = 1 .. c /\ c \in Nat
  <2>1. N + W - 1 \in Nat
    BY <1>1
  <2>2. c \in Nat
    BY <2>1, <1>1, Divided
  <2> QED
    BY <1>2, <2>2
<1> DEFINE Bit(w, bit) == LET subs == Chunks(chunks[w], B)
                              sub  == bit \div B + 1
                          IN  /\ sub <= Len(subs)
                              /\ bit % B < Len(subs[sub])
                              /\ subs[sub][(bit % B) + 1] # 0
<1>4. words = [w \in 1 .. c |-> [bit \in 0 .. W - 1 |-> Bit(w, bit)]]
  BY <1>3 DEF Packed
<1>5. Len(words) = c
  <2>1. words \in Seq({words[j] : j \in 1 .. c}) /\ DOMAIN words = 1 .. c
    <3> HIDE DEF Bit
    <3>1. words \in [1 .. c -> {words[j] : j \in 1 .. c}]
      BY <1>4
    <3> HIDE DEF words, c
    <3> QED
      BY <3>1, <1>3
  <2> QED
    BY <2>1, <1>3
<1>6. ASSUME NEW p \in 1 .. N
      PROVE  /\ p \in 1 .. c * W
             /\ (p - 1) \div W + 1 \in 1 .. c /\ (p - 1) % W \in 0 .. W - 1
             /\ Bit((p - 1) \div W + 1, (p - 1) % W) <=> bytes[p] # 0
  <2> DEFINE q == p - 1
             w == q \div W + 1
             bit == q % W
  <2>1. q \in 0 .. N - 1 /\ q \in Nat /\ q + 1 = p
    BY <1>1
  <2>2. /\ w \in 1 .. c /\ chunks[w] \in Seq(Nat)
        /\ bit + 1 \in 1 .. Len(chunks[w]) /\ chunks[w][bit + 1] = bytes[p]
    <3> HIDE DEF q
    <3>1. bytes \in Seq(Nat) /\ W \in Nat \ {0} /\ q \in 0 .. Len(bytes) - 1
      BY <2>1, <1>1
    <3>2. q \div W + 1 \in DOMAIN Chunks(bytes, W)
      BY <3>1, ChunkAt
    <3>3. Chunks(bytes, W)[q \div W + 1] \in Seq(Nat)
      BY <3>1, ChunkAt
    <3>4. (q % W) + 1 \in 1 .. Len(Chunks(bytes, W)[q \div W + 1])
      BY <3>1, ChunkAt
    <3>5. Chunks(bytes, W)[q \div W + 1][(q % W) + 1] = bytes[q + 1]
      BY <3>1, ChunkAt
    <3> QED
      BY <3>2, <3>3, <3>4, <3>5, <1>3, <2>1
  <2>3. w - 1 \in Nat /\ bit \in 0 .. W - 1 /\ q = (w - 1) * W + bit
    <3> DEFINE d == q \div W
    <3>1. d \in Nat /\ bit \in 0 .. W - 1 /\ q = d * W + bit
      <4> HIDE DEF q
      <4> QED
        BY <2>1, <1>1, Divided
    <3>2. w = d + 1
      OBVIOUS
    <3> HIDE DEF d, w, bit, q
    <3> QED
      BY <3>1, <3>2
  <2> HIDE DEF w, bit, q, chunks, c
  <2>4. p \in 1 .. c * W
    <3>1. (w - 1) * W + W <= c * W
      <4>1. w <= c /\ c \in Nat /\ w \in Nat
        BY <2>2, <1>3
      <4>2. w * W <= c * W
        BY <4>1, <1>1
      <4> QED
        BY <4>1, <4>2, <1>1
    <3> QED
      BY <3>1, <2>1, <2>3, <1>1, <1>3, SMTT(30)
  <2>5. bit \in 0 .. Len(chunks[w]) - 1 /\ bit \in Nat
    BY <2>2, <2>3, <1>1
  <2> DEFINE subs == Chunks(chunks[w], B)
             sub  == bit \div B + 1
  <2>6. /\ sub \in 1 .. Len(subs) /\ subs[sub] \in Seq(Nat) /\ Len(subs) \in Nat
        /\ (bit % B) + 1 \in 1 .. Len(subs[sub])
        /\ subs[sub][(bit % B) + 1] = chunks[w][bit + 1]
    <3> DEFINE chunk == chunks[w]
    <3>1. chunk \in Seq(Nat) /\ bit \in 0 .. Len(chunk) - 1
      BY <2>2, <2>5
    <3> HIDE DEF chunk
    <3>2. bit \div B + 1 \in DOMAIN Chunks(chunk, B)
      BY <3>1, <1>1, ChunkAt
    <3>3. DOMAIN Chunks(chunk, B) = 1 .. Len(Chunks(chunk, B)) /\ Len(Chunks(chunk, B)) \in Nat
      BY <3>1, <1>1, ChunkAt
    <3>4. Chunks(chunk, B)[bit \div B + 1] \in Seq(Nat)
      BY <3>1, <1>1, ChunkAt
    <3>5. (bit % B) + 1 \in 1 .. Len(Chunks(chunk, B)[bit \div B + 1])
      BY <3>1, <1>1, ChunkAt
    <3>6. Chunks(chunk, B)[bit \div B + 1][(bit % B) + 1] = chunk[bit + 1]
      BY <3>1, <1>1, ChunkAt
    <3> QED
      BY <3>2, <3>3, <3>4, <3>5, <3>6 DEF chunk
  <2>7. bit % B \in 0 .. B - 1 /\ bit \div B \in Nat
    BY <2>5, <1>1, Divided
  <2>8. sub <= Len(subs) /\ bit % B < Len(subs[sub])
    <3>1. sub \in Nat
      BY <2>7
    <3> HIDE DEF subs, sub
    <3>2. Len(subs[sub]) \in Nat
      BY <2>6
    <3> QED
      BY <2>6, <2>7, <3>1, <3>2, <1>1
  <2>9. Bit(w, bit) <=> bytes[p] # 0
    BY <2>2, <2>6, <2>8
  <2> HIDE DEF Bit
  <2>10. w \in 1 .. c /\ bit \in 0 .. W - 1 /\ (Bit(w, bit) <=> bytes[p] # 0)
    BY <2>2, <2>3, <2>9
  <2> QED
    BY <2>4, <2>10 DEF w, bit, q
<1>7. Len(words) * W = c * W /\ c * W \in Nat
  BY <1>1, <1>3, <1>5
<1>8. \A p \in 1 .. c * W : bits[p] = words[(p - 1) \div W + 1][(p - 1) % W]
  BY <1>7
<1>9. \A p \in 1 .. N : bits[p] <=> bytes[p] # 0
  <2> HIDE DEF Bit, words, bits, c
  <2> TAKE p \in 1 .. N
  <2>1. bits[p] = words[(p - 1) \div W + 1][(p - 1) % W]
    BY <1>6, <1>8
  <2>2. words[(p - 1) \div W + 1][(p - 1) % W] = Bit((p - 1) \div W + 1, (p - 1) % W)
    BY <1>4, <1>6
  <2> QED
    BY <2>1, <2>2, <1>6
<1>11. \A p \in 1 .. c * W : bits[p] \in BOOLEAN
  <2> TAKE p \in 1 .. c * W
  <2>1. (p - 1) \div W + 1 \in 1 .. c /\ (p - 1) % W \in 0 .. W - 1
    <3> DEFINE q == p - 1
               d == q \div W
    <3>1. q \in Nat /\ q < c * W
      BY <1>7
    <3>2. d \in Nat /\ q % W \in 0 .. W - 1 /\ q = d * W + (q % W)
      BY <3>1, <1>1, Divided
    <3> HIDE DEF d, q
    <3>3. d < c
      <4>1. d * W < c * W
        <5>1. d * W \in Nat /\ q % W \in Nat
          BY <3>2, <1>1
        <5> HIDE DEF c
        <5> QED
          BY <5>1, <3>1, <3>2, <1>7
      <4> HIDE DEF c
      <4> QED
        BY <4>1, <3>2, <1>1, <1>3
    <3> QED
      BY <3>2, <3>3, <1>3 DEF d, q
  <2> DEFINE w == (p - 1) \div W + 1
             bit == (p - 1) % W
  <2>2. bits[p] = words[w][bit]
    BY <1>8
  <2>3. words[w][bit] = Bit(w, bit)
    <3> HIDE DEF Bit, words, w, bit
    <3> QED
      BY <2>1, <1>4 DEF w, bit
  <2>4. Bit(w, bit) \in BOOLEAN
    OBVIOUS
  <2> QED
    BY <2>2, <2>3, <2>4
<1>10. FromResidencyBytes(bytes) = SubSeq(bits, 1, N)
  BY DEF FromResidencyBytes
<1>12. N <= c * W
  <2>1. CASE N = 0
    BY <2>1, <1>7
  <2>2. CASE N # 0
    <3>1. N \in 1 .. N
      BY <2>2, <1>1
    <3> QED
      BY <3>1, <1>6, <1>7
  <2> QED
    BY <2>1, <2>2
<1>13. bits \in Seq(BOOLEAN) /\ Len(bits) = c * W
  <2>1. bits \in [1 .. c * W -> BOOLEAN]
    BY <1>7, <1>11
  <2> DEFINE n == c * W
  <2> HIDE DEF bits, n
  <2> QED
    BY <2>1, <1>7 DEF n
<1> HIDE DEF bits, words, Bit, c
<1>14. /\ SubSeq(bits, 1, N) \in Seq(BOOLEAN) /\ Len(SubSeq(bits, 1, N)) = N
       /\ \A p \in 1 .. N : SubSeq(bits, 1, N)[p] = bits[p]
  <2>1. N \in Nat /\ N <= Len(bits) /\ Len(bits) \in Nat
    BY <1>1, <1>7, <1>12, <1>13
  <2> HIDE DEF N
  <2> QED
    BY <2>1, <1>13
<1> QED
  BY <1>9, <1>10, <1>14

-----------------------------------------------------------------------------
(* The numbers of a set, the least first. *)
LEMMA NumbersInOrder ==
  ASSUME NEW S \in SUBSET Nat, IsFiniteSet(S)
  PROVE  /\ Cardinality(S) \in Nat
         /\ InOrder(S) \in [1 .. Cardinality(S) -> S]
         /\ \A i \in S : \E k \in 1 .. Cardinality(S) : InOrder(S)[k] = i
         /\ \A k, l \in 1 .. Cardinality(S) : k < l <=> InOrder(S)[k] < InOrder(S)[l]
<1> DEFINE L == {ij \in Nat \X Nat : ij[1] < ij[2]}
           nth == InOrder(S)
<1>1. \A i, j \in Nat : <<i, j>> \in L <=> i < j
  OBVIOUS
<1> HIDE DEF L
<1>2. IsOrderOn(L, S)
  <2>1. \A i \in S : <<i, i>> \notin L
    BY <1>1
  <2>2. \A i, j, k \in S : <<i, j>> \in L /\ <<j, k>> \in L => <<i, k>> \in L
    <3> TAKE i, j, k \in S
    <3>1. i < j /\ j < k => i < k
      OBVIOUS
    <3> QED
      BY <3>1, <1>1
  <2>3. \A i, j \in S : i = j \/ <<i, j>> \in L \/ <<j, i>> \in L
    <3> TAKE i, j \in S
    <3>1. i = j \/ i < j \/ j < i
      OBVIOUS
    <3> QED
      BY <3>1, <1>1
  <2> QED
    BY <2>1, <2>2, <2>3 DEF IsOrderOn
<1>3. \A i \in S : Cardinality({j \in S : j < i}) = Before(L, S, i)
  <2> TAKE i \in S
  <2>1. {j \in S : j < i} = {j \in S : <<j, i>> \in L}
    BY <1>1
  <2> QED
    BY <2>1 DEF Before
<1>4. /\ nth = [k \in 1 .. Cardinality(S) |-> nth[k]]
      /\ \A k \in 1 .. Cardinality(S) : nth[k] = CHOOSE i \in S : Before(L, S, i) = k - 1
  <2>1. \A k : (CHOOSE i \in S : Cardinality({j \in S : j < i}) = k - 1)
                 = (CHOOSE i \in S : Before(L, S, i) = k - 1)
    BY <1>3
  <2>2. nth = [k \in 1 .. Cardinality(S) |->
                 CHOOSE i \in S : Cardinality({j \in S : j < i}) = k - 1]
    BY DEF InOrder
  <2> HIDE DEF nth
  <2>3. nth = [k \in 1 .. Cardinality(S) |-> nth[k]]
    <3> DEFINE Kth(k) == CHOOSE i \in S : Cardinality({j \in S : j < i}) = k - 1
    <3>1. nth = [k \in 1 .. Cardinality(S) |-> Kth(k)]
      BY <2>2
    <3> HIDE DEF Kth
    <3> QED
      BY <3>1
  <2>4. ASSUME NEW k \in 1 .. Cardinality(S)
        PROVE  nth[k] = CHOOSE i \in S : Before(L, S, i) = k - 1
    <3>1. nth[k] = CHOOSE i \in S : Cardinality({j \in S : j < i}) = k - 1
      BY <2>2
    <3> QED
      BY <3>1, <2>1
  <2> QED
    BY <2>3, <2>4
<1> HIDE DEF nth
<1>5. /\ Cardinality(S) \in Nat /\ nth \in [1 .. Cardinality(S) -> S]
      /\ \A i \in S : \E k \in 1 .. Cardinality(S) : nth[k] = i
      /\ \A k, l \in 1 .. Cardinality(S) : k < l <=> <<nth[k], nth[l]>> \in L
  BY <1>2, <1>4, Enumerated
<1>6. \A k, l \in 1 .. Cardinality(S) : <<nth[k], nth[l]>> \in L <=> nth[k] < nth[l]
  <2> TAKE k, l \in 1 .. Cardinality(S)
  <2>1. nth[k] \in Nat /\ nth[l] \in Nat
    BY <1>5
  <2> QED
    BY <2>1, <1>1
<1> QED
  BY <1>5, <1>6 DEF nth

(* The runs of a map are within it, each is of pages that are alike, and   *)
(* every page is in one.                                                   *)
LEMMA RunsAreTheMap ==
  ASSUME NEW map \in Seq(BOOLEAN), NEW runs, runs = Runs(map)
  PROVE  /\ runs \in Seq([offset : Nat, count : Nat \ {0}, resident : BOOLEAN])
         /\ \A n \in 1 .. Len(runs) :
              /\ runs[n].offset + runs[n].count <= Len(map)
              /\ \A p \in runs[n].offset + 1 .. runs[n].offset + runs[n].count :
                   map[p] <=> runs[n].resident
         /\ \A p \in 1 .. Len(map) : \E n \in 1 .. Len(runs) :
              p \in runs[n].offset + 1 .. runs[n].offset + runs[n].count
<1> DEFINE N == Len(map)
           begins == {p \in Pages(map) : p = 1 \/ map[p] # map[p - 1]}
           S == begins \cup {N + 1}
           K == Cardinality(begins)
           bounds == InOrder(S)
<1>1. N \in Nat /\ begins \in SUBSET (1 .. N) /\ S \in SUBSET Nat /\ Pages(map) = 1 .. N
  BY DEF Pages
<1>2. IsFiniteSet(begins) /\ N + 1 \notin begins
  <2>1. IsFiniteSet(1 .. N)
    BY <1>1, FS_Interval
  <2>2. IsFiniteSet(begins)
    <3> HIDE DEF begins, N
    <3> QED
      BY <2>1, <1>1, FS_Subset
  <2>3. N + 1 \notin begins
    BY <1>1
  <2> QED
    BY <2>2, <2>3
<1>3. IsFiniteSet(S) /\ Cardinality(S) = K + 1 /\ K \in Nat
  <2> HIDE DEF begins, N
  <2> QED
    BY <1>2, FS_AddElement, FS_CardinalityType
<1>4. \A p \in 1 .. N : p = 1 \/ map[p] # map[p - 1] => p \in S
  BY <1>1
<1>5. /\ bounds \in [1 .. K + 1 -> S]
      /\ \A i \in S : \E k \in 1 .. K + 1 : bounds[k] = i
      /\ \A k, l \in 1 .. K + 1 : k < l <=> bounds[k] < bounds[l]
  <2> HIDE DEF S
  <2>1. /\ InOrder(S) \in [1 .. Cardinality(S) -> S]
        /\ \A i \in S : \E k \in 1 .. Cardinality(S) : InOrder(S)[k] = i
        /\ \A k, l \in 1 .. Cardinality(S) : k < l <=> InOrder(S)[k] < InOrder(S)[l]
    BY <1>1, <1>3, NumbersInOrder
  <2> QED
    BY <2>1, <1>3
<1>6. runs = [n \in 1 .. K |-> [offset |-> bounds[n] - 1, count |-> bounds[n + 1] - bounds[n],
                                resident |-> map[bounds[n]]]]
  BY DEF Runs
<1>7. S \in SUBSET (1 .. N + 1) /\ N + 1 \in S /\ (N > 0 => 1 \in S)
  BY <1>1
<1> HIDE DEF bounds, K, S, begins, N
<1>8. \A k \in 1 .. K + 1 : bounds[k] \in 1 .. N + 1
  BY <1>5, <1>7
<1>9. bounds[K + 1] = N + 1
  <2>1. PICK k \in 1 .. K + 1 : bounds[k] = N + 1
    BY <1>5, <1>7
  <2>2. K + 1 \in 1 .. K + 1
    BY <1>3
  <2>3. ~ (k < K + 1)
    <3>1. ~ (bounds[k] < bounds[K + 1])
      BY <2>1, <2>2, <1>1, <1>8
    <3> QED
      BY <3>1, <2>2, <1>5
  <2>4. k = K + 1
    BY <2>3, <1>3
  <2> QED
    BY <2>1, <2>4
<1>10. ASSUME NEW n \in 1 .. K
       PROVE  /\ n \in 1 .. K + 1 /\ n + 1 \in 1 .. K + 1
              /\ bounds[n] \in 1 .. N /\ bounds[n + 1] \in 1 .. N + 1 /\ bounds[n] < bounds[n + 1]
  <2>1. n \in 1 .. K + 1 /\ n + 1 \in 1 .. K + 1 /\ n < n + 1
    BY <1>3
  <2>2. bounds[n] < bounds[n + 1] /\ bounds[n] \in 1 .. N + 1 /\ bounds[n + 1] \in 1 .. N + 1
    BY <2>1, <1>5, <1>8
  <2> QED
    BY <2>1, <2>2, <1>1
<1>11. Len(runs) = K /\ runs \in Seq([offset : Nat, count : Nat \ {0}, resident : BOOLEAN])
  <2>1. \A n \in 1 .. K :
          /\ bounds[n] - 1 \in Nat /\ bounds[n + 1] - bounds[n] \in Nat \ {0}
          /\ map[bounds[n]] \in BOOLEAN
    <3> TAKE n \in 1 .. K
    <3>1. bounds[n] \in 1 .. N /\ bounds[n + 1] \in 1 .. N + 1 /\ bounds[n] < bounds[n + 1]
      BY <1>10
    <3>2. map[bounds[n]] \in BOOLEAN
      BY <3>1 DEF N
    <3> QED
      BY <3>1, <3>2, <1>1
  <2>2. runs \in [1 .. K -> [offset : Nat, count : Nat \ {0}, resident : BOOLEAN]]
    BY <2>1, <1>6
  <2> DEFINE Run == [offset : Nat, count : Nat \ {0}, resident : BOOLEAN]
  <2> HIDE DEF Run
  <2>3. runs \in [1 .. K -> Run]
    BY <2>2 DEF Run
  <2>4. runs \in Seq(Run) /\ Len(runs) = K
    BY <2>3, <1>3, FunctionIsSeq
  <2> QED
    BY <2>4 DEF Run
<1>12. \A n \in 1 .. K : /\ runs[n].offset = bounds[n] - 1
                         /\ runs[n].count = bounds[n + 1] - bounds[n]
                         /\ runs[n].resident = map[bounds[n]]
  BY <1>6
<1>13. \A n \in 1 .. K : /\ runs[n].offset + 1 = bounds[n]
                         /\ runs[n].offset + runs[n].count = bounds[n + 1] - 1
  <2> TAKE n \in 1 .. K
  <2>1. bounds[n] \in Nat /\ bounds[n + 1] \in Nat
    BY <1>10, <1>1
  <2> QED
    BY <2>1, <1>12
<1>14. ASSUME NEW n \in 1 .. K, NEW p \in bounds[n] .. bounds[n + 1] - 1
       PROVE  map[p] <=> map[bounds[n]]
  <2> DEFINE wrong == {q \in bounds[n] .. bounds[n + 1] - 1 : ~ (map[q] <=> map[bounds[n]])}
  <2> SUFFICES ASSUME p \in wrong PROVE FALSE
    OBVIOUS
  <2>1. bounds[n] \in Nat /\ bounds[n] >= 1 /\ bounds[n + 1] <= N + 1 /\ bounds[n + 1] \in Nat
        /\ n + 1 \in 1 .. K + 1 /\ n \in 1 .. K + 1
    BY <1>10, <1>1
  <2>2. wrong \in SUBSET Nat
    BY <2>1
  <2>3. PICK q \in wrong : \A r \in wrong : q <= r
    <3> HIDE DEF wrong
    <3> QED
      BY <2>2, LeastNumber
  <2>4. q \in bounds[n] .. bounds[n + 1] - 1 /\ ~ (map[q] <=> map[bounds[n]]) /\ q \in Nat
    BY <2>1
  <2>5. q # bounds[n] /\ q - 1 \in bounds[n] .. bounds[n + 1] - 1
    BY <2>1, <2>4
  <2>6. map[q - 1] <=> map[bounds[n]]
    <3>1. q - 1 \notin wrong
      <4>1. ~ (q <= q - 1)
        BY <2>4
      <4> HIDE DEF wrong
      <4> QED
        BY <4>1, <2>3
    <3> QED
      BY <3>1, <2>5
  <2>7. q \in 1 .. N /\ map[q] # map[q - 1]
    BY <2>1, <2>4, <2>6, <1>1, SMTT(30)
  <2>8. PICK k \in 1 .. K + 1 : bounds[k] = q
    BY <2>7, <1>4, <1>5
  <2>9. bounds[n] < bounds[k] /\ bounds[k] < bounds[n + 1]
    BY <2>1, <2>4, <2>5, <2>8
  <2>10. n < k /\ k < n + 1
    BY <2>1, <2>9, <1>5
  <2> QED
    BY <2>10, <1>3
<1>15. ASSUME NEW p \in 1 .. N PROVE \E n \in 1 .. K : p \in bounds[n] .. bounds[n + 1] - 1
  <2> DEFINE later == {k \in 1 .. K + 1 : p < bounds[k]}
  <2>1. later \in SUBSET Nat /\ K + 1 \in later
    BY <1>1, <1>3, <1>9
  <2>2. PICK k \in later : \A l \in later : k <= l
    <3> HIDE DEF later
    <3> QED
      BY <2>1, LeastNumber
  <2>3. k \in 1 .. K + 1 /\ p < bounds[k]
    OBVIOUS
  <2>4. k # 1
    <3>1. PICK l \in 1 .. K + 1 : bounds[l] = 1
      BY <1>1, <1>5, <1>7
    <3>2. bounds[l] < bounds[k]
      <4>1. bounds[k] \in Nat
        BY <2>3, <1>8, <1>1
      <4> QED
        BY <4>1, <3>1, <2>3, <1>1
    <3>3. l < k
      BY <3>2, <2>3, <1>5
    <3> QED
      BY <3>3, <1>3
  <2> DEFINE n == k - 1
  <2>5. n \in 1 .. K /\ n + 1 = k /\ n \in 1 .. K + 1 /\ n < k
    BY <2>3, <2>4, <1>3
  <2>6. ~ (p < bounds[n])
    <3>1. n \notin later
      <4>1. ~ (k <= n)
        BY <2>5, <1>3
      <4> HIDE DEF later
      <4> QED
        BY <4>1, <2>2
    <3> QED
      BY <3>1, <2>5
  <2>7. bounds[n] \in Nat /\ bounds[k] \in Nat
    <3> HIDE DEF n
    <3> QED
      BY <2>5, <2>3, <1>8, <1>1
  <2> HIDE DEF n, later
  <2>8. p \in bounds[n] .. bounds[n + 1] - 1
    BY <2>3, <2>5, <2>6, <2>7
  <2> QED
    BY <2>5, <2>8
<1>16. ASSUME NEW n \in 1 .. Len(runs)
       PROVE  /\ runs[n].offset + runs[n].count <= Len(map)
              /\ \A p \in runs[n].offset + 1 .. runs[n].offset + runs[n].count :
                   map[p] <=> runs[n].resident
  <2>1. n \in 1 .. K
    BY <1>11
  <2>2. bounds[n + 1] - 1 <= N
    BY <2>1, <1>10, <1>1
  <2>3. \A p \in bounds[n] .. bounds[n + 1] - 1 : map[p] <=> map[bounds[n]]
    BY <2>1, <1>14
  <2> QED
    BY <2>1, <2>2, <2>3, <1>12, <1>13 DEF N
<1>17. ASSUME NEW p \in 1 .. Len(map)
       PROVE  \E n \in 1 .. Len(runs) : p \in runs[n].offset + 1 .. runs[n].offset + runs[n].count
  <2>1. PICK n \in 1 .. K : p \in bounds[n] .. bounds[n + 1] - 1
    BY <1>15 DEF N
  <2> QED
    BY <2>1, <1>11, <1>13
<1> QED
  BY <1>11, <1>16, <1>17

-----------------------------------------------------------------------------
(* The rows in some places of the list, the largest first: each once. *)
LEMMA LargestFirst ==
  ASSUME IInv, NEW places \in SUBSET (1 .. Len(files)), NEW rows, rows = Sorted(places)
  PROVE  /\ Cardinality(places) \in Nat
         /\ rows \in Seq(File) /\ Len(rows) = Cardinality(places)
         /\ \A k \in 1 .. Len(rows) : \E n \in places : rows[k] = files[n]
         /\ \A n \in places : \E k \in 1 .. Len(rows) : rows[k] = files[n]
         /\ \A k, l \in 1 .. Len(rows) : k < l => Smaller(rows[l], rows[k])
<1> DEFINE L == {mn \in places \X places : Smaller(files[mn[2]], files[mn[1]])}
           K == Cardinality(places)
           Kth(k) == CHOOSE n \in places :
                       Cardinality({m \in places : Smaller(files[n], files[m])}) = k - 1
           nth == [k \in 1 .. K |-> Kth(k)]
<1>1. \A m, n \in places : <<m, n>> \in L <=> Smaller(files[n], files[m])
  OBVIOUS
<1> HIDE DEF L
<1>2. files \in Seq(File) /\ IsFiniteSet(places)
  <2>1. files \in Seq(File)
    BY DEF IInv, Typed
  <2>2. IsFiniteSet(1 .. Len(files))
    BY <2>1, FS_Interval
  <2> QED
    BY <2>1, <2>2, FS_Subset
<1>3. \A n \in places : files[n].id \in Nat /\ files[n].total \in Nat
  <2> TAKE n \in places
  <2>1. files[n] \in File
    BY <1>2
  <2>2. Ids \subseteq Nat /\ 1 .. MaxPages \subseteq Nat
    BY TuiAppAssumption
  <2> QED
    BY <2>1, <2>2 DEF File
<1>4. \A m, n \in places : files[m].id = files[n].id => m = n
  BY DEF IInv, Located
<1>5. IsOrderOn(L, places)
  <2>1. \A n \in places : <<n, n>> \notin L
    BY <1>1, <1>3 DEF Smaller
  <2>2. \A i, j, k \in places : <<i, j>> \in L /\ <<j, k>> \in L => <<i, k>> \in L
    <3> TAKE i, j, k \in places
    <3>1. /\ files[i].id \in Nat /\ files[i].total \in Nat /\ files[j].id \in Nat
          /\ files[j].total \in Nat /\ files[k].id \in Nat /\ files[k].total \in Nat
      BY <1>3
    <3>2. Smaller(files[j], files[i]) /\ Smaller(files[k], files[j]) => Smaller(files[k], files[i])
      BY <3>1 DEF Smaller
    <3> QED
      BY <3>2, <1>1
  <2>3. \A i, j \in places : i = j \/ <<i, j>> \in L \/ <<j, i>> \in L
    <3> TAKE i, j \in places
    <3>1. /\ files[i].id \in Nat /\ files[i].total \in Nat
          /\ files[j].id \in Nat /\ files[j].total \in Nat
      BY <1>3
    <3>2. files[i].id = files[j].id \/ Smaller(files[i], files[j]) \/ Smaller(files[j], files[i])
      BY <3>1 DEF Smaller
    <3> QED
      BY <3>2, <1>1, <1>4
  <2> QED
    BY <2>1, <2>2, <2>3 DEF IsOrderOn
<1>6. \A n \in places : Cardinality({m \in places : Smaller(files[n], files[m])}) = Before(L, places, n)
  <2> TAKE n \in places
  <2>1. {m \in places : Smaller(files[n], files[m])} = {m \in places : <<m, n>> \in L}
    BY <1>1
  <2> QED
    BY <2>1 DEF Before
<1>7. \A k : Kth(k) = CHOOSE n \in places : Before(L, places, n) = k - 1
  BY <1>6
<1>8. rows = [k \in 1 .. K |-> files[Kth(k)]]
  BY DEF Sorted
<1> HIDE DEF Kth
<1>9. nth = [k \in 1 .. K |-> nth[k]] /\ \A k \in 1 .. K : nth[k] = Kth(k)
  OBVIOUS
<1>10. rows = [k \in 1 .. K |-> files[nth[k]]]
  BY <1>8, <1>9
<1> HIDE DEF nth
<1>11. \A k \in 1 .. Cardinality(places) : nth[k] = CHOOSE n \in places : Before(L, places, n) = k - 1
  BY <1>7, <1>9
<1>12. /\ K \in Nat /\ nth \in [1 .. K -> places]
       /\ \A n \in places : \E k \in 1 .. K : nth[k] = n
       /\ \A k, l \in 1 .. K : k < l <=> <<nth[k], nth[l]>> \in L
  BY <1>2, <1>5, <1>9, <1>11, Enumerated
<1>13. rows \in Seq(File) /\ Len(rows) = K
  <2>1. \A k \in 1 .. K : files[nth[k]] \in File
    <3> HIDE DEF K
    <3> TAKE k \in 1 .. K
    <3>1. nth[k] \in 1 .. Len(files)
      BY <1>12
    <3> QED
      BY <3>1, <1>2
  <2>2. rows \in [1 .. K -> File]
    BY <2>1, <1>10
  <2> QED
    BY <2>2, <1>12, FunctionIsSeq
<1>14. \A k \in 1 .. K : rows[k] = files[nth[k]] /\ nth[k] \in places
  BY <1>10, <1>12
<1>15. \A k, l \in 1 .. K : k < l => Smaller(rows[l], rows[k])
  BY <1>1, <1>12, <1>14
<1>16. \A n \in places : \E k \in 1 .. K : rows[k] = files[n]
  <2> TAKE n \in places
  <2>1. PICK k \in 1 .. K : nth[k] = n
    BY <1>12
  <2> QED
    BY <2>1, <1>14
<1>17. \A k \in 1 .. K : \E n \in places : rows[k] = files[n]
  BY <1>14
<1> QED
  BY <1>12, <1>13, <1>15, <1>16, <1>17

(* What is shown is some of that, and at least a row. *)
Shown(places) ==
  LET rows == Sorted(places)
  IN  SubSeq(rows, 1, IF Len(rows) > MaxDisplay THEN MaxDisplay ELSE Len(rows))

\* The rows on the screen, when the list fits, are all the rows there are.
AllShown(view, where) ==
  \A n \in where : Cardinality(where) <= MaxDisplay =>
    \E k \in 1 .. Len(view) : view[k] = files[n]

\* A list of rows that is cut at MaxDisplay shows rows of the list, and all of
\* them when they are few.
LEMMA RowsAreShown ==
  ASSUME IInv, NEW places \in SUBSET (1 .. Len(files)), places # {},
         NEW shown, shown = Shown(places)
  PROVE  /\ shown \in Seq(File) /\ Len(shown) \in 1 .. MaxDisplay
         /\ \A k \in 1 .. Len(shown) : \E n \in places : shown[k] = files[n]
         /\ AllShown(shown, places)
<1>1. PICK rows : rows = Sorted(places)
  OBVIOUS
<1>2. /\ Cardinality(places) \in Nat
      /\ rows \in Seq(File) /\ Len(rows) = Cardinality(places)
      /\ \A k \in 1 .. Len(rows) : \E n \in places : rows[k] = files[n]
      /\ \A n \in places : \E k \in 1 .. Len(rows) : rows[k] = files[n]
  <2>1. Cardinality(places) \in Nat
    BY <1>1, LargestFirst
  <2>2. rows \in Seq(File)
    BY <1>1, LargestFirst
  <2>3. Len(rows) = Cardinality(places)
    BY <1>1, LargestFirst
  <2>4. \A k \in 1 .. Len(rows) : \E n \in places : rows[k] = files[n]
    BY <1>1, LargestFirst
  <2>5. \A n \in places : \E k \in 1 .. Len(rows) : rows[k] = files[n]
    BY <1>1, LargestFirst
  <2> QED
    BY <2>1, <2>2, <2>3, <2>4, <2>5
<1> DEFINE last == IF Len(rows) > MaxDisplay THEN MaxDisplay ELSE Len(rows)
<1>21. shown = SubSeq(rows, 1, last)
  BY <1>1 DEF Shown
<1>3. Len(rows) \in Nat /\ Len(rows) >= 1
  <2>1. PICK n \in places : TRUE
    OBVIOUS
  <2>2. PICK k \in 1 .. Len(rows) : rows[k] = files[n]
    BY <1>2
  <2> QED
    BY <2>2, <1>2
<1>4. last \in 1 .. MaxDisplay /\ last <= Len(rows) /\ MaxDisplay \in Nat
      /\ (Len(rows) <= MaxDisplay => last = Len(rows))
  BY <1>3, TuiAppAssumption
<1>5. shown \in Seq(File) /\ Len(shown) = last /\ \A k \in 1 .. last : shown[k] = rows[k]
  <2>1. last \in 1 .. Len(rows) /\ rows \in Seq(File)
    BY <1>2, <1>3, <1>4
  <2>2. shown = SubSeq(rows, 1, last)
    BY <1>21
  <2> HIDE DEF last
  <2>3. \A e \in 1 .. Len(rows) :
          /\ SubSeq(rows, 1, e) \in Seq(File) /\ Len(SubSeq(rows, 1, e)) = e
          /\ \A k \in 1 .. e : SubSeq(rows, 1, e)[k] = rows[k]
    BY <2>1
  <2> QED
    BY <2>1, <2>2, <2>3
<1> HIDE DEF last
<1>6. \A k \in 1 .. last : k \in 1 .. Len(rows)
  BY <1>3, <1>4
<1>7. \A k \in 1 .. Len(shown) : \E n \in places : shown[k] = files[n]
  <2> TAKE k \in 1 .. Len(shown)
  <2>1. k \in 1 .. Len(rows) /\ shown[k] = rows[k]
    BY <1>5, <1>6
  <2>2. PICK n \in places : rows[k] = files[n]
    BY <2>1, <1>2
  <2> QED
    BY <2>1, <2>2
<1>8. ASSUME Cardinality(places) <= MaxDisplay, NEW n \in places
      PROVE  \E k \in 1 .. Len(shown) : shown[k] = files[n]
  <2>1. last = Len(rows)
    BY <1>2, <1>4, <1>8
  <2>2. PICK k \in 1 .. Len(rows) : rows[k] = files[n]
    BY <1>2
  <2> QED
    BY <2>1, <2>2, <1>5
<1>9. AllShown(shown, places)
  BY <1>8 DEF AllShown
<1> QED
  BY <1>4, <1>5, <1>7, <1>9

\* A list that keeps the right files shows a running one.
LEMMA RankedIsUseful == IInv /\ RightFilesAreKept => ScreenIsUseful
<1> SUFFICES ASSUME IInv, RightFilesAreKept
             PROVE  ScreenIsUseful
  OBVIOUS
<1> DEFINE max == MaxDisplay
           hide == Len(files) > max /\ \E n \in DOMAIN files : ~files[n].done
           places == IF hide THEN DOMAIN files \ DoneIn(files) ELSE DOMAIN files
           shown == Visible(max)
<1>1. /\ files \in Seq(File) /\ DOMAIN files = 1 .. Len(files) /\ Len(files) \in Nat
      /\ max \in Nat \ {0}
  BY TuiAppAssumption DEF IInv, Typed
<1>2. shown = Shown(places)
  BY DEF Visible, Shown
<1>3. places \in SUBSET (1 .. Len(files)) /\ (files # <<>> => places # {})
  <2>1. files # <<>> => 1 \in DOMAIN files
    BY <1>1
  <2>2. hide => \E n \in DOMAIN files : n \notin DoneIn(files)
    BY DEF DoneIn
  <2> QED
    BY <2>1, <2>2, <1>1
<1>4. running = {files[n].id : n \in DOMAIN files \ DoneIn(files)}
  BY DEF RightFilesAreKept, DoneFiles
<1>5. CASE files = <<>>
  <2>1. places = {} /\ running = {}
    BY <1>5, <1>1, <1>4
  <2>2. /\ Sorted(places) \in Seq(File) /\ Len(Sorted(places)) = Cardinality(places)
    BY <1>3, LargestFirst
  <2>3. Cardinality(places) = 0
    BY <2>1, FS_EmptySet
  <2> HIDE DEF places
  <2>4. Len(shown) = 0
    BY <2>2, <2>3, <1>1, <1>2 DEF Shown
  <2> QED
    BY <2>1, <2>4, <1>1, <1>5 DEF ScreenIsUseful
<1>6. CASE files # <<>>
  <2>1. /\ shown \in Seq(File) /\ Len(shown) \in 1 .. max
        /\ \A k \in 1 .. Len(shown) : \E n \in places : shown[k] = files[n]
        /\ Cardinality(places) <= max =>
             \A n \in places : \E k \in 1 .. Len(shown) : shown[k] = files[n]
    <3>1. PICK view, where : view = shown /\ where = places
      OBVIOUS
    <3>2. where \in SUBSET (1 .. Len(files)) /\ where # {}
      BY <1>3, <1>6, <3>1
    <3>3. view = Shown(where)
      BY <1>2, <3>1
    <3> HIDE DEF places, shown
    <3>4. view \in Seq(File) /\ Len(view) \in 1 .. MaxDisplay
      BY <3>2, <3>3, RowsAreShown
    <3>5. \A k \in 1 .. Len(view) : \E n \in where : view[k] = files[n]
      BY <3>2, <3>3, RowsAreShown
    <3>6. AllShown(view, where)
      BY <3>2, <3>3, RowsAreShown
    <3> QED
      BY <3>1, <3>4, <3>5, <3>6 DEF AllShown
  <2>2. Len(shown) <= max /\ shown # <<>> /\ DOMAIN shown = 1 .. Len(shown)
    <3> HIDE DEF shown
    <3> QED
      BY <2>1, <1>1
  <2>3. ASSUME running # {} PROVE \E k \in DOMAIN shown : shown[k].id \in running
    <3>1. PICK n \in DOMAIN files \ DoneIn(files) : TRUE
      BY <2>3, <1>4
    <3>2. CASE hide
      <4>1. 1 \in 1 .. Len(shown)
        BY <2>1, <1>1
      <4>2. PICK m \in DOMAIN files \ DoneIn(files) : shown[1] = files[m]
        BY <4>1, <2>1, <3>2
      <4> HIDE DEF shown
      <4> QED
        BY <4>1, <4>2, <2>2, <1>4
    <3>3. CASE ~ hide
      <4>1. ~ (Len(files) > max)
        BY <3>1, <3>3 DEF DoneIn
      <4>2. places = 1 .. Len(files)
        BY <3>3, <1>1
      <4>3. Cardinality(1 .. Len(files)) = Len(files)
        <5> DEFINE n0 == Len(files)
        <5> HIDE DEF n0
        <5>1. n0 \in Nat
          BY <1>1 DEF n0
        <5>2. Cardinality(1 .. n0) = n0
          BY <5>1, FS_Interval
        <5> QED
          BY <5>2 DEF n0
      <4>4. PICK k \in 1 .. Len(shown) : shown[k] = files[n]
        <5> HIDE DEF places, shown
        <5> QED
          BY <2>1, <4>1, <4>2, <4>3, <1>1
      <4> HIDE DEF shown
      <4> QED
        BY <4>4, <2>2, <1>4
    <3> QED
      BY <3>2, <3>3
  <2> HIDE DEF shown
  <2> QED
    BY <2>2, <2>3 DEF ScreenIsUseful, shown
<1> QED
  BY <1>5, <1>6

\* The screen is used: never more rows than it has, never none while there is a
\* file, and never only files that are done while one is being worked on.
THEOREM ShowsWhatRuns == Spec => []ScreenIsUseful
BY Invariant, KeepsTheLargest, RankedIsUseful, PTL

-----------------------------------------------------------------------------
(***************************************************************************)
(* The invariant of Screen.  The events of a file that are under way: the  *)
(* ones in the queue, then the ones that its worker has yet to send.       *)
(***************************************************************************)
Queued(i) == {n \in DOMAIN queue : queue[n].kind # "alldone" /\ queue[n].id = i}
Outbox(i) == work[i].outbox
Flying(i) == {queue[n] : n \in Queued(i)} \cup {Outbox(i)[n] : n \in DOMAIN Outbox(i)}

StartEvent ==
  [kind : {"start"}, id : Ids, total : 1 .. MaxPages, residency : Seq(BOOLEAN)]
ProgressEvent ==
  [kind : {"progress"}, id : Ids, offset : 0 .. MaxPages - 1, count : 1 .. MaxPages,
   resident : BOOLEAN]
DoneEvent(i) == [kind |-> "done", id |-> i]
FileEvent == StartEvent \cup ProgressEvent \cup [kind : {"done"}, id : Ids]
Over == [kind |-> "alldone"]

Record ==
  [at : {"idle", "walk", "output", "error"}, len : Nat, before : Seq(Nat), after : Seq(Nat),
   page : Nat, reported : Nat, outbox : Seq(FileEvent)]

\* Types: a worker that has begun has a sample of its file, one that has finished
\* has another of the same size, and only one that populates reports pages.
WorkTyped ==
  /\ effect \in Effects
  /\ work \in [Ids -> Record]
  /\ \A i \in Ids :
       /\ \A n \in DOMAIN Outbox(i) : Outbox(i)[n].id = i
       /\ work[i].at = "idle" => work[i] = Idle
       /\ work[i].at # "idle" => work[i].len \in Lens /\ work[i].before \in Probed(work[i].len)
       /\ work[i].at = "output" => Len(work[i].after) = Len(work[i].before)
       /\ work[i].page <= Len(work[i].before)
       /\ work[i].page # 0 => effect = "Populate"
  /\ queue \in Seq({Over} \cup FileEvent)
  /\ closed \in BOOLEAN /\ flow \in {"continue", "done"}

\* Nothing of a file comes after its end, or before its start.
After(e, g) == e.kind # "done" /\ g.kind # "start"

Ordered ==
  \A i \in Ids :
    /\ \A m, n \in Queued(i) : m < n => After(queue[m], queue[n])
    /\ \A m, n \in DOMAIN Outbox(i) : m < n => After(Outbox(i)[m], Outbox(i)[n])
    /\ \A m \in Queued(i), n \in DOMAIN Outbox(i) : After(queue[m], Outbox(i)[n])

\* The end of all comes after everything.
Ending ==
  /\ \A n \in DOMAIN queue : queue[n].kind = "alldone" => n = Len(queue) /\ closed
  /\ closed => Working = {}
  /\ flow = "done" => closed /\ queue = <<>>

\* What the display has been told of a file, what is under way and what its
\* worker has done agree.
Ended(i) == \E f \in finished : f.id = i
StartFlies(i) == \E e \in Flying(i) : e.kind = "start"

Phase(i) ==
  /\ work[i].at = "idle" => Flying(i) = {} /\ ~Ended(i) /\ i \notin running
  /\ work[i].at = "walk" => DoneEvent(i) \notin Flying(i) /\ ~Ended(i)
  /\ work[i].at \in {"output", "error"} =>
       IF Ended(i) THEN Flying(i) = {} ELSE DoneEvent(i) \in Flying(i)
  /\ work[i].at # "idle" /\ ~Ended(i) => (i \in running <=> ~StartFlies(i))
  /\ Ended(i) => i \notin running

Delivered == WorkTyped /\ Ordered /\ Ending /\ \A i \in Ids : Phase(i)

\* The pages that the worker has found, or made, resident.
Truth(i) ==
  IF work[i].at = "output" THEN PagesOf(work[i].after)
  ELSE PagesOf(work[i].before) \cup 1 .. work[i].page

Covered(e) == e.offset + 1 .. e.offset + e.count
Pending(i) == {e \in Flying(i) : e.kind = "progress"}

\* What is under way tells the truth, ...
Truthful(i) ==
  /\ \A e \in Pending(i) :
       /\ e.offset + e.count <= Len(work[i].before)
       /\ \A p \in Covered(e) : e.resident <=> p \in Truth(i)
       /\ work[i].at # "output" \/ effect = "Populate" => e.resident /\ effect = "Populate"
       /\ effect # "Preserve"
  /\ \A e \in Flying(i) : e.kind = "start" =>
       /\ e.total = Len(work[i].before) /\ Len(e.residency) = e.total
       /\ Filled(e.residency) = PagesOf(work[i].before)

\* ... and a map that is not the truth on a page will hear of that page.
Corrected(i, map) ==
  /\ \A p \in 1 .. Len(work[i].before) :
       (p \in map <=> p \in Truth(i)) \/ \E e \in Pending(i) : p \in Covered(e)
  /\ effect = "Populate" => PagesOf(work[i].before) \subseteq map

Mapped ==
  /\ \A i \in Ids :
       /\ Truthful(i)
       /\ StartFlies(i) => Corrected(i, PagesOf(work[i].before))
  /\ \A n \in 1 .. Len(files) :
       /\ work[files[n].id].at # "idle"
       /\ files[n].total = Len(work[files[n].id].before)
       /\ Corrected(files[n].id, files[n].residency)
       /\ files[n].done <=> Ended(files[n].id)

ScreenInv == IInv /\ Delivered /\ Mapped

-----------------------------------------------------------------------------
\* The record of a worker that has reported, and of one that has finished.
LEMMA ReportRecord ==
  ASSUME work \in [Ids -> Record], NEW i \in Ids,
         NEW p \in Nat, NEW n \in Nat, NEW box \in Seq(FileEvent)
  PROVE  [work EXCEPT ![i].page = p, ![i].reported = n, ![i].outbox = box] \in [Ids -> Record]
<1>1. PICK r : r = [work[i] EXCEPT !.page = p, !.reported = n, !.outbox = box]
  OBVIOUS
<1>2. r \in Record
  BY <1>1 DEF Record
<1>3. [work EXCEPT ![i].page = p, ![i].reported = n, ![i].outbox = box] = [work EXCEPT ![i] = r]
  BY <1>1
<1> QED
  BY <1>2, <1>3

LEMMA FinishRecord ==
  ASSUME work \in [Ids -> Record], NEW i \in Ids,
         NEW after \in Seq(Nat), NEW box \in Seq(FileEvent)
  PROVE  [work EXCEPT ![i].at = "output", ![i].after = after, ![i].outbox = box] \in [Ids -> Record]
<1>1. PICK r : r = [work[i] EXCEPT !.at = "output", !.after = after, !.outbox = box]
  OBVIOUS
<1>2. r \in Record
  BY <1>1 DEF Record
<1>3. [work EXCEPT ![i].at = "output", ![i].after = after, ![i].outbox = box] = [work EXCEPT ![i] = r]
  BY <1>1
<1> QED
  BY <1>2, <1>3

(* What an event is, by its kind. *)
LEMMA EventKinds ==
  /\ Over.kind = "alldone"
  /\ \A i : DoneEvent(i).kind = "done" /\ DoneEvent(i).id = i
  /\ \A e \in FileEvent :
       /\ e.kind \in {"start", "progress", "done"} /\ e.id \in Ids
       /\ e.kind = "start" => e \in StartEvent
       /\ e.kind = "progress" => e \in ProgressEvent
       /\ e.kind = "done" => e = DoneEvent(e.id)
BY DEF Over, DoneEvent, FileEvent, StartEvent, ProgressEvent

\* What the queue and the outboxes hold.
LEMMA QueueOfEvents ==
  ASSUME WorkTyped
  PROVE  /\ Len(queue) \in Nat /\ DOMAIN queue = 1 .. Len(queue)
         /\ \A n \in DOMAIN queue : queue[n] = Over \/ queue[n] \in FileEvent
         /\ \A n \in DOMAIN queue : queue[n].kind # "alldone" => queue[n] \in FileEvent
         /\ \A i \in Ids : /\ work[i] \in Record /\ Outbox(i) \in Seq(FileEvent)
                           /\ Len(Outbox(i)) \in Nat /\ DOMAIN Outbox(i) = 1 .. Len(Outbox(i))
                           /\ \A n \in DOMAIN Outbox(i) : Outbox(i)[n] \in FileEvent
         /\ \A i \in Ids : \A e \in Flying(i) : e \in FileEvent /\ e.id = i
<1>1. queue \in Seq({Over} \cup FileEvent)
  BY DEF WorkTyped
<1>2. \A n \in DOMAIN queue : queue[n] = Over \/ queue[n] \in FileEvent
  BY <1>1
<1>3. \A n \in DOMAIN queue : queue[n].kind # "alldone" => queue[n] \in FileEvent
  BY <1>2, EventKinds
<1>4. ASSUME NEW i \in Ids
      PROVE  /\ work[i] \in Record /\ Outbox(i) \in Seq(FileEvent)
             /\ Len(Outbox(i)) \in Nat /\ DOMAIN Outbox(i) = 1 .. Len(Outbox(i))
             /\ \A n \in DOMAIN Outbox(i) : Outbox(i)[n] \in FileEvent
  <2>1. work[i] \in Record
    BY DEF WorkTyped
  <2>2. Outbox(i) \in Seq(FileEvent)
    BY <2>1 DEF Record, Outbox
  <2> QED
    BY <2>1, <2>2
<1>5. ASSUME NEW i \in Ids, NEW e \in Flying(i)
      PROVE  e \in FileEvent /\ e.id = i
  <2>1. CASE \E n \in Queued(i) : e = queue[n]
    BY <2>1, <1>3 DEF Queued
  <2>2. CASE \E n \in DOMAIN Outbox(i) : e = Outbox(i)[n]
    BY <2>2, <1>4 DEF WorkTyped
  <2> QED
    BY <2>1, <2>2 DEF Flying
<1> QED
  BY <1>1, <1>2, <1>3, <1>4, <1>5

(***************************************************************************)
(* A worker that has sent all it had does the next thing: its record is    *)
(* now r, with new events to send.                                         *)
(***************************************************************************)
Sensible(i, r) ==
  /\ r \in Record
  /\ r.at # "idle" /\ r.len \in Lens /\ r.before \in Probed(r.len)
  /\ r.at = "output" => Len(r.after) = Len(r.before)
  /\ r.page <= Len(r.before)
  /\ r.page # 0 => effect = "Populate"
  /\ \A n \in DOMAIN r.outbox : r.outbox[n].id = i
  /\ \A m, n \in DOMAIN r.outbox : m < n => After(r.outbox[m], r.outbox[n])
  /\ \A m \in Queued(i), n \in DOMAIN r.outbox : After(queue[m], r.outbox[n])

Becomes(i, r) ==
  work' \in [Ids -> Record] /\ work'[i] = r /\ \A j \in Ids : j # i => work'[j] = work[j]

\* The next thing of a worker puts its events behind those under way.
LEMMA NextThing ==
  ASSUME WorkTyped, Ordered, Ending, NEW i \in Ids, Outbox(i) = <<>>, ~closed,
         NEW r, Sensible(i, r), Becomes(i, r),
         UNCHANGED <<effect, queue, closed, flow>>
  PROVE  /\ WorkTyped' /\ Ordered' /\ Ending'
         /\ work'[i] = r /\ \A j \in Ids : j # i => work'[j] = work[j]
         /\ \A j \in Ids : j # i => Flying(j)' = Flying(j)
         /\ Flying(i)' = Flying(i) \cup {r.outbox[n] : n \in DOMAIN r.outbox}
         /\ Flying(i) = {queue[n] : n \in Queued(i)}
<1>1. work'[i] = r /\ \A j \in Ids : j # i => work'[j] = work[j]
  BY DEF Becomes
<1>2. \A j \in Ids : Queued(j)' = Queued(j)
  BY DEF Queued
<1>3. Outbox(i)' = r.outbox /\ \A j \in Ids : j # i => Outbox(j)' = Outbox(j)
  BY <1>1 DEF Outbox
<1>4. WorkTyped'
  <2>1. work' \in [Ids -> Record]
    BY DEF Becomes
  <2>2. ASSUME NEW j \in Ids
        PROVE  /\ \A n \in DOMAIN Outbox(j)' : Outbox(j)'[n].id = j
               /\ work'[j].at = "idle" => work'[j] = Idle
               /\ work'[j].at # "idle" => work'[j].len \in Lens /\ work'[j].before \in Probed(work'[j].len)
               /\ work'[j].at = "output" => Len(work'[j].after) = Len(work'[j].before)
               /\ work'[j].page <= Len(work'[j].before)
               /\ work'[j].page # 0 => effect = "Populate"
    <3>1. CASE j = i
      BY <3>1, <1>1, <1>3 DEF Sensible
    <3>2. CASE j # i
      BY <3>2, <1>1, <1>3 DEF WorkTyped
    <3> QED
      BY <3>1, <3>2
  <2> QED
    BY <2>1, <2>2 DEF WorkTyped
<1>5. Ordered'
  <2> SUFFICES ASSUME NEW j \in Ids
               PROVE  /\ \A m, n \in Queued(j) : m < n => After(queue[m], queue[n])
                      /\ \A m, n \in DOMAIN Outbox(j)' : m < n => After(Outbox(j)'[m], Outbox(j)'[n])
                      /\ \A m \in Queued(j), n \in DOMAIN Outbox(j)' : After(queue[m], Outbox(j)'[n])
    BY <1>2 DEF Ordered, After
  <2>1. CASE j = i
    BY <2>1, <1>3 DEF Ordered, Sensible
  <2>2. CASE j # i
    BY <2>2, <1>3 DEF Ordered
  <2> QED
    BY <2>1, <2>2
<1>6. Ending'
  BY DEF Ending
<1>7. \A j \in Ids : j # i => Flying(j)' = Flying(j)
  BY <1>2, <1>3 DEF Flying
<1>8. Flying(i) = {queue[n] : n \in Queued(i)}
  BY DEF Flying
<1>9. Flying(i)' = Flying(i) \cup {r.outbox[n] : n \in DOMAIN r.outbox}
  BY <1>2, <1>3, <1>8 DEF Flying
<1> QED
  BY <1>1, <1>4, <1>5, <1>6, <1>7, <1>8, <1>9

-----------------------------------------------------------------------------
(* A sample has a byte for each page, and there are no more than MaxPages. *)
LEMMA SampleOfFile ==
  ASSUME NEW len \in Lens, NEW bytes \in Probed(len)
  PROVE  /\ len \in Nat /\ bytes \in Seq(Nat)
         /\ Len(bytes) = TotalPages(len) /\ Len(bytes) \in 1 .. MaxPages
<1>1. TotalPages(len) = VecLen(len)
  BY DEF TotalPages, VecLen
<1>2. Lens \subseteq Nat /\ Samples \subseteq Seq(Nat) /\ VecLen(len) \in 1 .. MaxPages
  BY ScreenAssumption
<1> QED
  BY <1>1, <1>2 DEF Probed

\* The map made of a sample has its pages, and as many.
LEMMA FilledAreThePages ==
  ASSUME NEW bytes \in Seq(Nat)
  PROVE  /\ Filled(FromResidencyBytes(bytes)) = PagesOf(bytes)
         /\ FromResidencyBytes(bytes) \in Seq(BOOLEAN)
         /\ Len(FromResidencyBytes(bytes)) = Len(bytes)
<1> DEFINE map == FromResidencyBytes(bytes)
<1>1. map \in Seq(BOOLEAN) /\ Len(map) = Len(bytes)
      /\ \A p \in 1 .. Len(bytes) : map[p] <=> bytes[p] # 0
  BY BitsAreTheBytes
<1> HIDE DEF map
<1>2. Filled(map) = {p \in 1 .. Len(bytes) : map[p]}
  BY <1>1 DEF Filled, Pages
<1>3. PagesOf(bytes) = {p \in 1 .. Len(bytes) : bytes[p] # 0}
  BY DEF PagesOf
<1>4. Filled(map) = PagesOf(bytes)
  BY <1>1, <1>2, <1>3
<1> QED
  BY <1>1, <1>4 DEF map

(* A worker that announces its file has not been heard of. *)
LEMMA AnnounceThing ==
  ASSUME Delivered, NEW i \in Ids, Announce(i)
  PROVE  \E r, start :
           /\ Sensible(i, r) /\ Becomes(i, r)
           /\ r.at = "walk" /\ r.page = 0 /\ r.outbox = <<start>>
           /\ start \in StartEvent /\ start.id = i /\ start.total = Len(r.before)
           /\ Len(start.residency) = start.total /\ Filled(start.residency) = PagesOf(r.before)
<1>1. PICK len \in Lens : \E bytes \in Probed(len) :
        work' = [work EXCEPT ![i] = [Idle EXCEPT
                  !.at = "walk", !.len = len, !.before = bytes,
                  !.outbox = <<[kind |-> "start", id |-> i, total |-> TotalPages(len),
                                residency |-> FromResidencyBytes(bytes)]>>]]
  BY DEF Announce
<1>11. PICK bytes \in Probed(len) :
        work' = [work EXCEPT ![i] = [Idle EXCEPT
                  !.at = "walk", !.len = len, !.before = bytes,
                  !.outbox = <<[kind |-> "start", id |-> i, total |-> TotalPages(len),
                                residency |-> FromResidencyBytes(bytes)]>>]]
  BY <1>1
<1> DEFINE start == [kind |-> "start", id |-> i, total |-> TotalPages(len),
                     residency |-> FromResidencyBytes(bytes)]
           r == [Idle EXCEPT !.at = "walk", !.len = len, !.before = bytes, !.outbox = <<start>>]
<1>2. /\ len \in Nat /\ bytes \in Seq(Nat)
      /\ Len(bytes) = TotalPages(len) /\ Len(bytes) \in 1 .. MaxPages
  BY SampleOfFile
<1>3. /\ Filled(FromResidencyBytes(bytes)) = PagesOf(bytes)
      /\ FromResidencyBytes(bytes) \in Seq(BOOLEAN)
      /\ Len(FromResidencyBytes(bytes)) = Len(bytes)
  BY <1>2, FilledAreThePages
<1>4. start \in StartEvent /\ start.id = i /\ start.total = Len(bytes)
      /\ Len(start.residency) = start.total /\ Filled(start.residency) = PagesOf(bytes)
  BY <1>2, <1>3 DEF StartEvent
<1>6. work' = [work EXCEPT ![i] = r]
  BY <1>11
<1>7. Queued(i) = {} /\ Outbox(i) = <<>>
  <2>1. work[i] = Idle /\ work[i].at = "idle"
    BY DEF Announce, Idle
  <2>2. Flying(i) = {}
    BY <2>1 DEF Delivered, Phase
  <2>3. Outbox(i) = <<>>
    BY <2>1 DEF Outbox, Idle
  <2> QED
    BY <2>2, <2>3 DEF Flying
<1> HIDE DEF start
<1>8. start \in FileEvent /\ <<start>> \in Seq(FileEvent)
  BY <1>4 DEF FileEvent
<1>5. /\ r.at = "walk" /\ r.len = len /\ r.before = bytes /\ r.page = 0
      /\ r.outbox = <<start>>
  BY DEF Idle
<1>9. Sensible(i, r)
  <2>1. r \in Record
    <3>1. Idle \in Record
      BY DEF Idle, Record
    <3>2. \A box \in Seq(FileEvent) :
            [Idle EXCEPT !.at = "walk", !.len = len, !.before = bytes, !.outbox = box] \in Record
      BY <3>1, <1>2 DEF Record
    <3> QED
      BY <3>2, <1>8
  <2> HIDE DEF r
  <2>2. r.outbox = <<start>> /\ DOMAIN r.outbox = {1} /\ r.outbox[1] = start
    BY <1>5
  <2>3. \A m, n \in DOMAIN r.outbox : ~ (m < n)
    BY <2>2
  <2>4. /\ r.at # "idle" /\ r.len \in Lens /\ r.before \in Probed(r.len) /\ r.at # "output"
        /\ r.page = 0 /\ r.page <= Len(r.before)
    BY <1>2, <1>5
  <2> QED
    BY <2>1, <2>2, <2>3, <2>4, <1>4, <1>7 DEF Sensible
<1> HIDE DEF r
<1>10. Becomes(i, r)
  BY <1>6, <1>9 DEF Becomes, Sensible, Delivered, WorkTyped
<1> QED
  BY <1>4, <1>5, <1>9, <1>10

(* What a worker does with its file leaves the others as they were. *)
FileMapped(i) == Truthful(i) /\ (StartFlies(i) => Corrected(i, PagesOf(work[i].before)))

RowMapped(n) ==
  LET i == files[n].id
  IN  /\ work[i].at # "idle"
      /\ files[n].total = Len(work[i].before)
      /\ Corrected(i, files[n].residency)
      /\ files[n].done <=> Ended(i)

\* A file whose worker and events are unchanged is mapped as before.
LEMMA SameFile ==
  ASSUME NEW j \in Ids, work'[j] = work[j], effect' = effect, Flying(j)' = Flying(j)
  PROVE  /\ StartFlies(j)' = StartFlies(j)
         /\ Truthful(j)' = Truthful(j) /\ FileMapped(j)' = FileMapped(j)
         /\ \A map : Corrected(j, map)' = Corrected(j, map)
<1>1. Truth(j)' = Truth(j)
  BY DEF Truth
<1>2. Pending(j)' = Pending(j)
  BY DEF Pending
<1>3. StartFlies(j)' = StartFlies(j)
  BY DEF StartFlies
<1>4. Truthful(j)' = Truthful(j)
  BY <1>1, <1>2 DEF Truthful
<1>5. \A map : Corrected(j, map)' = Corrected(j, map)
  BY <1>1, <1>2 DEF Corrected
<1>6. Corrected(j, PagesOf(work[j].before))' = Corrected(j, PagesOf(work[j].before))
  BY <1>1, <1>2 DEF Corrected
<1> QED
  BY <1>3, <1>4, <1>5, <1>6 DEF FileMapped

\* Each row is a record of one of the files.
LEMMA RowsHaveFiles ==
  ASSUME ScreenInv, NEW n \in 1 .. Len(files)
  PROVE  files[n] \in File /\ files[n].id \in Ids
<1>1. files[n] \in File
  BY DEF ScreenInv, IInv, Typed
<1> QED
  BY <1>1 DEF File

\* A worker's step concerns its own file and the rows of that.
LEMMA OneFileMoves ==
  ASSUME ScreenInv, NEW i \in Ids, UNCHANGED <<vars, effect>>,
         WorkTyped', Ordered', Ending',
         \A j \in Ids : j # i => work'[j] = work[j] /\ Flying(j)' = Flying(j),
         Phase(i)', FileMapped(i)', work'[i].at # "idle",
         \A n \in 1 .. Len(files) : files[n].id = i =>
            files[n].total = Len(work'[i].before) /\ Corrected(i, files[n].residency)'
  PROVE  (Delivered /\ Mapped)'
<1>1. UNCHANGED <<files, index, running, finished>> /\ \A j : Ended(j)' = Ended(j)
  BY DEF vars, Ended
<1>2. ASSUME NEW j \in Ids PROVE Phase(j)' /\ FileMapped(j)'
  <2>1. CASE j = i
    BY <2>1
  <2>2. CASE j # i
    <3>1. Phase(j) /\ FileMapped(j)
      BY DEF ScreenInv, Delivered, Mapped, FileMapped
    <3>2. Flying(j)' = Flying(j) /\ work'[j] = work[j]
      BY <2>2
    <3>3. StartFlies(j)' = StartFlies(j) /\ FileMapped(j)' = FileMapped(j)
      BY <3>2, SameFile
    <3> QED
      BY <3>1, <3>2, <3>3, <1>1 DEF Phase
  <2> QED
    BY <2>1, <2>2
<1>3. ASSUME NEW n \in 1 .. Len(files) PROVE RowMapped(n)'
  <2>1. PICK j \in Ids : j = files[n].id /\ j = files'[n].id
    BY <1>1, RowsHaveFiles
  <2>2. RowMapped(n)
    BY DEF ScreenInv, Mapped, RowMapped
  <2>3. CASE j = i
    BY <2>1, <2>2, <2>3, <1>1 DEF RowMapped
  <2>4. CASE j # i
    <3>1. work'[j] = work[j] /\ \A map : Corrected(j, map)' = Corrected(j, map)
      BY <2>4, SameFile
    <3> QED
      BY <2>1, <2>2, <3>1, <1>1 DEF RowMapped
  <2> QED
    BY <2>3, <2>4
<1>4. Delivered'
  BY <1>2 DEF Delivered
<1>5. Mapped'
  BY <1>1, <1>2, <1>3 DEF Mapped, FileMapped, RowMapped
<1> QED
  BY <1>4, <1>5

\* A file is announced.
LEMMA AnnounceKeeps ==
  ASSUME ScreenInv, NEW i \in Ids, Announce(i)
  PROVE  (Delivered /\ Mapped)'
<1>1. PICK r, start :
        /\ Sensible(i, r) /\ Becomes(i, r)
        /\ r.at = "walk" /\ r.page = 0 /\ r.outbox = <<start>>
        /\ start \in StartEvent /\ start.id = i /\ start.total = Len(r.before)
        /\ Len(start.residency) = start.total /\ Filled(start.residency) = PagesOf(r.before)
  BY AnnounceThing DEF ScreenInv
<1>2. /\ work[i] = Idle /\ work[i].at = "idle" /\ Outbox(i) = <<>> /\ ~closed
      /\ UNCHANGED <<vars, effect, queue, closed, flow>>
  BY DEF Announce, Idle, Outbox
<1>3. /\ WorkTyped' /\ Ordered' /\ Ending'
      /\ work'[i] = r /\ \A j \in Ids : j # i => work'[j] = work[j]
      /\ \A j \in Ids : j # i => Flying(j)' = Flying(j)
      /\ Flying(i)' = Flying(i) \cup {r.outbox[n] : n \in DOMAIN r.outbox}
  BY <1>1, <1>2, NextThing DEF ScreenInv, Delivered
<1>4. Flying(i) = {} /\ ~Ended(i) /\ i \notin running
  BY <1>2 DEF ScreenInv, Delivered, Phase
<1>5. Flying(i)' = {start}
  <2>1. DOMAIN r.outbox = {1} /\ r.outbox[1] = start
    BY <1>1
  <2> QED
    BY <2>1, <1>3, <1>4
<1>6. UNCHANGED <<files, index, running, finished>> /\ Ended(i)' = Ended(i)
  BY <1>2 DEF vars, Ended
<1>7. start.kind = "start"
  BY <1>1 DEF StartEvent
<1>8. Phase(i)'
  <2>1. DoneEvent(i) # start
    BY <1>7, EventKinds
  <2>2. StartFlies(i)'
    BY <1>5, <1>7 DEF StartFlies
  <2> QED
    BY <2>1, <2>2, <1>1, <1>3, <1>4, <1>5, <1>6 DEF Phase
<1>9. FileMapped(i)'
  <2>1. Pending(i)' = {}
    BY <1>5, <1>7 DEF Pending
  <2>2. Truth(i)' = PagesOf(r.before)
    <3>1. 1 .. 0 = {}
      OBVIOUS
    <3> QED
      BY <3>1, <1>1, <1>3 DEF Truth
  <2>3. Truthful(i)'
    BY <2>1, <1>1, <1>3, <1>5 DEF Truthful
  <2>4. Corrected(i, PagesOf(work[i].before))'
    BY <2>2, <1>3 DEF Corrected
  <2> QED
    BY <2>3, <2>4 DEF FileMapped
<1>10. \A n \in 1 .. Len(files) : files[n].id # i
  BY <1>2 DEF ScreenInv, Mapped
<1> QED
  BY <1>1, <1>2, <1>3, <1>8, <1>9, <1>10, OneFileMoves

-----------------------------------------------------------------------------
(* A walk reports how far it is. *)
LEMMA ReportThing ==
  ASSUME Delivered, NEW i \in Ids, Report(i)
  PROVE  \E r, e :
           /\ Sensible(i, r) /\ Becomes(i, r)
           /\ r.at = "walk" /\ r.before = work[i].before /\ r.outbox = <<e>>
           /\ r.page \in 1 .. Len(r.before) /\ work[i].page < r.page
           /\ e \in ProgressEvent /\ e.id = i /\ e.offset = 0 /\ e.count = r.page
           /\ e.resident = TRUE
<1>1. PICK p \in Due(i) :
        work' = [work EXCEPT
                  ![i].page = p, ![i].reported = Cardinality(Missing(i, p)),
                  ![i].outbox = <<[kind |-> "progress", id |-> i, offset |-> 0, count |-> p,
                                   resident |-> TRUE]>>]
  BY DEF Report
<1> DEFINE e == [kind |-> "progress", id |-> i, offset |-> 0, count |-> p, resident |-> TRUE]
           touched == Cardinality(Missing(i, p))
           r == work'[i]
<1>2. /\ work \in [Ids -> Record] /\ work[i].at = "walk" /\ Outbox(i) = <<>> /\ effect = "Populate"
      /\ work[i].len \in Lens /\ work[i].before \in Probed(work[i].len)
  BY DEF Delivered, WorkTyped, Report, Between, Outbox
<1>3. /\ work[i].before \in Seq(Nat) /\ Len(work[i].before) = TotalPages(work[i].len)
      /\ Len(work[i].before) \in 1 .. MaxPages /\ MaxPages \in Nat
  BY <1>2, SampleOfFile, TuiAppAssumption
<1>4. p \in 1 .. Len(work[i].before) /\ p > work[i].page /\ p \in Nat
  BY <1>3 DEF Due, Missing
<1>5. touched \in Nat
  <2>1. IsFiniteSet(1 .. p)
    BY <1>4, FS_Interval
  <2>2. IsFiniteSet(Missing(i, p))
    BY <2>1, FS_Subset DEF Missing
  <2> QED
    BY <2>2, FS_CardinalityType
<1> HIDE DEF touched
<1>6. /\ e \in ProgressEvent /\ e.id = i /\ e.offset = 0 /\ e.count = p /\ e.resident = TRUE
      /\ e.kind = "progress"
  BY <1>3, <1>4 DEF ProgressEvent
<1>7. work' = [work EXCEPT ![i].page = p, ![i].reported = touched, ![i].outbox = <<e>>]
  BY <1>1 DEF touched
<1> HIDE DEF e
<1>8. <<e>> \in Seq(FileEvent)
  BY <1>6 DEF FileEvent
<1>9. /\ r.at = "walk" /\ r.before = work[i].before /\ r.outbox = <<e>> /\ r.page = p
      /\ r.len = work[i].len /\ \A j \in Ids : j # i => work'[j] = work[j]
  BY <1>2, <1>7 DEF Record
<1>10. work' \in [Ids -> Record]
  <2>1. PICK box \in Seq(FileEvent) : box = <<e>>
    BY <1>8
  <2>2. [work EXCEPT ![i].page = p, ![i].reported = touched, ![i].outbox = box] \in [Ids -> Record]
    BY <1>2, <1>4, <1>5, ReportRecord
  <2> QED
    BY <2>1, <2>2, <1>7
<1>11. Becomes(i, r)
  BY <1>9, <1>10 DEF Becomes
<1>12. Sensible(i, r)
  <2>1. r \in Record
    BY <1>10
  <2>2. r.outbox = <<e>> /\ DOMAIN r.outbox = {1} /\ r.outbox[1] = e
    BY <1>9
  <2>3. \A m, n \in DOMAIN r.outbox : ~ (m < n)
    BY <2>2
  <2>4. \A m \in Queued(i) : queue[m].kind # "done"
    <3>1. \A m \in Queued(i) : queue[m] \in Flying(i)
      BY DEF Flying
    <3>2. \A m \in Queued(i) : queue[m] \in FileEvent /\ queue[m].id = i
      BY <3>1, QueueOfEvents DEF Delivered
    <3>3. \A m \in Queued(i) : queue[m].kind = "done" => queue[m] = DoneEvent(i)
      BY <3>2, EventKinds
    <3> QED
      BY <3>1, <3>3, <1>2 DEF Delivered, Phase
  <2>5. \A m \in Queued(i) : After(queue[m], e)
    BY <2>4, <1>6 DEF After
  <2> HIDE DEF r
  <2> QED
    BY <2>1, <2>2, <2>3, <2>5, <1>2, <1>4, <1>6, <1>9 DEF Sensible
<1> HIDE DEF r
<1> QED
  BY <1>4, <1>6, <1>9, <1>11, <1>12

(* A worker goes on with the sample that it has. *)
LEMMA SameSampleMoves ==
  ASSUME ScreenInv, NEW i \in Ids, UNCHANGED <<vars, effect>>,
         WorkTyped', Ordered', Ending',
         \A j \in Ids : j # i => work'[j] = work[j] /\ Flying(j)' = Flying(j),
         work'[i].at # "idle", work'[i].before = work[i].before,
         StartFlies(i)' = StartFlies(i), Phase(i)', Truthful(i)',
         \A map : Corrected(i, map) => Corrected(i, map)'
  PROVE  (Delivered /\ Mapped)'
<1>1. FileMapped(i)'
  <2>1. ASSUME StartFlies(i)' PROVE Corrected(i, PagesOf(work[i].before))'
    <3>1. Corrected(i, PagesOf(work[i].before))
      BY <2>1 DEF ScreenInv, Mapped
    <3>2. PICK map : map = PagesOf(work[i].before) /\ map = PagesOf(work'[i].before)
      OBVIOUS
    <3>3. Corrected(i, map)'
      BY <3>1, <3>2
    <3> QED
      BY <3>2, <3>3
  <2> QED
    BY <2>1 DEF FileMapped
<1>2. ASSUME NEW n \in 1 .. Len(files), files[n].id = i
      PROVE  files[n].total = Len(work'[i].before) /\ Corrected(i, files[n].residency)'
  <2>1. files[n].total = Len(work[i].before) /\ Corrected(i, files[n].residency)
    BY <1>2 DEF ScreenInv, Mapped
  <2>2. PICK map : map = files[n].residency /\ map = files'[n].residency
    BY DEF vars
  <2>3. Corrected(i, map)'
    BY <2>1, <2>2
  <2> QED
    BY <2>1, <2>2, <2>3
<1> QED
  BY <1>1, <1>2, OneFileMoves

\* A walk reports its progress.
LEMMA ReportKeeps ==
  ASSUME ScreenInv, NEW i \in Ids, Report(i)
  PROVE  (Delivered /\ Mapped)'
<1>1. PICK r, e :
        /\ Sensible(i, r) /\ Becomes(i, r)
        /\ r.at = "walk" /\ r.before = work[i].before /\ r.outbox = <<e>>
        /\ r.page \in 1 .. Len(r.before) /\ work[i].page < r.page
        /\ e \in ProgressEvent /\ e.id = i /\ e.offset = 0 /\ e.count = r.page
        /\ e.resident = TRUE
  BY ReportThing DEF ScreenInv
<1>2. /\ work[i].at = "walk" /\ Outbox(i) = <<>> /\ effect = "Populate"
      /\ UNCHANGED <<vars, effect, queue, closed, flow>>
  BY DEF Report, Between, Outbox
<1>3. ~closed
  BY <1>2 DEF ScreenInv, Delivered, Ending, Working
<1>4. /\ WorkTyped' /\ Ordered' /\ Ending'
      /\ work'[i] = r /\ \A j \in Ids : j # i => work'[j] = work[j]
      /\ \A j \in Ids : j # i => Flying(j)' = Flying(j)
      /\ Flying(i)' = Flying(i) \cup {r.outbox[n] : n \in DOMAIN r.outbox}
  BY <1>1, <1>2, <1>3, NextThing DEF ScreenInv, Delivered
<1>5. Flying(i)' = Flying(i) \cup {e}
  <2>1. DOMAIN r.outbox = {1} /\ r.outbox[1] = e
    BY <1>1
  <2> QED
    BY <2>1, <1>4
<1>6. e.kind = "progress"
  BY <1>1 DEF ProgressEvent
<1>7. UNCHANGED <<files, index, running, finished>> /\ Ended(i)' = Ended(i)
  BY <1>2 DEF vars, Ended
<1>8. StartFlies(i)' = StartFlies(i)
  BY <1>5, <1>6 DEF StartFlies
<1>9. Phase(i)'
  <2>1. DoneEvent(i) # e
    BY <1>6, EventKinds
  <2>2. Phase(i)
    BY DEF ScreenInv, Delivered
  <2> QED
    BY <2>1, <2>2, <1>1, <1>2, <1>4, <1>5, <1>7, <1>8 DEF Phase
<1>10. Pending(i)' = Pending(i) \cup {e}
  BY <1>5, <1>6 DEF Pending
<1>11. /\ Truth(i) = PagesOf(work[i].before) \cup 1 .. work[i].page
       /\ Truth(i)' = PagesOf(work[i].before) \cup 1 .. r.page
  BY <1>1, <1>2, <1>4 DEF Truth
<1>12. work[i].page \in Nat /\ Len(r.before) \in Nat
  BY <1>1 DEF ScreenInv, Delivered, WorkTyped, Record, Sensible
<1>13. Truth(i) \subseteq Truth(i)' /\ 1 .. r.page \subseteq Truth(i)'
       /\ \A p : p \in Truth(i)' => p \in Truth(i) \/ p \in 1 .. r.page
  BY <1>1, <1>11, <1>12
<1>14. Covered(e) = 1 .. r.page /\ e.offset + e.count = r.page
  BY <1>1, <1>12 DEF Covered
<1>15. Truthful(i)
  BY DEF ScreenInv, Mapped
<1>16. Truthful(i)'
  <2>1. ASSUME NEW g \in Pending(i)'
        PROVE  /\ g.offset + g.count <= Len(r.before)
               /\ \A p \in Covered(g) : g.resident <=> p \in Truth(i)'
               /\ g.resident
    <3>1. CASE g = e
      BY <3>1, <1>1, <1>12, <1>13, <1>14
    <3>2. CASE g # e
      <4>1. /\ g.offset + g.count <= Len(work[i].before)
            /\ \A p \in Covered(g) : g.resident <=> p \in Truth(i)
            /\ g.resident
        BY <3>2, <2>1, <1>2, <1>10, <1>15 DEF Truthful
      <4> QED
        BY <4>1, <1>1, <1>13
    <3> QED
      BY <3>1, <3>2
  <2>2. \A g \in Flying(i)' : g.kind = "start" =>
          /\ g.total = Len(r.before) /\ Len(g.residency) = g.total
          /\ Filled(g.residency) = PagesOf(r.before)
    BY <1>1, <1>5, <1>6, <1>15 DEF Truthful
  <2> QED
    BY <2>1, <2>2, <1>2, <1>4 DEF Truthful
<1>17. ASSUME NEW map, Corrected(i, map)
       PROVE  Corrected(i, map)'
  <2>1. ASSUME NEW p \in 1 .. Len(r.before)
        PROVE  (p \in map <=> p \in Truth(i)') \/ \E g \in Pending(i)' : p \in Covered(g)
    <3>1. CASE p \in 1 .. r.page
      BY <3>1, <1>10, <1>14
    <3>2. CASE p \notin 1 .. r.page
      <4>1. (p \in map <=> p \in Truth(i)) \/ \E g \in Pending(i) : p \in Covered(g)
        BY <1>1, <1>17 DEF Corrected
      <4> QED
        BY <4>1, <3>2, <1>10, <1>13
    <3> QED
      BY <3>1, <3>2
  <2> QED
    BY <2>1, <1>1, <1>2, <1>4, <1>17 DEF Corrected
<1> QED
  BY <1>1, <1>2, <1>4, <1>8, <1>9, <1>16, <1>17, SameSampleMoves

-----------------------------------------------------------------------------
(* The events in which a map is sent tell what it is, page by page. *)
LEMMA EventsTellTheMap ==
  ASSUME NEW i \in Ids, NEW map \in Seq(BOOLEAN), Len(map) \in 1 .. MaxPages,
         NEW events, events = ResidencyEvents(i, map)
  PROVE  /\ events \in Seq(ProgressEvent)
         /\ \A n \in 1 .. Len(events) :
              /\ events[n].id = i /\ events[n].offset + events[n].count <= Len(map)
              /\ \A p \in Covered(events[n]) : events[n].resident <=> map[p]
              /\ effect # "Preserve"
         /\ effect # "Preserve" =>
              \A p \in 1 .. Len(map) : \E n \in 1 .. Len(events) : p \in Covered(events[n])
<1>1. MaxPages \in Nat /\ Len(map) \in Nat
  BY TuiAppAssumption
<1>2. CASE effect = "Preserve"
  <2>1. events = <<>>
    BY <1>2 DEF ResidencyEvents
  <2> QED
    BY <2>1, <1>2
<1>3. CASE effect # "Preserve"
  <2>1. PICK runs : runs = Runs(map)
    OBVIOUS
  <2>2. runs \in Seq([offset : Nat, count : Nat \ {0}, resident : BOOLEAN])
    BY <2>1, RunsAreTheMap
  <2>3. \A n \in 1 .. Len(runs) :
          /\ runs[n].offset + runs[n].count <= Len(map)
          /\ \A p \in runs[n].offset + 1 .. runs[n].offset + runs[n].count :
               map[p] <=> runs[n].resident
    BY <2>1, RunsAreTheMap
  <2>4. \A p \in 1 .. Len(map) : \E n \in 1 .. Len(runs) :
          p \in runs[n].offset + 1 .. runs[n].offset + runs[n].count
    BY <2>1, RunsAreTheMap
  <2>5. DOMAIN runs = 1 .. Len(runs) /\ Len(runs) \in Nat
    BY <2>2
  <2>6. events = [n \in 1 .. Len(runs) |->
                   [kind |-> "progress", id |-> i, offset |-> runs[n].offset,
                    count |-> runs[n].count, resident |-> runs[n].resident]]
    BY <1>3, <2>1, <2>5 DEF ResidencyEvents
  <2>7. ASSUME NEW n \in 1 .. Len(runs)
        PROVE  [kind |-> "progress", id |-> i, offset |-> runs[n].offset,
                count |-> runs[n].count, resident |-> runs[n].resident] \in ProgressEvent
    <3>1. runs[n] \in [offset : Nat, count : Nat \ {0}, resident : BOOLEAN]
      <4> DEFINE Run == [offset : Nat, count : Nat \ {0}, resident : BOOLEAN]
      <4>1. runs \in Seq(Run)
        BY <2>2
      <4> HIDE DEF Run
      <4>2. runs[n] \in Run
        BY <4>1
      <4> QED
        BY <4>2 DEF Run
    <3>2. runs[n].offset \in Nat /\ runs[n].count \in Nat \ {0} /\ runs[n].resident \in BOOLEAN
      BY <3>1
    <3>3. runs[n].offset \in 0 .. MaxPages - 1 /\ runs[n].count \in 1 .. MaxPages
      BY <3>2, <2>3, <1>1
    <3> QED
      BY <3>2, <3>3 DEF ProgressEvent
  <2>8. events \in Seq(ProgressEvent) /\ Len(events) = Len(runs)
    <3>1. events \in [1 .. Len(runs) -> ProgressEvent]
      BY <2>6, <2>7
    <3> QED
      BY <3>1, <2>5, FunctionIsSeq
  <2>9. \A n \in 1 .. Len(runs) :
          /\ events[n].id = i /\ events[n].offset = runs[n].offset
          /\ events[n].count = runs[n].count /\ events[n].resident = runs[n].resident
    BY <2>6
  <2>10. \A n \in 1 .. Len(runs) :
           Covered(events[n]) = runs[n].offset + 1 .. runs[n].offset + runs[n].count
    BY <2>9 DEF Covered
  <2>11. \A p \in 1 .. Len(map) : \E n \in 1 .. Len(events) : p \in Covered(events[n])
    <3> TAKE p \in 1 .. Len(map)
    <3>1. PICK n \in 1 .. Len(runs) : p \in runs[n].offset + 1 .. runs[n].offset + runs[n].count
      BY <2>4
    <3> QED
      BY <3>1, <2>8, <2>10
  <2>12. ASSUME NEW n \in 1 .. Len(events)
         PROVE  /\ events[n].id = i /\ events[n].offset + events[n].count <= Len(map)
                /\ \A p \in Covered(events[n]) : events[n].resident <=> map[p]
    BY <2>3, <2>8, <2>9, <2>10
  <2> QED
    BY <1>3, <2>8, <2>11, <2>12
<1> QED
  BY <1>2, <1>3

(* The map that is sent at the end is that of what the operation left. *)
LEMMA WhatIsLeft ==
  ASSUME Delivered, NEW i \in Ids, work[i].at = "walk", NEW after \in Afterwards(i)
  PROVE  /\ after \in Seq(Nat) /\ Len(after) = Len(work[i].before)
         /\ Len(after) \in 1 .. MaxPages
         /\ MapAfter(after) \in Seq(BOOLEAN) /\ Len(MapAfter(after)) = Len(after)
         /\ \A p \in 1 .. Len(after) : MapAfter(after)[p] <=> p \in PagesOf(after)
         /\ effect = "Populate" => PagesOf(after) = 1 .. Len(after)
         /\ effect = "Preserve" => after = work[i].before
<1>1. work[i].len \in Lens /\ work[i].before \in Probed(work[i].len) /\ effect \in Effects
  BY DEF Delivered, WorkTyped
<1>2. /\ work[i].before \in Seq(Nat) /\ Len(work[i].before) = TotalPages(work[i].len)
      /\ Len(work[i].before) \in 1 .. MaxPages
  BY <1>1, SampleOfFile
<1>3. effect \in {"Preserve", "Populate", "EvictAdvisory"}
  BY <1>1, ScreenAssumption
<1>4. CASE effect = "Populate"
  <2>1. after = [p \in DOMAIN work[i].before |-> 1]
    BY <1>4 DEF Afterwards
  <2>2. DOMAIN work[i].before = 1 .. Len(work[i].before) /\ Len(work[i].before) \in Nat
    BY <1>2
  <2>3. after \in Seq(Nat) /\ Len(after) = Len(work[i].before)
    <3>1. after \in [1 .. Len(work[i].before) -> Nat]
      BY <2>1, <2>2
    <3> QED
      BY <3>1, <2>2, FunctionIsSeq
  <2>4. PagesOf(after) = 1 .. Len(after)
    BY <2>1, <2>2, <2>3 DEF PagesOf
  <2>5. MapAfter(after) = [p \in 1 .. Len(after) |-> TRUE]
    BY <1>4 DEF MapAfter, Repeated
  <2>6. MapAfter(after) \in Seq(BOOLEAN) /\ Len(MapAfter(after)) = Len(after)
    <3>1. MapAfter(after) \in [1 .. Len(after) -> BOOLEAN]
      BY <2>5
    <3> QED
      BY <3>1, <2>2, <2>3, FunctionIsSeq
  <2> QED
    BY <2>3, <2>4, <2>5, <2>6, <1>2, <1>4
<1>5. CASE effect # "Populate"
  <2>1. after \in Seq(Nat) /\ Len(after) = Len(work[i].before)
        /\ (effect = "Preserve" => after = work[i].before)
    <3>1. CASE effect = "Preserve"
      <4>1. after = work[i].before
        BY <3>1 DEF Afterwards
      <4> QED
        BY <4>1, <1>2
    <3>2. CASE effect = "EvictAdvisory"
      <4>1. after \in Probed(work[i].len)
        BY <3>2 DEF Afterwards
      <4> QED
        BY <4>1, <3>2, <1>1, <1>2, SampleOfFile
    <3> QED
      BY <3>1, <3>2, <1>3, <1>5
  <2>2. MapAfter(after) = FromResidencyBytes(after)
    BY <1>5 DEF MapAfter
  <2>3. /\ FromResidencyBytes(after) \in Seq(BOOLEAN) /\ Len(FromResidencyBytes(after)) = Len(after)
        /\ \A p \in 1 .. Len(after) : FromResidencyBytes(after)[p] <=> after[p] # 0
    BY <2>1, BitsAreTheBytes
  <2>4. \A p \in 1 .. Len(after) : p \in PagesOf(after) <=> after[p] # 0
    BY <2>1 DEF PagesOf
  <2> QED
    BY <2>1, <2>2, <2>3, <2>4, <1>2, <1>5
<1> QED
  BY <1>4, <1>5

-----------------------------------------------------------------------------
(* Nothing of a file whose walk goes on is an end. *)
LEMMA NoEndIsQueued ==
  ASSUME Delivered, NEW i \in Ids, work[i].at = "walk", Outbox(i) = <<>>
  PROVE  /\ ~closed
         /\ \A m \in Queued(i) : queue[m].kind # "done"
<1>1. i \in Working
  BY DEF Working
<1>2. \A m \in Queued(i) : queue[m] \in Flying(i)
  BY DEF Flying
<1>3. \A m \in Queued(i) : queue[m] \in FileEvent /\ queue[m].id = i
  BY <1>2, QueueOfEvents DEF Delivered
<1>4. \A m \in Queued(i) : queue[m].kind = "done" => queue[m] = DoneEvent(i)
  BY <1>3, EventKinds
<1> QED
  BY <1>1, <1>2, <1>4 DEF Delivered, Phase, Ending

(* An operation that succeeded, or failed, ends what its worker sends. *)
LEMMA LastThing ==
  ASSUME Delivered, NEW i \in Ids, work[i].at = "walk", Outbox(i) = <<>>,
         NEW r \in Record, r.at \in {"output", "error"}, r.len = work[i].len,
         r.before = work[i].before, r.page = work[i].page,
         r.at = "output" => Len(r.after) = Len(r.before),
         NEW events \in Seq(ProgressEvent),
         \A n \in 1 .. Len(events) : events[n].id = i,
         r.outbox = events \o <<DoneEvent(i)>>
  PROVE  /\ Sensible(i, r)
         /\ {r.outbox[n] : n \in DOMAIN r.outbox}
              = {events[n] : n \in 1 .. Len(events)} \cup {DoneEvent(i)}
<1> DEFINE box == events \o <<DoneEvent(i)>>
           k   == Len(events)
<1>1. /\ \A n \in 1 .. k : events[n] \in ProgressEvent
      /\ k \in Nat /\ DoneEvent(i) \in FileEvent
  BY DEF FileEvent, DoneEvent
<1>2. ProgressEvent \subseteq FileEvent /\ \A e \in ProgressEvent : e.kind = "progress"
  BY DEF FileEvent, ProgressEvent
<1>3. events \in Seq(FileEvent)
  BY <1>2
<1>4. /\ box \in Seq(FileEvent) /\ Len(box) = k + 1 /\ DOMAIN box = 1 .. k + 1
      /\ box[k + 1] = DoneEvent(i) /\ \A n \in 1 .. k : box[n] = events[n]
  BY <1>1, <1>3
<1>5. /\ work[i] \in Record /\ work[i].len \in Lens /\ work[i].before \in Probed(work[i].len)
      /\ work[i].page <= Len(work[i].before) /\ (work[i].page # 0 => effect = "Populate")
  BY DEF Delivered, WorkTyped
<1>6. r.outbox = box
  OBVIOUS
<1> HIDE DEF box
<1>9. DoneEvent(i).id = i /\ DoneEvent(i).kind = "done"
  BY EventKinds
<1>10. \A n \in 1 .. k + 1 : n \in 1 .. k \/ n = k + 1
  BY <1>1
<1>11. \A n \in DOMAIN box : box[n].id = i /\ box[n].kind # "start"
  BY <1>1, <1>2, <1>4, <1>9, <1>10
<1>12. \A m, n \in DOMAIN box : m < n => box[m].kind # "done"
  <2> SUFFICES ASSUME NEW m \in 1 .. k + 1, NEW n \in 1 .. k + 1, m < n
               PROVE  box[m].kind # "done"
    BY <1>4
  <2>1. m \in 1 .. k
    BY <1>1
  <2> QED
    BY <2>1, <1>1, <1>2, <1>4
<1>13. \A m \in Queued(i) : queue[m].kind # "done"
  BY NoEndIsQueued
<1>14. Sensible(i, r)
  BY <1>5, <1>6, <1>11, <1>12, <1>13 DEF Sensible, After
<1>15. {box[n] : n \in DOMAIN box} = {events[n] : n \in 1 .. k} \cup {DoneEvent(i)}
  <2>1. \A n \in 1 .. k : n \in 1 .. k + 1
    BY <1>1
  <2>2. k + 1 \in 1 .. k + 1
    BY <1>1
  <2> HIDE DEF k
  <2> QED
    BY <2>1, <2>2, <1>4, <1>10
<1> QED
  BY <1>6, <1>14, <1>15

(* The display learns of the end; what else it learns is the truth.       *)
LEMMA LastThingKeeps ==
  ASSUME ScreenInv, NEW i \in Ids, work[i].at = "walk", Outbox(i) = <<>>,
         NEW r, Sensible(i, r), Becomes(i, r), r.at \in {"output", "error"},
         r.before = work[i].before, r.page = work[i].page,
         UNCHANGED <<vars, effect, queue, closed, flow>>,
         NEW told \in SUBSET ProgressEvent,
         {r.outbox[n] : n \in DOMAIN r.outbox} = told \cup {DoneEvent(i)},
         \A e \in told :
           /\ e.offset + e.count <= Len(r.before)
           /\ \A p \in Covered(e) : e.resident <=> p \in Truth(i)'
           /\ effect = "Populate" => e.resident
           /\ effect # "Preserve" /\ r.at = "output",
         r.at = "output" /\ effect = "Populate" => PagesOf(r.after) = 1 .. Len(r.before),
         \A p \in 1 .. Len(r.before) :
           (p \in Truth(i)' <=> p \in Truth(i)) \/ \E e \in told : p \in Covered(e)
  PROVE  (Delivered /\ Mapped)'
<1>1. /\ WorkTyped' /\ Ordered' /\ Ending'
      /\ work'[i] = r /\ \A j \in Ids : j # i => work'[j] = work[j]
      /\ \A j \in Ids : j # i => Flying(j)' = Flying(j)
      /\ Flying(i)' = Flying(i) \cup {r.outbox[n] : n \in DOMAIN r.outbox}
  BY NoEndIsQueued, NextThing DEF ScreenInv, Delivered
<1>2. Flying(i)' = Flying(i) \cup told \cup {DoneEvent(i)}
  BY <1>1
<1>3. \A e \in told : e.kind = "progress"
  BY DEF ProgressEvent
<1>4. DoneEvent(i).kind = "done"
  BY EventKinds
<1>5. StartFlies(i)' = StartFlies(i)
  BY <1>2, <1>3, <1>4 DEF StartFlies
<1>6. Pending(i)' = Pending(i) \cup told
  BY <1>2, <1>3, <1>4 DEF Pending
<1>7. UNCHANGED <<files, index, running, finished>> /\ Ended(i)' = Ended(i)
  BY DEF vars, Ended
<1>8. Phase(i)'
  <2>1. Phase(i)
    BY DEF ScreenInv, Delivered
  <2> QED
    BY <2>1, <1>1, <1>2, <1>5, <1>7 DEF Phase
<1>9. Truthful(i)
  BY DEF ScreenInv, Mapped
<1>10. Len(r.before) \in Nat
  BY DEF Sensible, Record
<1>11. ASSUME NEW e \in Pending(i)
       PROVE  \A p \in Covered(e) : e.resident <=> p \in Truth(i)'
  <2>1. /\ e.offset + e.count <= Len(r.before) /\ e.resident /\ effect = "Populate"
        /\ \A p \in Covered(e) : p \in Truth(i)
    BY <1>9 DEF Truthful
  <2>2. CASE r.at = "error"
    <3>1. Truth(i)' = Truth(i)
      BY <2>2, <1>1 DEF Truth
    <3> QED
      BY <2>1, <3>1
  <2>3. CASE r.at = "output"
    <3>1. Truth(i)' = 1 .. Len(r.before)
      BY <2>1, <2>3, <1>1 DEF Truth
    <3>2. Covered(e) \subseteq 1 .. Len(r.before)
      <4>1. e \in ProgressEvent
        <5>1. e \in FileEvent /\ e.kind = "progress"
          BY QueueOfEvents DEF Pending, ScreenInv, Delivered
        <5> QED
          BY <5>1, EventKinds
      <4>2. e.offset \in Nat /\ e.count \in Nat
        BY <4>1, TuiAppAssumption DEF ProgressEvent
      <4> QED
        BY <4>2, <2>1, <1>10 DEF Covered
    <3> QED
      BY <2>1, <3>1, <3>2
  <2> QED
    BY <2>2, <2>3
<1>12. Truthful(i)'
  <2>1. ASSUME NEW e \in Pending(i)'
        PROVE  /\ e.offset + e.count <= Len(r.before)
               /\ \A p \in Covered(e) : e.resident <=> p \in Truth(i)'
               /\ r.at # "output" \/ effect = "Populate" => e.resident /\ effect = "Populate"
               /\ effect # "Preserve"
    <3>1. CASE e \in told
      BY <3>1
    <3>2. CASE e \in Pending(i)
      BY <3>2, <1>9, <1>11 DEF Truthful
    <3> QED
      BY <2>1, <3>1, <3>2, <1>6
  <2>2. \A e \in Flying(i)' : e.kind = "start" =>
          /\ e.total = Len(r.before) /\ Len(e.residency) = e.total
          /\ Filled(e.residency) = PagesOf(r.before)
    BY <1>2, <1>3, <1>4, <1>9 DEF Truthful
  <2> QED
    BY <2>1, <2>2, <1>1 DEF Truthful
<1>13. ASSUME NEW map, Corrected(i, map)
       PROVE  Corrected(i, map)'
  <2>1. ASSUME NEW p \in 1 .. Len(r.before)
        PROVE  (p \in map <=> p \in Truth(i)') \/ \E e \in Pending(i)' : p \in Covered(e)
    <3>1. (p \in map <=> p \in Truth(i)) \/ \E e \in Pending(i) : p \in Covered(e)
      BY <1>13 DEF Corrected
    <3>2. (p \in Truth(i)' <=> p \in Truth(i)) \/ \E e \in told : p \in Covered(e)
      OBVIOUS
    <3> QED
      BY <3>1, <3>2, <1>6
  <2> QED
    BY <2>1, <1>1, <1>13 DEF Corrected
<1> QED
  BY <1>1, <1>5, <1>8, <1>12, <1>13, SameSampleMoves

\* An operation succeeds: its map is sent, then its end.
LEMMA FinishKeeps ==
  ASSUME ScreenInv, NEW i \in Ids, Finish(i)
  PROVE  (Delivered /\ Mapped)'
<1>1. /\ work[i].at = "walk" /\ Outbox(i) = <<>>
      /\ UNCHANGED <<vars, effect, queue, closed, flow>>
  BY DEF Finish, Between, Outbox
<1>2. PICK after \in Afterwards(i) :
        work' = [work EXCEPT
          ![i].at = "output", ![i].after = after,
          ![i].outbox = ResidencyEvents(i, MapAfter(after)) \o <<[kind |-> "done", id |-> i]>>]
  BY DEF Finish
<1>3. /\ after \in Seq(Nat) /\ Len(after) = Len(work[i].before)
      /\ Len(after) \in 1 .. MaxPages
      /\ MapAfter(after) \in Seq(BOOLEAN) /\ Len(MapAfter(after)) = Len(after)
      /\ \A p \in 1 .. Len(after) : MapAfter(after)[p] <=> p \in PagesOf(after)
      /\ effect = "Populate" => PagesOf(after) = 1 .. Len(after)
      /\ effect = "Preserve" => after = work[i].before
  BY <1>1, WhatIsLeft DEF ScreenInv
<1>4. PICK map, events : map = MapAfter(after) /\ events = ResidencyEvents(i, map)
  OBVIOUS
<1>40. /\ map \in Seq(BOOLEAN) /\ Len(map) \in 1 .. MaxPages
       /\ events = ResidencyEvents(i, map)
  BY <1>3, <1>4
<1>5. events \in Seq(ProgressEvent)
  BY ONLY <1>40, EventsTellTheMap, i \in Ids
<1>6. \A n \in 1 .. Len(events) :
        /\ events[n].id = i /\ events[n].offset + events[n].count <= Len(map)
        /\ \A p \in Covered(events[n]) : events[n].resident <=> map[p]
        /\ effect # "Preserve"
  BY ONLY <1>40, EventsTellTheMap, i \in Ids
<1>7. effect # "Preserve" =>
        \A p \in 1 .. Len(map) : \E n \in 1 .. Len(events) : p \in Covered(events[n])
  BY ONLY <1>40, EventsTellTheMap, i \in Ids
<1> DEFINE r    == work'[i]
           told == {events[n] : n \in 1 .. Len(events)}
<1>8. work' \in [Ids -> Record] /\ r.outbox = events \o <<DoneEvent(i)>>
      /\ r.at = "output" /\ r.before = work[i].before /\ r.after = after /\ r.page = work[i].page
      /\ r.len = work[i].len /\ \A j \in Ids : j # i => work'[j] = work[j]
  <2>1. events \o <<DoneEvent(i)>> \in Seq(FileEvent)
    <3>1. events \in Seq(FileEvent)
      BY <1>5 DEF FileEvent
    <3>2. DoneEvent(i) \in FileEvent
      BY DEF DoneEvent, FileEvent
    <3> QED
      BY <3>1, <3>2
  <2>2. work' = [work EXCEPT ![i].at = "output", ![i].after = after,
                             ![i].outbox = events \o <<DoneEvent(i)>>]
    BY <1>2, <1>4 DEF DoneEvent
  <2>3. work \in [Ids -> Record]
    BY DEF ScreenInv, Delivered, WorkTyped
  <2>4. PICK box \in Seq(FileEvent) : box = events \o <<DoneEvent(i)>>
    BY <2>1
  <2>5. [work EXCEPT ![i].at = "output", ![i].after = after, ![i].outbox = box] \in [Ids -> Record]
    BY <1>3, <2>3, FinishRecord
  <2>6. work' \in [Ids -> Record]
    BY <2>2, <2>4, <2>5
  <2> QED
    BY <2>2, <2>3, <2>6 DEF Record
<1>9. Becomes(i, r) /\ r \in Record
  BY <1>8 DEF Becomes
<1> HIDE DEF r
<1>91. Sensible(i, r) /\ {r.outbox[n] : n \in DOMAIN r.outbox} = told \cup {DoneEvent(i)}
  <2>1. \A n \in 1 .. Len(events) : events[n].id = i
    BY <1>6
  <2>2. Sensible(i, r)
    BY <1>1, <1>3, <1>5, <1>8, <1>9, <2>1, LastThing DEF ScreenInv
  <2>3. {r.outbox[n] : n \in DOMAIN r.outbox} = told \cup {DoneEvent(i)}
    BY <1>1, <1>3, <1>5, <1>8, <1>9, <2>1, LastThing, ZenonT(30) DEF ScreenInv
  <2> QED
    BY <2>2, <2>3
<1>10. work'[i] = r
  BY <1>9 DEF Becomes
<1>11. Truth(i)' = PagesOf(after)
  BY <1>8, <1>10 DEF Truth
<1>12. \A e \in told :
         /\ e.offset + e.count <= Len(r.before)
         /\ \A p \in Covered(e) : e.resident <=> p \in Truth(i)'
         /\ effect = "Populate" => e.resident
         /\ effect # "Preserve" /\ r.at = "output"
  <2> SUFFICES ASSUME NEW n \in 1 .. Len(events)
               PROVE  /\ events[n].offset + events[n].count <= Len(r.before)
                      /\ \A p \in Covered(events[n]) : events[n].resident <=> p \in PagesOf(after)
                      /\ effect = "Populate" => events[n].resident
                      /\ effect # "Preserve"
    BY <1>8, <1>11
  <2>1. events[n] \in ProgressEvent
    BY <1>5
  <2>2. events[n].offset \in Nat /\ events[n].count \in Nat /\ events[n].count >= 1
    BY <2>1, TuiAppAssumption DEF ProgressEvent
  <2>3. events[n].offset + events[n].count <= Len(after) /\ Len(after) \in Nat
    BY <1>3, <1>4, <1>6
  <2>4. Covered(events[n]) \subseteq 1 .. Len(after) /\ events[n].offset + 1 \in Covered(events[n])
    BY <2>2, <2>3 DEF Covered
  <2>5. \A p \in Covered(events[n]) : events[n].resident <=> p \in PagesOf(after)
    BY <2>4, <1>3, <1>4, <1>6
  <2>6. effect = "Populate" => events[n].resident
    BY <2>4, <2>5, <1>3
  <2> QED
    BY <2>3, <2>5, <2>6, <1>3, <1>6, <1>8
<1>13. \A p \in 1 .. Len(r.before) :
         (p \in Truth(i)' <=> p \in Truth(i)) \/ \E e \in told : p \in Covered(e)
  <2>1. CASE effect = "Preserve"
    <3>1. work[i].page = 0
      BY <2>1 DEF ScreenInv, Delivered, WorkTyped
    <3>2. 1 .. 0 = {}
      OBVIOUS
    <3>3. Truth(i) = PagesOf(work[i].before)
      BY <3>1, <3>2, <1>1 DEF Truth
    <3> QED
      BY <2>1, <3>3, <1>3, <1>11
  <2>2. CASE effect # "Preserve"
    <3> TAKE p \in 1 .. Len(r.before)
    <3>1. p \in 1 .. Len(map)
      BY <1>3, <1>4, <1>8
    <3>2. PICK n \in 1 .. Len(events) : p \in Covered(events[n])
      BY <2>2, <3>1, <1>7
    <3> QED
      BY <3>2
  <2> QED
    BY <2>1, <2>2
<1>14. told \in SUBSET ProgressEvent
  BY <1>5
<1>15. r.at = "output" /\ effect = "Populate" => PagesOf(r.after) = 1 .. Len(r.before)
  BY <1>3, <1>8
<1> HIDE DEF told
<1> QED
  BY <1>1, <1>8, <1>9, <1>91, <1>12, <1>13, <1>14, <1>15, LastThingKeeps

\* An operation fails: only its end is sent.
LEMMA FailKeeps ==
  ASSUME ScreenInv, NEW i \in Ids, Fail(i)
  PROVE  (Delivered /\ Mapped)'
<1>1. /\ work[i].at = "walk" /\ Outbox(i) = <<>>
      /\ work' = [work EXCEPT ![i].at = "error", ![i].outbox = <<DoneEvent(i)>>]
      /\ UNCHANGED <<vars, effect, queue, closed, flow>>
  BY DEF Fail, Between, Outbox, DoneEvent
<1>2. work \in [Ids -> Record]
  BY DEF ScreenInv, Delivered, WorkTyped
<1>3. PICK none, told : none = <<>> /\ told = {}
  OBVIOUS
<1> DEFINE r == work'[i]
<1>4. /\ work' \in [Ids -> Record] /\ r.outbox = <<DoneEvent(i)>>
      /\ r.at = "error" /\ r.before = work[i].before /\ r.page = work[i].page
      /\ r.len = work[i].len /\ \A j \in Ids : j # i => work'[j] = work[j]
  <2>1. <<DoneEvent(i)>> \in Seq(FileEvent)
    BY DEF DoneEvent, FileEvent
  <2>2. \A box \in Seq(FileEvent) :
          [work EXCEPT ![i].at = "error", ![i].outbox = box] \in [Ids -> Record]
    BY <1>2 DEF Record
  <2>3. work' \in [Ids -> Record]
    BY <1>1, <2>1, <2>2
  <2> QED
    BY <1>1, <1>2, <2>3 DEF Record
<1>5. Becomes(i, r) /\ r \in Record
  BY <1>4 DEF Becomes
<1> HIDE DEF r
<1>6. /\ none \in Seq(ProgressEvent) /\ Len(none) = 0
      /\ \A n \in 1 .. Len(none) : none[n].id = i
      /\ r.outbox = none \o <<DoneEvent(i)>>
  BY <1>3, <1>4
<1>7. Sensible(i, r)
  BY <1>1, <1>4, <1>5, <1>6, LastThing DEF ScreenInv
<1>8. {r.outbox[n] : n \in DOMAIN r.outbox} = told \cup {DoneEvent(i)}
  BY <1>3, <1>4
<1>9. Truth(i)' = Truth(i)
  BY <1>1, <1>4 DEF Truth, r
<1>10. told \in SUBSET ProgressEvent
  BY <1>3
<1>11. \A e \in told :
         /\ e.offset + e.count <= Len(r.before)
         /\ \A p \in Covered(e) : e.resident <=> p \in Truth(i)'
         /\ effect = "Populate" => e.resident
         /\ effect # "Preserve" /\ r.at = "output"
  BY <1>3
<1>12. \A p \in 1 .. Len(r.before) :
         (p \in Truth(i)' <=> p \in Truth(i)) \/ \E e \in told : p \in Covered(e)
  BY <1>9
<1>13. /\ r.at = "output" /\ effect = "Populate" => PagesOf(r.after) = 1 .. Len(r.before)
       /\ r.at \in {"output", "error"} /\ r.before = work[i].before /\ r.page = work[i].page
  BY <1>4
<1> QED
  BY <1>1, <1>5, <1>7, <1>8, <1>10, <1>11, <1>12, <1>13, LastThingKeeps

-----------------------------------------------------------------------------
(* What is in a queue after a send. *)
LEMMA SentIsFlying ==
  ASSUME Delivered, NEW i \in Ids, Send(i)
  PROVE  /\ WorkTyped' /\ Ordered' /\ Ending'
         /\ \A j \in Ids : Flying(j)' = Flying(j)
         /\ \A j \in Ids : /\ work'[j].at = work[j].at /\ work'[j].before = work[j].before
                           /\ work'[j].after = work[j].after /\ work'[j].page = work[j].page
<1> DEFINE box == Outbox(i)
           e   == box[1]
           k   == Len(queue) + 1
<1>1. /\ box # <<>> /\ queue' = Append(queue, Head(box))
      /\ work' = [work EXCEPT ![i].outbox = Tail(@)]
      /\ UNCHANGED <<effect, closed, flow>>
  BY DEF Send, Outbox
<1>2. /\ work \in [Ids -> Record] /\ queue \in Seq({Over} \cup FileEvent) /\ Len(queue) \in Nat
      /\ DOMAIN queue = 1 .. Len(queue)
      /\ box \in Seq(FileEvent) /\ Len(box) \in Nat /\ DOMAIN box = 1 .. Len(box)
  BY QueueOfEvents DEF Delivered, WorkTyped
<1>3. 1 \in DOMAIN box /\ e \in FileEvent /\ Head(box) = e
  BY <1>1, <1>2
<1>4. e.id = i /\ e.kind # "alldone" /\ e.kind \in {"start", "progress", "done"}
  BY <1>3, EventKinds DEF Delivered, WorkTyped, Outbox
<1>5. /\ queue' \in Seq({Over} \cup FileEvent) /\ Len(queue') = k /\ queue'[k] = e
      /\ DOMAIN queue' = 1 .. k /\ \A n \in 1 .. Len(queue) : queue'[n] = queue[n]
  BY <1>1, <1>2, <1>3
<1>6. /\ Tail(box) \in Seq(FileEvent) /\ Len(Tail(box)) = Len(box) - 1
      /\ DOMAIN Tail(box) = 1 .. Len(box) - 1
      /\ \A n \in 1 .. Len(box) - 1 : Tail(box)[n] = box[n + 1]
  BY <1>1, <1>2
<1>7. /\ work'[i].outbox = Tail(box) /\ work' \in [Ids -> Record]
      /\ \A j \in Ids : j # i => work'[j] = work[j]
      /\ \A j \in Ids : /\ work'[j].at = work[j].at /\ work'[j].before = work[j].before
                        /\ work'[j].after = work[j].after /\ work'[j].page = work[j].page
                        /\ work'[j].len = work[j].len
  <2>1. work' = [work EXCEPT ![i].outbox = Tail(box)]
    BY <1>1 DEF Outbox
  <2>2. \A b \in Seq(FileEvent) : [work EXCEPT ![i].outbox = b] \in [Ids -> Record]
    BY <1>2 DEF Record
  <2>3. work' \in [Ids -> Record]
    BY <2>1, <2>2, <1>6
  <2>4. \A j \in Ids : work[j] \in Record
    BY <1>2
  <2> HIDE DEF box
  <2> QED
    BY <1>2, <2>1, <2>3, <2>4 DEF Record
<1>8. Outbox(i)' = Tail(box) /\ \A j \in Ids : j # i => Outbox(j)' = Outbox(j)
  BY <1>7 DEF Outbox
<1>9. /\ Queued(i)' = Queued(i) \cup {k}
      /\ \A j \in Ids : j # i => Queued(j)' = Queued(j)
      /\ \A j \in Ids : Queued(j) \subseteq 1 .. Len(queue)
  <2> HIDE DEF e
  <2>1. \A n \in 1 .. k : n \in 1 .. Len(queue) \/ n = k
    BY <1>2
  <2>2. \A n \in 1 .. Len(queue) : n \in 1 .. k
    BY <1>2
  <2>3. k \in 1 .. k
    BY <1>2
  <2> HIDE DEF k
  <2> QED
    BY <2>1, <2>2, <2>3, <1>2, <1>4, <1>5 DEF Queued
<1> HIDE DEF e, k, box
<1>10. \A n \in 1 .. Len(box) - 1 : n + 1 \in DOMAIN box /\ 1 < n + 1
  BY <1>2
<1>11. /\ \A m, n \in Queued(i) : m < n => After(queue[m], queue[n])
       /\ \A m, n \in DOMAIN box : m < n => After(box[m], box[n])
       /\ \A m \in Queued(i), n \in DOMAIN box : After(queue[m], box[n])
  BY DEF Delivered, Ordered, box
<1>12. ASSUME NEW j \in Ids
       PROVE  /\ \A m, n \in Queued(j)' : m < n => After(queue'[m], queue'[n])
              /\ \A m, n \in DOMAIN Outbox(j)' : m < n => After(Outbox(j)'[m], Outbox(j)'[n])
              /\ \A m \in Queued(j)', n \in DOMAIN Outbox(j)' : After(queue'[m], Outbox(j)'[n])
  <2>1. CASE j = i
    <3>1. ASSUME NEW m \in Queued(i) \cup {k}, NEW n \in Queued(i) \cup {k}, m < n
          PROVE  After(queue'[m], queue'[n])
      <4>1. m \in Queued(i)
        BY <3>1, <1>2, <1>9 DEF k
      <4>2. CASE n = k
        BY <4>1, <4>2, <1>3, <1>5, <1>9, <1>11 DEF e
      <4>3. CASE n \in Queued(i)
        BY <4>1, <4>3, <3>1, <1>5, <1>9, <1>11
      <4> QED
        BY <4>2, <4>3
    <3>2. ASSUME NEW m \in 1 .. Len(box) - 1, NEW n \in 1 .. Len(box) - 1, m < n
          PROVE  After(Tail(box)[m], Tail(box)[n])
      <4>1. m + 1 < n + 1
        BY <3>2, <1>2
      <4> QED
        BY <4>1, <1>6, <1>10, <1>11
    <3>3. ASSUME NEW m \in Queued(i) \cup {k}, NEW n \in 1 .. Len(box) - 1
          PROVE  After(queue'[m], Tail(box)[n])
      <4>1. CASE m = k
        BY <4>1, <1>3, <1>5, <1>6, <1>10, <1>11 DEF e
      <4>2. CASE m \in Queued(i)
        BY <4>2, <1>5, <1>6, <1>9, <1>10, <1>11
      <4> QED
        BY <4>1, <4>2
    <3> QED
      BY <2>1, <3>1, <3>2, <3>3, <1>6, <1>8, <1>9
  <2>2. CASE j # i
    <3>1. Queued(j)' = Queued(j) /\ Outbox(j)' = Outbox(j) /\ Queued(j) \subseteq 1 .. Len(queue)
      BY <2>2, <1>8, <1>9
    <3>2. /\ \A m, n \in Queued(j) : m < n => After(queue[m], queue[n])
          /\ \A m, n \in DOMAIN Outbox(j) : m < n => After(Outbox(j)[m], Outbox(j)[n])
          /\ \A m \in Queued(j), n \in DOMAIN Outbox(j) : After(queue[m], Outbox(j)[n])
      BY DEF Delivered, Ordered
    <3>3. \A m \in Queued(j) : queue'[m] = queue[m]
      BY <3>1, <1>5
    <3> QED
      BY <3>1, <3>2, <3>3
  <2> QED
    BY <2>1, <2>2
<1>13. Ordered'
  BY <1>12 DEF Ordered, After
<1>14. WorkTyped'
  <2>1. ASSUME NEW j \in Ids
        PROVE  /\ \A n \in DOMAIN Outbox(j)' : Outbox(j)'[n].id = j
               /\ work'[j].at = "idle" => work'[j] = Idle
    <3>1. CASE j = i
      <4>1. \A n \in DOMAIN box : box[n].id = i
        BY DEF Delivered, WorkTyped, box
      <4>2. work[i].at # "idle"
        BY <1>1 DEF Delivered, WorkTyped, Idle, box, Outbox
      <4> QED
        BY <3>1, <4>1, <4>2, <1>6, <1>7, <1>8, <1>10
    <3>2. CASE j # i
      BY <3>2, <1>7, <1>8 DEF Delivered, WorkTyped
    <3> QED
      BY <3>1, <3>2
  <2> QED
    BY <2>1, <1>1, <1>5, <1>7 DEF Delivered, WorkTyped, Probed
<1>15. Ending'
  <2>1. ~closed
    <3>1. i \in Working
      BY <1>1 DEF Working, box, Outbox
    <3> QED
      BY <3>1 DEF Delivered, Ending
  <2>2. flow # "done"
    BY <2>1 DEF Delivered, Ending
  <2>3. ASSUME NEW n \in DOMAIN queue' PROVE queue'[n].kind # "alldone"
    <3>1. CASE n = k
      BY <3>1, <1>4, <1>5
    <3>2. CASE n # k
      <4>1. n \in 1 .. Len(queue)
        BY <3>2, <1>2, <1>5 DEF k
      <4> QED
        BY <4>1, <2>1, <1>2, <1>5 DEF Delivered, Ending
    <3> QED
      BY <3>1, <3>2
  <2> QED
    BY <2>1, <2>2, <2>3, <1>1 DEF Ending
<1>16. ASSUME NEW j \in Ids PROVE Flying(j)' = Flying(j)
  <2>1. CASE j = i
    <3>1. {queue'[n] : n \in Queued(i)'} = {queue[n] : n \in Queued(i)} \cup {e}
      BY <1>5, <1>9
    <3>2. {box[n] : n \in DOMAIN box} = {e} \cup {Tail(box)[n] : n \in DOMAIN Tail(box)}
      <4>1. ASSUME NEW n \in DOMAIN box
            PROVE  box[n] = e \/ \E m \in DOMAIN Tail(box) : box[n] = Tail(box)[m]
        <5>1. CASE n = 1
          BY <5>1 DEF e
        <5>2. CASE n # 1
          <6>1. n - 1 \in 1 .. Len(box) - 1 /\ (n - 1) + 1 = n
            BY <5>2, <1>2
          <6> QED
            BY <6>1, <1>6
        <5> QED
          BY <5>1, <5>2
      <4>2. \A m \in DOMAIN Tail(box) : \E n \in DOMAIN box : box[n] = Tail(box)[m]
        BY <1>6, <1>10
      <4> QED
        BY <4>1, <4>2, <1>3 DEF e
    <3>3. Flying(i) = {queue[n] : n \in Queued(i)} \cup {box[n] : n \in DOMAIN box}
      BY DEF Flying, box
    <3>4. Flying(i)' = {queue'[n] : n \in Queued(i)'} \cup {Tail(box)[n] : n \in DOMAIN Tail(box)}
      <4>1. Flying(i)' = {queue'[n] : n \in Queued(i)'} \cup {Outbox(i)'[n] : n \in DOMAIN Outbox(i)'}
        BY DEF Flying
      <4> QED
        BY <4>1, <1>8
    <3> QED
      BY <2>1, <3>1, <3>2, <3>3, <3>4
  <2>2. CASE j # i
    <3>1. \A n \in Queued(j) : queue'[n] = queue[n]
      BY <1>5, <1>9
    <3>2. Queued(j)' = Queued(j) /\ Outbox(j)' = Outbox(j)
      BY <2>2, <1>8, <1>9
    <3> QED
      BY <3>1, <3>2 DEF Flying
  <2> QED
    BY <2>1, <2>2
<1> QED
  BY <1>7, <1>13, <1>14, <1>15, <1>16

\* A step after which the same events are under way, to the same list.
LEMMA QuietKeeps ==
  ASSUME ScreenInv, WorkTyped', Ordered', Ending', UNCHANGED <<vars, effect>>,
         \A j \in Ids : Flying(j)' = Flying(j),
         \A j \in Ids : /\ work'[j].at = work[j].at /\ work'[j].before = work[j].before
                        /\ work'[j].after = work[j].after /\ work'[j].page = work[j].page
  PROVE  (Delivered /\ Mapped)'
<1>1. UNCHANGED <<files, index, running, finished>> /\ \A j : Ended(j)' = Ended(j)
  BY DEF vars, Ended
<1>2. ASSUME NEW j \in Ids
      PROVE  /\ Phase(j)' /\ Truthful(j)'
             /\ StartFlies(j)' => Corrected(j, PagesOf(work[j].before))'
             /\ \A map : Corrected(j, map)' = Corrected(j, map)
  <2>1. StartFlies(j)' = StartFlies(j) /\ Pending(j)' = Pending(j) /\ Truth(j)' = Truth(j)
    BY DEF StartFlies, Pending, Truth
  <2>2. Phase(j) /\ Truthful(j) /\ (StartFlies(j) => Corrected(j, PagesOf(work[j].before)))
    BY DEF ScreenInv, Delivered, Mapped
  <2>3. Phase(j)'
    BY <2>1, <2>2, <1>1 DEF Phase
  <2>4. Truthful(j)'
    BY <2>1, <2>2 DEF Truthful
  <2>5. \A map : Corrected(j, map)' = Corrected(j, map)
    BY <2>1 DEF Corrected
  <2>6. StartFlies(j)' => Corrected(j, PagesOf(work[j].before))'
    BY <2>1, <2>2 DEF Corrected
  <2> QED
    BY <2>3, <2>4, <2>5, <2>6
<1>3. ASSUME NEW n \in 1 .. Len(files) PROVE RowMapped(n)'
  <2>1. PICK j \in Ids : j = files[n].id /\ j = files'[n].id
    BY <1>1, RowsHaveFiles
  <2>2. RowMapped(n)
    BY DEF ScreenInv, Mapped, RowMapped
  <2> QED
    BY <2>1, <2>2, <1>1, <1>2 DEF RowMapped
<1>4. Delivered'
  BY <1>2 DEF Delivered
<1>5. Mapped'
  BY <1>1, <1>2, <1>3 DEF Mapped, RowMapped
<1> QED
  BY <1>4, <1>5

\* An event moves from its worker to the queue.
LEMMA SendKeeps ==
  ASSUME ScreenInv, NEW i \in Ids, Send(i)
  PROVE  (Delivered /\ Mapped)'
<1>1. UNCHANGED <<vars, effect>>
  BY DEF Send
<1> QED
  BY <1>1, SentIsFlying, QuietKeeps DEF ScreenInv

(* The end of all is sent last. *)
LEMMA AllDoneKeeps ==
  ASSUME ScreenInv, AllDone
  PROVE  (Delivered /\ Mapped)'
<1> DEFINE k == Len(queue) + 1
<1>1. /\ Working = {} /\ ~closed /\ closed' = TRUE /\ queue' = Append(queue, Over)
      /\ UNCHANGED <<vars, effect, work, flow>>
  BY DEF AllDone, Over
<1>2. /\ queue \in Seq({Over} \cup FileEvent) /\ Len(queue) \in Nat /\ DOMAIN queue = 1 .. Len(queue)
  BY QueueOfEvents DEF ScreenInv, Delivered, WorkTyped
<1>3. /\ queue' \in Seq({Over} \cup FileEvent) /\ Len(queue') = k /\ queue'[k] = Over
      /\ DOMAIN queue' = 1 .. k /\ \A n \in 1 .. Len(queue) : queue'[n] = queue[n]
  BY <1>1, <1>2
<1>4. \A n \in 1 .. k : n \in 1 .. Len(queue) \/ n = k
  BY <1>2
<1>5. \A n \in 1 .. Len(queue) : n \in 1 .. k
  BY <1>2
<1> HIDE DEF k
<1>6. ASSUME NEW j \in Ids
      PROVE  /\ Queued(j)' = Queued(j) /\ Outbox(j)' = Outbox(j)
             /\ \A n \in Queued(j) : queue'[n] = queue[n]
  <2>1. Queued(j)' = Queued(j)
    BY <1>2, <1>3, <1>4, <1>5, EventKinds DEF Queued
  <2>2. \A n \in Queued(j) : queue'[n] = queue[n]
    BY <1>2, <1>3 DEF Queued
  <2> QED
    BY <2>1, <2>2, <1>1 DEF Outbox
<1>7. \A j \in Ids : Flying(j)' = Flying(j)
  BY <1>6 DEF Flying
<1>8. Ordered'
  <2>1. ASSUME NEW j \in Ids
        PROVE  /\ \A m, n \in Queued(j)' : m < n => After(queue'[m], queue'[n])
               /\ \A m, n \in DOMAIN Outbox(j)' : m < n => After(Outbox(j)'[m], Outbox(j)'[n])
               /\ \A m \in Queued(j)', n \in DOMAIN Outbox(j)' : After(queue'[m], Outbox(j)'[n])
    BY <1>6 DEF ScreenInv, Delivered, Ordered
  <2> QED
    BY <2>1 DEF Ordered, After
<1>9. WorkTyped'
  BY <1>1, <1>3, <1>6 DEF ScreenInv, Delivered, WorkTyped, Probed
<1>10. Ending'
  <2>1. Working' = {}
    BY <1>1 DEF Working
  <2>2. flow # "done"
    BY <1>1 DEF ScreenInv, Delivered, Ending
  <2>3. ASSUME NEW n \in 1 .. k, queue'[n].kind = "alldone" PROVE n = k
    BY <2>3, <1>1, <1>2, <1>3, <1>4 DEF ScreenInv, Delivered, Ending
  <2> QED
    BY <2>1, <2>2, <2>3, <1>1, <1>3 DEF Ending
<1>11. \A j \in Ids : /\ work'[j].at = work[j].at /\ work'[j].before = work[j].before
                      /\ work'[j].after = work[j].after /\ work'[j].page = work[j].page
  BY <1>1
<1> QED
  BY <1>1, <1>7, <1>8, <1>9, <1>10, <1>11, QuietKeeps

-----------------------------------------------------------------------------
(* What is left when the next event is taken: of its file only what may come *)
(* after it, and nothing at all after the end of all.                        *)
LEMMA NextIsHandled ==
  ASSUME Delivered, queue # <<>>, NEW e, e = Head(queue), queue' = Tail(queue),
         UNCHANGED <<effect, work, closed>>,
         flow' = flow \/ (e.kind = "alldone" /\ flow' = "done"), flow = "continue"
  PROVE  /\ e = Over \/ e \in FileEvent
         /\ WorkTyped' /\ Ordered' /\ Ending'
         /\ e = Over => queue = <<e>> /\ closed /\ \A j \in Ids : Flying(j)' = Flying(j)
         /\ e # Over => /\ e.id \in Ids /\ e \in Flying(e.id)
                        /\ Flying(e.id) = Flying(e.id)' \cup {e}
                        /\ \A g \in Flying(e.id)' : After(e, g)
                        /\ \A j \in Ids : j # e.id => Flying(j)' = Flying(j)
<1> DEFINE q == Len(queue)
<1>1. /\ queue \in Seq({Over} \cup FileEvent) /\ q \in Nat /\ DOMAIN queue = 1 .. q
      /\ \A n \in 1 .. q : queue[n] = Over \/ queue[n] \in FileEvent
  BY QueueOfEvents DEF Delivered, WorkTyped
<1>2. q >= 1 /\ e = queue[1] /\ 1 \in 1 .. q
  BY <1>1
<1>3. /\ queue' \in Seq({Over} \cup FileEvent) /\ Len(queue') = q - 1
      /\ DOMAIN queue' = 1 .. q - 1 /\ \A n \in 1 .. q - 1 : queue'[n] = queue[n + 1]
  BY <1>1
<1>4. /\ \A n \in 1 .. q - 1 : n + 1 \in 1 .. q /\ n + 1 > 1
      /\ \A n \in 1 .. q : n # 1 => n - 1 \in 1 .. q - 1 /\ (n - 1) + 1 = n
  BY <1>1
<1> HIDE DEF q
<1>5. e = Over \/ e \in FileEvent
  BY <1>1, <1>2
<1>6. ASSUME NEW j \in Ids
      PROVE  /\ Outbox(j)' = Outbox(j)
             /\ \A n \in Queued(j)' : n \in 1 .. q - 1 /\ n + 1 \in Queued(j)
             /\ \A n \in Queued(j) : n # 1 => n - 1 \in Queued(j)' /\ (n - 1) + 1 = n
             /\ \A n \in Queued(j) : n \in 1 .. q /\ (n = 1 => e # Over /\ e.id = j)
             /\ e # Over /\ e.id = j => 1 \in Queued(j)
  <2>1. Outbox(j)' = Outbox(j)
    BY DEF Outbox
  <2>2. \A n \in Queued(j)' : n \in 1 .. q - 1 /\ n + 1 \in Queued(j)
    BY <1>1, <1>3, <1>4 DEF Queued
  <2>3. \A n \in Queued(j) : n # 1 => n - 1 \in Queued(j)' /\ (n - 1) + 1 = n
    BY <1>1, <1>3, <1>4 DEF Queued
  <2>4. \A n \in Queued(j) : n \in 1 .. q /\ (n = 1 => e # Over /\ e.id = j)
    BY <1>1, <1>2, EventKinds DEF Queued
  <2>5. e # Over /\ e.id = j => 1 \in Queued(j)
    BY <1>1, <1>2, <1>5, EventKinds DEF Queued
  <2> QED
    BY <2>1, <2>2, <2>3, <2>4, <2>5
<1>7. WorkTyped'
  <2>1. \A j \in Ids : Outbox(j)' = Outbox(j)
    BY <1>6
  <2>2. flow' \in {"continue", "done"}
    BY DEF Delivered, WorkTyped
  <2> QED
    BY <2>1, <2>2, <1>3 DEF Delivered, WorkTyped, Probed
<1>8. ASSUME NEW j \in Ids
      PROVE  /\ \A m, n \in Queued(j) : m < n => After(queue[m], queue[n])
             /\ \A m, n \in DOMAIN Outbox(j) : m < n => After(Outbox(j)[m], Outbox(j)[n])
             /\ \A m \in Queued(j), n \in DOMAIN Outbox(j) : After(queue[m], Outbox(j)[n])
  BY DEF Delivered, Ordered
<1>9. ASSUME NEW j \in Ids
      PROVE  /\ \A m, n \in Queued(j)' : m < n => After(queue'[m], queue'[n])
             /\ \A m, n \in DOMAIN Outbox(j)' : m < n => After(Outbox(j)'[m], Outbox(j)'[n])
             /\ \A m \in Queued(j)', n \in DOMAIN Outbox(j)' : After(queue'[m], Outbox(j)'[n])
  <2>1. \A n \in Queued(j)' : n \in 1 .. q - 1 /\ queue'[n] = queue[n + 1] /\ n + 1 \in Queued(j)
    BY <1>3, <1>6
  <2>2. \A m, n \in 1 .. q - 1 : m < n => m + 1 < n + 1
    BY <1>1
  <2>3. \A m, n \in Queued(j)' : m < n => After(queue'[m], queue'[n])
    BY <2>1, <2>2, <1>8
  <2>4. Outbox(j)' = Outbox(j)
    BY <1>6
  <2>5. \A m \in Queued(j)', n \in DOMAIN Outbox(j) : After(queue'[m], Outbox(j)[n])
    BY <2>1, <1>8
  <2>6. \A m, n \in DOMAIN Outbox(j) : m < n => After(Outbox(j)[m], Outbox(j)[n])
    BY <1>8
  <2> QED
    BY <2>3, <2>4, <2>5, <2>6
<1>10. Ordered'
  BY <1>9 DEF Ordered, After
<1>11. e = Over => queue = <<e>> /\ closed /\ q = 1
  <2> SUFFICES ASSUME e = Over PROVE queue = <<e>> /\ closed /\ q = 1
    OBVIOUS
  <2>1. q = 1 /\ closed
    BY <1>1, <1>2, EventKinds DEF Delivered, Ending, q
  <2> QED
    BY <2>1, <1>1, <1>2 DEF q
<1>12. Ending'
  <2>1. Working' = Working
    BY DEF Working
  <2>2. ASSUME NEW n \in 1 .. q - 1, queue'[n].kind = "alldone"
        PROVE  n = q - 1 /\ closed
    <3>1. n + 1 \in 1 .. q /\ queue[n + 1].kind = "alldone"
      BY <2>2, <1>3, <1>4
    <3>2. n + 1 = q /\ closed
      BY <3>1, <1>1 DEF Delivered, Ending, q
    <3> QED
      BY <3>2, <1>1
  <2>3. ASSUME flow' = "done" PROVE closed /\ queue' = <<>>
    <3>1. e = Over
      BY <2>3, <1>5, EventKinds
    <3>2. closed /\ q = 1
      BY <3>1, <1>11
    <3> QED
      BY <3>2, <1>3
  <2> QED
    BY <2>1, <2>2, <2>3, <1>3 DEF Ending, Delivered
<1>13. ASSUME NEW j \in Ids
       PROVE  /\ Flying(j)' \subseteq Flying(j)
              /\ \A g \in Flying(j) : g \in Flying(j)' \/ (g = e /\ e # Over /\ e.id = j)
  <2>1. \A n \in Queued(j)' : \E m \in Queued(j) : queue'[n] = queue[m]
    BY <1>3, <1>6
  <2>2. \A n \in Queued(j) : n # 1 => \E m \in Queued(j)' : queue[n] = queue'[m]
    BY <1>3, <1>6
  <2>3. \A n \in Queued(j) : n = 1 => queue[n] = e /\ e # Over /\ e.id = j
    BY <1>2, <1>6
  <2>4. Flying(j) = {queue[n] : n \in Queued(j)} \cup {Outbox(j)[n] : n \in DOMAIN Outbox(j)}
    BY DEF Flying
  <2>5. Flying(j)' = {queue'[n] : n \in Queued(j)'} \cup {Outbox(j)[n] : n \in DOMAIN Outbox(j)}
    <3>1. Outbox(j)' = Outbox(j)
      BY <1>6
    <3>2. Flying(j)' = {queue'[n] : n \in Queued(j)'} \cup {Outbox(j)'[n] : n \in DOMAIN Outbox(j)'}
      BY DEF Flying
    <3> QED
      BY <3>1, <3>2
  <2> QED
    BY <2>1, <2>2, <2>3, <2>4, <2>5, ZenonT(30)
<1>14. ASSUME e # Over
       PROVE  /\ e.id \in Ids /\ e \in Flying(e.id)
              /\ Flying(e.id) = Flying(e.id)' \cup {e}
              /\ \A g \in Flying(e.id)' : After(e, g)
              /\ \A j \in Ids : j # e.id => Flying(j)' = Flying(j)
  <2>1. PICK i \in Ids : i = e.id
    BY <1>5, <1>14, EventKinds
  <2>2. 1 \in Queued(i)
    BY <2>1, <1>6, <1>14
  <2>3. e \in Flying(i)
    BY <2>2, <1>2 DEF Flying
  <2>4. ASSUME NEW g \in Flying(i)' PROVE After(e, g)
    <3>1. CASE \E n \in Queued(i)' : g = queue'[n]
      <4>1. PICK n \in Queued(i)' : g = queue'[n]
        BY <3>1
      <4>2. n + 1 \in Queued(i) /\ n \in 1 .. q - 1 /\ g = queue[n + 1] /\ 1 < n + 1
        BY <4>1, <1>3, <1>4, <1>6
      <4> QED
        BY <4>2, <2>2, <1>2, <1>8
    <3>2. CASE \E n \in DOMAIN Outbox(i) : g = Outbox(i)[n]
      BY <3>2, <2>2, <1>2, <1>8
    <3>3. Flying(i)' = {queue'[n] : n \in Queued(i)'} \cup {Outbox(i)'[n] : n \in DOMAIN Outbox(i)'}
      BY DEF Flying
    <3> QED
      BY <2>4, <3>1, <3>2, <3>3, <1>6
  <2>5. \A j \in Ids : j # e.id => Flying(j)' = Flying(j)
    BY <1>13
  <2>6. Flying(i) = Flying(i)' \cup {e}
    BY <2>3, <1>13
  <2>7. \A g \in Flying(i)' : After(e, g)
    BY <2>4
  <2> QED
    BY <2>1, <2>3, <2>5, <2>6, <2>7
<1>15. e = Over => \A j \in Ids : Flying(j)' = Flying(j)
  BY <1>13
<1> QED
  BY <1>5, <1>7, <1>10, <1>11, <1>12, <1>14, <1>15

(* An event is handled: other files stay as they are, and so do their rows. *)
LEMMA HandledKeeps ==
  ASSUME ScreenInv, NEW i \in Ids, UNCHANGED <<effect, work>>,
         WorkTyped', Ordered', Ending',
         \A j \in Ids : j # i => /\ Flying(j)' = Flying(j) /\ Ended(j)' = Ended(j)
                                 /\ (j \in running' <=> j \in running),
         Phase(i)', FileMapped(i)',
         \A n \in 1 .. Len(files') :
           \/ files'[n].id = i /\ RowMapped(n)'
           \/ \E m \in 1 .. Len(files) : files'[n] = files[m] /\ files[m].id # i
  PROVE  (Delivered /\ Mapped)'
<1>1. ASSUME NEW j \in Ids PROVE Phase(j)' /\ FileMapped(j)'
  <2>1. CASE j = i
    BY <2>1
  <2>2. CASE j # i
    <3>1. Phase(j) /\ FileMapped(j)
      BY DEF ScreenInv, Delivered, Mapped, FileMapped
    <3>2. Flying(j)' = Flying(j) /\ work'[j] = work[j]
      BY <2>2
    <3>3. StartFlies(j)' = StartFlies(j) /\ FileMapped(j)' = FileMapped(j)
      BY <3>2, SameFile
    <3>4. Ended(j)' = Ended(j) /\ (j \in running' <=> j \in running)
      BY <2>2
    <3>5. Phase(j)'
      BY <3>1, <3>2, <3>3, <3>4 DEF Phase
    <3> QED
      BY <3>1, <3>3, <3>5
  <2> QED
    BY <2>1, <2>2
<1>2. ASSUME NEW n \in 1 .. Len(files') PROVE RowMapped(n)'
  <2>1. CASE files'[n].id = i /\ RowMapped(n)'
    BY <2>1
  <2>2. CASE \E m \in 1 .. Len(files) : files'[n] = files[m] /\ files[m].id # i
    <3>1. PICK m \in 1 .. Len(files) : files'[n] = files[m] /\ files[m].id # i
      BY <2>2
    <3>2. PICK j \in Ids : j = files[m].id
      BY RowsHaveFiles
    <3>3. RowMapped(m)
      BY DEF ScreenInv, Mapped, RowMapped
    <3>4. j = files'[n].id /\ j # i
      BY <3>1, <3>2
    <3>5. work'[j] = work[j] /\ Ended(j)' = Ended(j) /\ \A map : Corrected(j, map)' = Corrected(j, map)
      BY <3>4, SameFile
    <3> QED
      BY <3>1, <3>2, <3>3, <3>4, <3>5 DEF RowMapped
  <2> QED
    BY <2>1, <2>2
<1>3. Delivered'
  BY <1>1 DEF Delivered
<1>4. Mapped'
  BY <1>1, <1>2 DEF Mapped, FileMapped, RowMapped
<1> QED
  BY <1>3, <1>4

(* The start of a file: its row is that of the sample. *)
LEMMA HandleStartKeeps ==
  ASSUME ScreenInv, Handle, NEW e, e = Head(queue), e.kind = "start"
  PROVE  (Delivered /\ Mapped)'
<1>1. /\ queue # <<>> /\ flow = "continue" /\ queue' = Tail(queue)
      /\ UNCHANGED <<effect, work, closed, flow>>
      /\ Start(e.id, e.total, Filled(e.residency))
  BY DEF Handle
<1>2. /\ e = Over \/ e \in FileEvent
      /\ WorkTyped' /\ Ordered' /\ Ending'
      /\ e # Over => /\ e.id \in Ids /\ e \in Flying(e.id)
                     /\ Flying(e.id) = Flying(e.id)' \cup {e}
                     /\ \A g \in Flying(e.id)' : After(e, g)
                     /\ \A j \in Ids : j # e.id => Flying(j)' = Flying(j)
  BY <1>1, NextIsHandled DEF ScreenInv
<1>3. e # Over
  BY EventKinds
<1>4. PICK i \in Ids : i = e.id
  BY <1>2, <1>3
<1>5. /\ e \in Flying(i) /\ Flying(i) = Flying(i)' \cup {e}
      /\ \A g \in Flying(i)' : g.kind # "start"
      /\ \A j \in Ids : j # i => Flying(j)' = Flying(j)
  BY <1>2, <1>3, <1>4 DEF After
<1> DEFINE row == [id |-> i, total |-> e.total, residency |-> Filled(e.residency),
                   resident |-> Cardinality(Filled(e.residency)), done |-> FALSE]
<1>61. PICK k : k = Len(files) + 1
  OBVIOUS
<1>6. /\ i \notin running /\ ~Ended(i) /\ files' = Append(files, row)
      /\ running' = running \cup {i} /\ finished' = finished
  BY <1>1, <1>4 DEF Start, Ended
<1>7. row.id = i /\ row.total = e.total /\ row.residency = Filled(e.residency) /\ ~row.done
  OBVIOUS
<1> HIDE DEF row
<1>8. Len(files) \in Nat /\ files \in Seq(File)
  BY DEF ScreenInv, IInv, Typed
<1>9. /\ Len(files') = k /\ files'[k] = row
      /\ \A n \in 1 .. Len(files) : files'[n] = files[n]
  <2> DEFINE all == Seq(File \cup {row})
  <2>1. files \in all /\ row \in File \cup {row}
    BY <1>8
  <2> QED
    BY <1>6, <1>61, <1>8, <2>1
<1>10. StartFlies(i) /\ ~StartFlies(i)'
  BY <1>5 DEF StartFlies
<1>11. Phase(i) /\ Truthful(i) /\ Corrected(i, PagesOf(work[i].before))
  BY <1>10 DEF ScreenInv, Delivered, Mapped
<1>12. \A j \in Ids : Ended(j)' = Ended(j)
  BY <1>6 DEF Ended
<1>13. work[i].at # "idle"
  BY <1>5, <1>11 DEF Phase
<1>14. Phase(i)'
  <2>1. DoneEvent(i) # e
    BY EventKinds
  <2> QED
    BY <2>1, <1>1, <1>5, <1>6, <1>10, <1>11, <1>12, <1>13 DEF Phase
<1>15. Pending(i)' = Pending(i) /\ Truth(i)' = Truth(i)
  BY <1>1, <1>5 DEF Pending, Truth
<1>16. Truthful(i)'
  BY <1>1, <1>5, <1>11, <1>15 DEF Truthful
<1>17. FileMapped(i)'
  BY <1>10, <1>16 DEF FileMapped
<1>18. RowMapped(k)'
  <2>1. e.total = Len(work[i].before) /\ Filled(e.residency) = PagesOf(work[i].before)
    BY <1>5, <1>11 DEF Truthful
  <2>2. PICK map : map = PagesOf(work[i].before)
    OBVIOUS
  <2>3. Corrected(i, map)'
    BY <2>2, <1>1, <1>11, <1>15 DEF Corrected
  <2>4. files'[k].id = i /\ files'[k].total = Len(work[i].before) /\ ~files'[k].done
        /\ files'[k].residency = map
    BY <2>1, <2>2, <1>7, <1>9
  <2> QED
    BY <2>3, <2>4, <1>1, <1>6, <1>12, <1>13 DEF RowMapped
<1>19. ASSUME NEW n \in 1 .. Len(files')
       PROVE  \/ files'[n].id = i /\ RowMapped(n)'
              \/ \E m \in 1 .. Len(files) : files'[n] = files[m] /\ files[m].id # i
  <2>1. CASE n = k
    <3>1. files'[n].id = i
      BY <2>1, <1>7, <1>9
    <3>2. RowMapped(n)'
      BY <2>1, <1>18
    <3> QED
      BY <3>1, <3>2
  <2>2. CASE n # k
    <3>1. n \in 1 .. Len(files)
      BY <2>2, <1>61, <1>8, <1>9
    <3>2. files[n].id \in DOMAIN index /\ i \notin DOMAIN index
      BY <3>1, <1>6 DEF ScreenInv, IInv, Located, Tracked, Ended
    <3> QED
      BY <3>1, <3>2, <1>9
  <2> QED
    BY <2>1, <2>2
<1> QED
  BY <1>1, <1>2, <1>5, <1>6, <1>12, <1>14, <1>17, <1>19, HandledKeeps

(* Progress of a file: where its pages were not the truth, they are now. *)
LEMMA HandleProgressKeeps ==
  ASSUME ScreenInv, Handle, NEW e, e = Head(queue), e.kind = "progress"
  PROVE  (Delivered /\ Mapped)'
<1>1. /\ queue # <<>> /\ flow = "continue" /\ queue' = Tail(queue)
      /\ UNCHANGED <<effect, work, closed, flow>>
      /\ Progress(e.id, e.offset, e.count, e.resident)
  BY DEF Handle
<1>2. /\ e = Over \/ e \in FileEvent
      /\ WorkTyped' /\ Ordered' /\ Ending'
      /\ e # Over => /\ e.id \in Ids /\ e \in Flying(e.id)
                     /\ Flying(e.id) = Flying(e.id)' \cup {e}
                     /\ \A j \in Ids : j # e.id => Flying(j)' = Flying(j)
  BY <1>1, NextIsHandled DEF ScreenInv
<1>3. e # Over /\ e \in ProgressEvent
  BY <1>2, EventKinds
<1>4. PICK i \in Ids : i = e.id
  BY <1>2, <1>3
<1>5. /\ e \in Flying(i) /\ Flying(i) = Flying(i)' \cup {e}
      /\ \A j \in Ids : j # i => Flying(j)' = Flying(j)
  BY <1>2, <1>3, <1>4
<1>6. Phase(i) /\ Truthful(i)
  BY DEF ScreenInv, Delivered, Mapped
<1>7. e \in Pending(i) /\ Pending(i) = Pending(i)' \cup {e} /\ StartFlies(i)' = StartFlies(i)
  BY <1>5 DEF Pending, StartFlies
<1>8. /\ e.offset + e.count <= Len(work[i].before)
      /\ \A p \in Covered(e) : e.resident <=> p \in Truth(i)
      /\ effect = "Populate" => e.resident
  BY <1>6, <1>7 DEF Truthful
<1>9. PICK n \in 1 .. Len(files) : n = index[i] /\ files[n].id = i
  BY <1>1, <1>4 DEF Progress, ScreenInv, IInv, Located, Tracked
<1>10. RowMapped(n) /\ files[n] \in File /\ files \in Seq(File)
  BY <1>9, RowsHaveFiles DEF ScreenInv, IInv, Typed, Mapped, RowMapped
<1>11. /\ work[i].at # "idle" /\ files[n].total = Len(work[i].before)
       /\ Corrected(i, files[n].residency) /\ (files[n].done <=> Ended(i))
  BY <1>9, <1>10 DEF RowMapped
<1>12. PICK pages : pages = Covered(e)
  OBVIOUS
<1> DEFINE g == Walked(files[n], pages, e.resident)
<1>13. files' = [files EXCEPT ![n] = g] /\ UNCHANGED <<index, running, finished>>
  <2>1. ~(e.offset + e.count > files[n].total)
    <3>1. e.offset \in Nat /\ e.count \in Nat
      BY <1>3, TuiAppAssumption DEF ProgressEvent
    <3>2. files[n].total \in 1 .. MaxPages
      BY <1>10 DEF File
    <3>3. files[n].total \in Nat
      BY <3>2, TuiAppAssumption
    <3> QED
      BY <3>1, <3>3, <1>8, <1>11
  <2> QED
    BY <2>1, <1>1, <1>4, <1>9, <1>12 DEF Progress, Covered
<1>14. /\ g.id = files[n].id /\ g.total = files[n].total /\ g.done = files[n].done
       /\ g.residency = IF e.resident THEN files[n].residency \cup pages
                        ELSE files[n].residency \ pages
  BY <1>10 DEF Walked, File
<1> HIDE DEF g
<1>15. /\ Len(files') = Len(files) /\ files'[n] = g
       /\ \A m \in 1 .. Len(files) : m # n => files'[m] = files[m]
  BY <1>10, <1>13
<1>16. \A j : Ended(j)' = Ended(j)
  BY <1>13 DEF Ended
<1>17. Phase(i)'
  <2>1. DoneEvent(i) # e
    BY EventKinds
  <2>2. DoneEvent(i) \in Flying(i)' <=> DoneEvent(i) \in Flying(i)
    BY <2>1, <1>5
  <2>3. ~Ended(i) /\ (work[i].at # "idle")
    <3>1. work[i].at \in {"idle", "walk", "output", "error"}
      BY DEF ScreenInv, Delivered, WorkTyped, Record
    <3> QED
      BY <3>1, <1>5, <1>6, <1>11 DEF Phase
  <2> QED
    BY <2>2, <2>3, <1>1, <1>6, <1>7, <1>13, <1>16 DEF Phase
<1>18. Truth(i)' = Truth(i)
  BY <1>1 DEF Truth
<1>19. Truthful(i)'
  BY <1>1, <1>5, <1>6, <1>7, <1>18 DEF Truthful
<1>20. ASSUME NEW map, NEW map2, Corrected(i, map),
              \A p : p \in pages => (p \in map2 <=> p \in Truth(i)),
              \A p : p \notin pages => (p \in map2 <=> p \in map)
       PROVE  Corrected(i, map2)'
  <2>1. ASSUME NEW p \in 1 .. Len(work[i].before)
        PROVE  (p \in map2 <=> p \in Truth(i)) \/ \E h \in Pending(i)' : p \in Covered(h)
    <3>1. (p \in map <=> p \in Truth(i)) \/ \E h \in Pending(i) : p \in Covered(h)
      BY <1>20 DEF Corrected
    <3> QED
      BY <3>1, <1>7, <1>12, <1>20
  <2>2. effect = "Populate" => PagesOf(work[i].before) \subseteq map2
    <3> SUFFICES ASSUME effect = "Populate", NEW p \in PagesOf(work[i].before)
                 PROVE  p \in map2
      OBVIOUS
    <3>1. p \in map
      BY <1>20 DEF Corrected
    <3>2. p \in pages => p \in Truth(i)
      BY <1>8, <1>12
    <3> QED
      BY <3>1, <3>2, <1>20
  <2> QED
    BY <2>1, <2>2, <1>1, <1>18 DEF Corrected
<1>21. FileMapped(i)'
  <2>1. ASSUME StartFlies(i)' PROVE FALSE
    <3>1. i \notin running
      BY <2>1, <1>5, <1>6, <1>7, <1>11 DEF Phase
    <3> QED
      BY <3>1, <1>1, <1>4 DEF Progress
  <2> QED
    BY <2>1, <1>19 DEF FileMapped
<1>22. RowMapped(n)'
  <2>1. PICK map, map2 : map = files[n].residency /\ map2 = g.residency
    OBVIOUS
  <2>2. Corrected(i, map2)'
    <3>1. \A p : p \in pages => (p \in map2 <=> p \in Truth(i))
      BY <2>1, <1>8, <1>12, <1>14
    <3>2. \A p : p \notin pages => (p \in map2 <=> p \in map)
      BY <2>1, <1>14
    <3> QED
      BY <2>1, <3>1, <3>2, <1>11, <1>20
  <2>3. files'[n].id = i /\ files'[n].residency = map2 /\ files'[n].total = files[n].total
        /\ files'[n].done = files[n].done
    BY <2>1, <1>9, <1>14, <1>15
  <2> QED
    BY <2>2, <2>3, <1>1, <1>11, <1>16 DEF RowMapped
<1>23. ASSUME NEW m \in 1 .. Len(files')
       PROVE  \/ files'[m].id = i /\ RowMapped(m)'
              \/ \E k \in 1 .. Len(files) : files'[m] = files[k] /\ files[k].id # i
  <2>1. CASE m = n
    BY <2>1, <1>9, <1>14, <1>15, <1>22
  <2>2. CASE m # n
    <3>1. m \in 1 .. Len(files) /\ files'[m] = files[m]
      BY <2>2, <1>15
    <3>2. files[m].id # i
      BY <2>2, <3>1, <1>9 DEF ScreenInv, IInv, Located
    <3> QED
      BY <3>1, <3>2
  <2> QED
    BY <2>1, <2>2
<1> QED
  BY <1>1, <1>2, <1>5, <1>13, <1>16, <1>17, <1>21, <1>23, HandledKeeps

(* The end of a file: its worker has told all, and its row is marked, or goes. *)
LEMMA HandleDoneKeeps ==
  ASSUME ScreenInv, Handle, NEW e, e = Head(queue), e.kind = "done"
  PROVE  (Delivered /\ Mapped)'
<1>1. /\ queue # <<>> /\ flow = "continue" /\ queue' = Tail(queue)
      /\ UNCHANGED <<effect, work, closed, flow>>
      /\ Done(e.id)
  BY DEF Handle
<1>2. /\ e = Over \/ e \in FileEvent
      /\ WorkTyped' /\ Ordered' /\ Ending'
      /\ e # Over => /\ e.id \in Ids /\ e \in Flying(e.id)
                     /\ Flying(e.id) = Flying(e.id)' \cup {e}
                     /\ \A g \in Flying(e.id)' : After(e, g)
                     /\ \A j \in Ids : j # e.id => Flying(j)' = Flying(j)
  BY <1>1, NextIsHandled DEF ScreenInv
<1>3. e # Over /\ e = DoneEvent(e.id)
  BY <1>2, EventKinds
<1>4. PICK i \in Ids : i = e.id
  BY <1>2, <1>3
<1>5. /\ e \in Flying(i) /\ Flying(i)' = {} /\ Flying(i) = {e}
      /\ \A j \in Ids : j # i => Flying(j)' = Flying(j)
  BY <1>2, <1>3, <1>4 DEF After
<1>6. Phase(i)
  BY DEF ScreenInv, Delivered
<1>7. work[i].at \in {"output", "error"}
  <2>1. work[i] \in Record /\ e = DoneEvent(i)
    BY <1>3, <1>4 DEF ScreenInv, Delivered, WorkTyped
  <2> QED
    BY <2>1, <1>5, <1>6 DEF Phase, Record
<1> DEFINE list == [files EXCEPT ![index[i]].done = TRUE]
<1>8. /\ i \in running /\ running' = running \ {i} /\ Trim(list)
      /\ finished' = finished \cup {[id |-> i, total |-> files[index[i]].total]}
  BY <1>1, <1>4 DEF Done
<1>9. PICK n \in 1 .. Len(files) : n = index[i] /\ files[n].id = i
  BY <1>8 DEF ScreenInv, IInv, Located, Tracked
<1>10. /\ list \in Seq(File) /\ Len(list) = Len(files)
       /\ \A m \in 1 .. Len(files) : m # n => list[m] = files[m]
       /\ list[n].id = i /\ list[n].total = files[n].total /\ list[n].done
       /\ list[n].residency = files[n].residency
  <2>1. files \in Seq(File) /\ files[n] \in File
    BY <1>9 DEF ScreenInv, IInv, Typed
  <2> QED
    BY <1>8, <1>9, <2>1, Marked, SMTT(30) DEF ScreenInv, File
<1> HIDE DEF list
<1>11. Ended(i)' /\ \A j \in Ids : j # i => Ended(j)' = Ended(j)
  <2>1. PICK f : f.id = i /\ finished' = finished \cup {f}
    <3>1. [id |-> i, total |-> files[index[i]].total].id = i
      OBVIOUS
    <3> QED
      BY <3>1, <1>8
  <2> QED
    BY <2>1 DEF Ended
<1>12. StartFlies(i)' = FALSE /\ Pending(i)' = {} /\ Pending(i) = {}
  BY <1>3, <1>5, EventKinds DEF StartFlies, Pending
<1>13. Phase(i)'
  BY <1>1, <1>5, <1>7, <1>8, <1>11 DEF Phase
<1>14. FileMapped(i)'
  BY <1>5, <1>12 DEF FileMapped, Truthful
<1>15. RowMapped(n)
  BY DEF ScreenInv, Mapped, RowMapped
<1>16. Truth(i)' = Truth(i)
  BY <1>1 DEF Truth
<1>17. ASSUME NEW m \in 1 .. Len(files'), files'[m] = list[n]
       PROVE  RowMapped(m)'
  <2>1. PICK map : map = files[n].residency
    OBVIOUS
  <2>2. Corrected(i, map)
    BY <2>1, <1>9, <1>15 DEF RowMapped
  <2>3. Corrected(i, map)'
    BY <2>2, <1>1, <1>12, <1>16 DEF Corrected
  <2>4. files'[m].id = i /\ files'[m].residency = map /\ files'[m].total = files[n].total
        /\ files'[m].done
    BY <2>1, <1>10, <1>17
  <2> QED
    BY <2>3, <2>4, <1>1, <1>9, <1>11, <1>15 DEF RowMapped
<1>18. \A m \in 1 .. Len(files') : \E k \in 1 .. Len(files) : files'[m] = list[k]
  <2>1. CASE files' = list
    BY <2>1, <1>10
  <2>2. CASE \E r \in DoneIn(list) : files' = RemoveAt(list, r)
    <3>1. PICK r \in 1 .. Len(list) : files' = RemoveAt(list, r)
      BY <2>2, <1>10 DEF DoneIn
    <3>2. /\ Len(files') = Len(list) - 1
          /\ \A m \in 1 .. Len(list) - 1 : files'[m] = IF m < r THEN list[m] ELSE list[m + 1]
      BY <3>1, <1>10, Removed
    <3>3. \A m \in 1 .. Len(list) - 1 : m \in 1 .. Len(files) /\ m + 1 \in 1 .. Len(files)
      BY <1>10
    <3> QED
      BY <3>2, <3>3
  <2> QED
    BY <2>1, <2>2, <1>8 DEF Trim
<1>19. ASSUME NEW m \in 1 .. Len(files')
       PROVE  \/ files'[m].id = i /\ RowMapped(m)'
              \/ \E k \in 1 .. Len(files) : files'[m] = files[k] /\ files[k].id # i
  <2>1. PICK k \in 1 .. Len(files) : files'[m] = list[k]
    BY <1>18
  <2>2. CASE k = n
    BY <2>1, <2>2, <1>10, <1>17
  <2>3. CASE k # n
    <3>1. files'[m] = files[k]
      BY <2>1, <2>3, <1>10
    <3>2. files[k].id # i
      BY <2>3, <1>9 DEF ScreenInv, IInv, Located
    <3> QED
      BY <3>1, <3>2
  <2> QED
    BY <2>2, <2>3
<1> QED
  BY <1>1, <1>2, <1>5, <1>8, <1>11, <1>13, <1>14, <1>19, HandledKeeps

(* The end of all changes no file. *)
LEMMA HandleOverKeeps ==
  ASSUME ScreenInv, Handle, Head(queue).kind = "alldone"
  PROVE  (Delivered /\ Mapped)'
<1>1. PICK e : e = Head(queue)
  OBVIOUS
<1>2. /\ queue # <<>> /\ flow = "continue" /\ queue' = Tail(queue)
      /\ UNCHANGED <<vars, effect, work, closed>> /\ flow' = "done" /\ e.kind = "alldone"
  BY <1>1 DEF Handle
<1>3. /\ e = Over \/ e \in FileEvent
      /\ WorkTyped' /\ Ordered' /\ Ending'
      /\ e = Over => \A j \in Ids : Flying(j)' = Flying(j)
  BY <1>1, <1>2, NextIsHandled DEF ScreenInv
<1>4. e = Over
  BY <1>2, <1>3, EventKinds
<1> QED
  BY <1>2, <1>3, <1>4, QuietKeeps

\* An event of any kind is handled.
LEMMA HandleKeeps ==
  ASSUME ScreenInv, Handle
  PROVE  (Delivered /\ Mapped)'
<1>1. PICK e : e = Head(queue)
  OBVIOUS
<1>2. e = Over \/ e \in FileEvent
  <2>1. queue # <<>> /\ queue \in Seq({Over} \cup FileEvent)
    BY DEF Handle, ScreenInv, Delivered, WorkTyped
  <2> QED
    BY <2>1, <1>1
<1>3. e.kind \in {"start", "progress", "done", "alldone"}
  BY <1>2, EventKinds
<1>4. CASE e.kind = "start"
  BY <1>1, <1>4, HandleStartKeeps
<1>5. CASE e.kind = "progress"
  BY <1>1, <1>5, HandleProgressKeeps
<1>6. CASE e.kind = "done"
  BY <1>1, <1>6, HandleDoneKeeps
<1>7. CASE e.kind = "alldone"
  BY <1>1, <1>7, HandleOverKeeps
<1> QED
  BY <1>3, <1>4, <1>5, <1>6, <1>7

-----------------------------------------------------------------------------
(* The display takes every event as TuiApp does: each step is one of its own *)
(* or leaves what it knows alone.                                            *)
LEMMA StepIsOfApp == ScreenInv /\ [ScreenNext]_screenVars => [Next]_vars
<1> SUFFICES ASSUME ScreenInv, [ScreenNext]_screenVars
             PROVE  [Next]_vars
  OBVIOUS
<1>1. CASE UNCHANGED screenVars
  BY <1>1 DEF screenVars
<1>2. CASE \E i \in Ids : Worker(i)
  BY <1>2 DEF Worker, Announce, Add, Report, Finish, Fail, Send
<1>3. CASE AllDone
  BY <1>3 DEF AllDone
<1>4. CASE Finished
  BY <1>4 DEF Finished, screenVars
<1>5. CASE Handle
  <2>1. PICK e : e = Head(queue)
    OBVIOUS
  <2>2. queue # <<>> /\ queue \in Seq({Over} \cup FileEvent)
    BY <1>5 DEF Handle, ScreenInv, Delivered, WorkTyped
  <2>3. e = Over \/ e \in FileEvent
    BY <2>1, <2>2
  <2>4. CASE e = Over
    BY <2>1, <2>4, <1>5, EventKinds DEF Handle
  <2>5. CASE e \in FileEvent
    <3>1. PICK i \in Ids : i = e.id
      BY <2>5, EventKinds
    <3>2. e \in Flying(i)
      <4>1. 1 \in DOMAIN queue /\ queue[1] = e
        BY <2>1, <2>2
      <4>2. 1 \in Queued(i)
        BY <4>1, <3>1, <2>5, EventKinds DEF Queued
      <4> QED
        BY <4>1, <4>2 DEF Flying
    <3>3. Truthful(i)
      BY DEF ScreenInv, Mapped
    <3>4. CASE e.kind = "start"
      <4>1. Start(i, e.total, Filled(e.residency))
        BY <1>5, <2>1, <3>1, <3>4 DEF Handle
      <4>2. e.total \in 1 .. MaxPages
        BY <2>5, <3>4, EventKinds DEF StartEvent
      <4>3. Filled(e.residency) \in SUBSET (1 .. e.total)
        BY <3>2, <3>3, <3>4 DEF Truthful, Filled, Pages
      <4> QED
        BY <4>1, <4>2, <4>3 DEF Next
    <3>5. CASE e.kind = "progress"
      <4>1. Progress(i, e.offset, e.count, e.resident)
        BY <1>5, <2>1, <3>1, <3>5 DEF Handle
      <4>2. e.offset \in 0 .. MaxPages - 1 /\ e.count \in 1 .. MaxPages /\ e.resident \in BOOLEAN
        BY <2>5, <3>5, EventKinds DEF ProgressEvent
      <4> QED
        BY <4>1, <4>2 DEF Next
    <3>6. CASE e.kind = "done"
      <4>1. Done(i)
        BY <1>5, <2>1, <3>1, <3>6 DEF Handle
      <4> QED
        BY <4>1 DEF Next
    <3> QED
      BY <2>5, <3>4, <3>5, <3>6, EventKinds
  <2> QED
    BY <2>3, <2>4, <2>5
<1> QED
  BY <1>1, <1>2, <1>3, <1>4, <1>5 DEF ScreenNext

\* The invariant holds before anything was announced.
LEMMA InitScreenInv == ScreenInit => ScreenInv
<1> SUFFICES ASSUME ScreenInit
             PROVE  ScreenInv
  OBVIOUS
<1>1. IInv
  BY InitIInv DEF ScreenInit
<1>2. /\ effect \in Effects /\ work = [i \in Ids |-> Idle] /\ queue = <<>> /\ closed = FALSE
      /\ flow = "continue" /\ files = <<>> /\ running = {} /\ finished = {}
  BY DEF ScreenInit, Init
<1>3. /\ Idle \in Record /\ Idle.at = "idle" /\ Idle.page = 0 /\ Idle.before = <<>>
      /\ Idle.outbox = <<>>
  BY DEF Idle, Record
<1>4. work \in [Ids -> Record] /\ \A i \in Ids : work[i] = Idle
  BY <1>2, <1>3
<1>5. ASSUME NEW i \in Ids
      PROVE  Queued(i) = {} /\ Outbox(i) = <<>> /\ Flying(i) = {}
  <2>1. Queued(i) = {} /\ Outbox(i) = <<>>
    BY <1>2, <1>3, <1>4 DEF Queued, Outbox
  <2> QED
    BY <2>1 DEF Flying
<1>6. WorkTyped
  <2>1. \A i \in Ids : /\ work[i].at = "idle" /\ work[i].page = 0 /\ Len(work[i].before) = 0
                        /\ DOMAIN Outbox(i) = {}
    BY <1>3, <1>4, <1>5
  <2>2. queue \in Seq({Over} \cup FileEvent)
    BY <1>2
  <2>3. closed \in BOOLEAN /\ flow \in {"continue", "done"} /\ effect \in Effects
    BY <1>2
  <2> QED
    BY <1>4, <2>1, <2>2, <2>3 DEF WorkTyped
<1>7. Ordered
  BY <1>5 DEF Ordered
<1>8. Ending
  BY <1>2 DEF Ending
<1>9. \A i \in Ids : Phase(i)
  BY <1>2, <1>3, <1>4, <1>5 DEF Phase, Ended
<1>10. Mapped
  BY <1>2, <1>5 DEF Mapped, Truthful, Pending, StartFlies
<1> QED
  BY <1>1, <1>6, <1>7, <1>8, <1>9, <1>10 DEF ScreenInv, Delivered

\* Every step of a worker, of the queue and of the display keeps the invariant.
LEMMA NextScreenInv == ScreenInv /\ [ScreenNext]_screenVars => ScreenInv'
<1> SUFFICES ASSUME ScreenInv, [ScreenNext]_screenVars
             PROVE  ScreenInv'
  OBVIOUS
<1>1. IInv'
  BY StepIsOfApp, NextIInv DEF ScreenInv
<1>2. CASE UNCHANGED screenVars \/ Finished \/ \E i \in Ids : Add(i)
  <2>1. UNCHANGED <<vars, effect, work, queue, closed, flow>>
    BY <1>2 DEF screenVars, Finished, Add
  <2>2. \A j \in Ids : Queued(j)' = Queued(j) /\ Outbox(j)' = Outbox(j)
    BY <2>1 DEF Queued, Outbox
  <2>3. \A j \in Ids : Flying(j)' = Flying(j)
    BY <2>1, <2>2 DEF Flying
  <2>4. WorkTyped'
    BY <2>1, <2>2 DEF ScreenInv, Delivered, WorkTyped, Probed
  <2>5. Ordered'
    BY <2>1, <2>2 DEF ScreenInv, Delivered, Ordered, After
  <2>6. Ending'
    BY <2>1 DEF ScreenInv, Delivered, Ending, Working
  <2>7. (Delivered /\ Mapped)'
    BY <2>1, <2>3, <2>4, <2>5, <2>6, QuietKeeps
  <2> QED
    BY <1>1, <2>7 DEF ScreenInv
<1>3. CASE \E i \in Ids : Worker(i)
  BY <1>1, <1>2, <1>3, AnnounceKeeps, ReportKeeps, FinishKeeps, FailKeeps, SendKeeps
     DEF Worker, ScreenInv
<1>4. CASE AllDone
  BY <1>1, <1>4, AllDoneKeeps DEF ScreenInv
<1>5. CASE Handle
  BY <1>1, <1>5, HandleKeeps DEF ScreenInv
<1> QED
  BY <1>2, <1>3, <1>4, <1>5 DEF ScreenNext

\* What is under way, what was told and what the workers did always agree.
LEMMA ScreenInvHolds == ScreenSpec => []ScreenInv
<1> QED
  BY InitScreenInv, NextScreenInv, PTL DEF ScreenSpec

\* What the display does of its own accord in TuiApp is all that it does when it
\* is driven by the workers, the queue and the channel: Screen implements TuiApp,
\* so every theorem about the list holds on the screen.
THEOREM ScreenIsApp == ScreenSpec => Spec
<1>1. ScreenInit => Init
  BY DEF ScreenInit
<1> QED
  BY <1>1, ScreenInvHolds, StepIsOfApp, PTL DEF ScreenSpec, Spec

-----------------------------------------------------------------------------
\* The event that is next meets its file.
LEMMA DeliveredMeets == ScreenInv => EventsMeetTheirFiles
<1> SUFFICES ASSUME ScreenInv, queue # <<>>
             PROVE  LET e == Head(queue)
                    IN  /\ e.kind = "start" => e.id \notin running /\ \A f \in finished : f.id # e.id
                        /\ e.kind \in {"progress", "done"} => e.id \in running
                        /\ e.kind = "alldone" =>
                             running = {} /\ {f.id : f \in finished} = {i \in Ids : work[i].at # "idle"}
  BY DEF EventsMeetTheirFiles
<1>1. PICK e : e = Head(queue)
  OBVIOUS
<1>2. /\ queue \in Seq({Over} \cup FileEvent) /\ 1 \in DOMAIN queue /\ queue[1] = e
      /\ DOMAIN queue = 1 .. Len(queue) /\ Len(queue) \in Nat
  BY <1>1 DEF ScreenInv, Delivered, WorkTyped
<1>3. CASE e \in FileEvent
  <2>1. PICK i \in Ids : i = e.id
    BY <1>3, EventKinds
  <2>2. 1 \in Queued(i)
    BY <1>2, <1>3, <2>1, EventKinds DEF Queued
  <2>3. e \in Flying(i)
    BY <1>2, <2>2 DEF Flying
  <2>4. Phase(i) /\ work[i].at \in {"idle", "walk", "output", "error"}
    BY DEF ScreenInv, Delivered, WorkTyped, Record
  <2>5. ~Ended(i) /\ (i \in running <=> ~StartFlies(i))
    BY <2>3, <2>4 DEF Phase
  <2>6. ASSUME e.kind # "start" PROVE ~StartFlies(i)
    <3>1. ASSUME NEW m \in Queued(i) PROVE queue[m].kind # "start"
      <4>1. m = 1 \/ 1 < m
        BY <1>2 DEF Queued
      <4> QED
        BY <4>1, <1>2, <2>2, <2>6 DEF ScreenInv, Delivered, Ordered, After
    <3>2. \A n \in DOMAIN Outbox(i) : Outbox(i)[n].kind # "start"
      BY <2>2 DEF ScreenInv, Delivered, Ordered, After
    <3> QED
      BY <3>1, <3>2 DEF StartFlies, Flying
  <2>7. StartFlies(i) <=> e.kind = "start"
    BY <2>3, <2>6 DEF StartFlies
  <2>8. e.kind # "alldone"
    BY <1>3, EventKinds
  <2> QED
    BY <1>1, <2>1, <2>5, <2>7, <2>8 DEF Ended
<1>4. CASE e = Over
  <2>1. Len(queue) = 1 /\ closed /\ Working = {}
    BY <1>2, <1>4, EventKinds DEF ScreenInv, Delivered, Ending
  <2>2. ASSUME NEW i \in Ids
        PROVE  i \notin running /\ (Ended(i) <=> work[i].at # "idle")
    <3>1. work[i].at # "walk" /\ Outbox(i) = <<>>
      BY <2>1 DEF Working, Outbox
    <3>2. Queued(i) = {}
      BY <1>2, <1>4, <2>1, EventKinds DEF Queued
    <3>3. Flying(i) = {}
      BY <3>1, <3>2 DEF Flying
    <3>4. Phase(i) /\ work[i].at \in {"idle", "walk", "output", "error"}
      BY DEF ScreenInv, Delivered, WorkTyped, Record
    <3> QED
      BY <3>1, <3>3, <3>4 DEF Phase
  <2>3. running \subseteq Ids /\ \A f \in finished : f.id \in Ids
    BY DEF ScreenInv, IInv, Typed
  <2>4. running = {}
    BY <2>2, <2>3
  <2>5. {f.id : f \in finished} = {i \in Ids : work[i].at # "idle"}
    BY <2>2, <2>3 DEF Ended
  <2> QED
    BY <1>1, <1>4, <2>4, <2>5, EventKinds
<1> QED
  BY <1>2, <1>3, <1>4

\* Through the interleaving of all the workers, the forwarding thread and the
\* bound on the queue, every event finds the list in the state that handle_event
\* takes for granted: the order in which each worker sends is enough.
THEOREM DeliversInOrder == ScreenSpec => []EventsMeetTheirFiles
<1> QED
  BY ScreenInvHolds, DeliveredMeets, PTL

\* A row whose file has nothing under way has the truth.
LEMMA MappedIsTrue == ScreenInv => MapsAreTrue
<1>0. ScreenInv => CountsAgree
  BY DEF ScreenInv, IInv, Typed, Counted, CountsAgree
<1> SUFFICES ASSUME ScreenInv, NEW n \in DOMAIN files
             PROVE  LET f == files[n]
                        w == work[f.id]
                    IN  /\ f.total = Len(w.before)
                        /\ f.done /\ w.at = "output" => f.residency = PagesOf(w.after)
                        /\ f.done /\ w.at = "error" => f.residency = PagesOf(w.before) \cup 1 .. w.page
                        /\ ~f.done /\ effect = "Populate" =>
                             PagesOf(w.before) \subseteq f.residency
  BY <1>0 DEF MapsAreTrue
<1>1. n \in 1 .. Len(files)
  BY DEF ScreenInv, IInv, Typed
<1>2. PICK i \in Ids : i = files[n].id
  BY <1>1, RowsHaveFiles
<1>3. RowMapped(n)
  BY <1>1 DEF ScreenInv, Mapped, RowMapped
<1>4. /\ work[i].at # "idle" /\ files[n].total = Len(work[i].before)
      /\ Corrected(i, files[n].residency) /\ (files[n].done <=> Ended(i))
  BY <1>2, <1>3 DEF RowMapped
<1>5. /\ work[i] \in Record /\ Phase(i) /\ work[i].page <= Len(work[i].before)
      /\ (work[i].at = "output" => Len(work[i].after) = Len(work[i].before))
  BY DEF ScreenInv, Delivered, WorkTyped
<1>6. /\ work[i].before \in Seq(Nat) /\ work[i].after \in Seq(Nat) /\ work[i].page \in Nat
      /\ work[i].at \in {"idle", "walk", "output", "error"}
  BY <1>5 DEF Record
<1>7. files[n].residency \subseteq 1 .. Len(work[i].before)
  BY <1>1, <1>4 DEF ScreenInv, IInv, Counted
<1>8. ASSUME files[n].done
      PROVE  \A p \in 1 .. Len(work[i].before) : p \in files[n].residency <=> p \in Truth(i)
  <2>1. Flying(i) = {}
    BY <1>4, <1>5, <1>6, <1>8 DEF Phase
  <2>2. Pending(i) = {}
    BY <2>1 DEF Pending
  <2> QED
    BY <2>2, <1>4 DEF Corrected
<1>9. ASSUME files[n].done, work[i].at = "output" PROVE files[n].residency = PagesOf(work[i].after)
  <2>1. Truth(i) = PagesOf(work[i].after)
    BY <1>9 DEF Truth
  <2>2. PagesOf(work[i].after) \subseteq 1 .. Len(work[i].before)
    BY <1>5, <1>6, <1>9 DEF PagesOf
  <2> QED
    BY <2>1, <2>2, <1>7, <1>8, <1>9
<1>10. ASSUME files[n].done, work[i].at = "error"
       PROVE  files[n].residency = PagesOf(work[i].before) \cup 1 .. work[i].page
  <2>1. Truth(i) = PagesOf(work[i].before) \cup 1 .. work[i].page
    BY <1>10 DEF Truth
  <2>2. PagesOf(work[i].before) \subseteq 1 .. Len(work[i].before)
    BY <1>6 DEF PagesOf
  <2>3. 1 .. work[i].page \subseteq 1 .. Len(work[i].before)
    BY <1>5, <1>6
  <2> QED
    BY <2>1, <2>2, <2>3, <1>7, <1>8, <1>10
<1>11. effect = "Populate" => PagesOf(work[i].before) \subseteq files[n].residency
  BY <1>4 DEF Corrected
<1> QED
  BY <1>2, <1>4, <1>9, <1>10, <1>11

\* After the packing into words, the runs in which a map is sent, the events of
\* other files between them and the removals from the list, the map of every row
\* is that of its file, and the count beside it is right.
THEOREM ShowsTheMaps == ScreenSpec => []MapsAreTrue
<1> QED
  BY ScreenInvHolds, MappedIsTrue, PTL

-----------------------------------------------------------------------------
(* FoldFunction with addition adds up, in whatever order it chooses: g has *)
(* the sum of every part of D.                                             *)
AnyOf(s) == CHOOSE x \in s : TRUE

Chosen(f, D, g) ==
  g = [s \in SUBSET D |-> IF s = {} THEN 0 ELSE f[AnyOf(s)] + g[s \ {AnyOf(s)}]]

\* SumOf takes a function that has the sums of every part; any such will do.
LEMMA SumIsChosen ==
  ASSUME NEW D, NEW f, D = DOMAIN f
  PROVE  SumOf(f) = (CHOOSE g : Chosen(f, D, g))[D]
BY DEF SumOf, FoldFunction, FoldFunctionOnSet, MapThenFoldSet, Chosen, AnyOf

\* There is one, ...
LEMMA ChosenExists ==
  ASSUME NEW D, IsFiniteSet(D), NEW f \in [D -> Nat]
  PROVE  \E g \in [SUBSET D -> Nat] : Chosen(f, D, g)
<1> DEFINE rhs(g, s) == IF s = {} THEN 0 ELSE f[AnyOf(s)] + g[s \ {AnyOf(s)}]
           P(n) == \E g \in [SUBSET D -> Nat] :
                     \A s \in SUBSET D : Cardinality(s) <= n => g[s] = rhs(g, s)
           S == {n \in Nat : ~P(n)}
<1>1. \A s \in SUBSET D : IsFiniteSet(s) /\ Cardinality(s) \in Nat /\ Cardinality(s) <= Cardinality(D)
  BY FS_Subset, FS_CardinalityType
<1>2. \A s \in SUBSET D : s # {} =>
        /\ AnyOf(s) \in s /\ AnyOf(s) \in D /\ s \ {AnyOf(s)} \in SUBSET D
        /\ f[AnyOf(s)] \in Nat /\ Cardinality(s \ {AnyOf(s)}) = Cardinality(s) - 1
  <2> TAKE s \in SUBSET D
  <2> HAVE s # {}
  <2>1. AnyOf(s) \in s
    BY DEF AnyOf
  <2>2. PICK x : x = AnyOf(s)
    OBVIOUS
  <2>3. Cardinality(s \ {x}) = Cardinality(s) - 1
    BY <1>1, <2>1, <2>2, FS_RemoveElement
  <2> QED
    BY <2>1, <2>2, <2>3
<1>3. P(0)
  <2> DEFINE g == [s \in SUBSET D |-> 0]
  <2>1. \A s \in SUBSET D : Cardinality(s) <= 0 => s = {}
    BY <1>1, FS_EmptySet
  <2>2. g \in [SUBSET D -> Nat]
    OBVIOUS
  <2>3. \A s \in SUBSET D : Cardinality(s) <= 0 => g[s] = rhs(g, s)
    BY <2>1
  <2> HIDE DEF g
  <2> QED
    BY <2>2, <2>3
<1>4. ASSUME NEW n \in Nat, P(n)
      PROVE  P(n + 1)
  <2>1. PICK g \in [SUBSET D -> Nat] : \A s \in SUBSET D : Cardinality(s) <= n => g[s] = rhs(g, s)
    BY <1>4
  <2> DEFINE h == [s \in SUBSET D |-> IF Cardinality(s) <= n THEN g[s] ELSE rhs(g, s)]
  <2>2. \A s \in SUBSET D : rhs(g, s) \in Nat
    <3> TAKE s \in SUBSET D
    <3>1. CASE s = {}
      BY <3>1
    <3>2. CASE s # {}
      <4>1. f[AnyOf(s)] \in Nat /\ g[s \ {AnyOf(s)}] \in Nat
        BY <1>2, <3>2
      <4> QED
        BY <3>2, <4>1
    <3> QED
      BY <3>1, <3>2
  <2>3. h \in [SUBSET D -> Nat]
    BY <2>2
  <2>4. ASSUME NEW s \in SUBSET D, Cardinality(s) <= n + 1
        PROVE  h[s] = rhs(h, s)
    <3>1. h[s] = rhs(g, s)
      BY <2>1
    <3>2. CASE s = {}
      BY <3>1, <3>2
    <3>3. CASE s # {}
      <4>1. PICK t \in SUBSET D : t = s \ {AnyOf(s)}
        BY <1>2, <3>3
      <4>2. Cardinality(t) <= n
        BY <1>1, <1>2, <2>4, <3>3, <4>1
      <4>3. h[t] = g[t]
        BY <4>2
      <4> HIDE DEF h
      <4> QED
        BY <3>1, <3>3, <4>1, <4>3
    <3> QED
      BY <3>2, <3>3
  <2> HIDE DEF h
  <2> QED
    BY <2>3, <2>4
<1> HIDE DEF P
<1>5. S = {}
  <2> SUFFICES ASSUME S # {} PROVE FALSE
    OBVIOUS
  <2>1. PICK n \in S : \A m \in S : n <= m
    BY LeastNumber
  <2>2. n \in Nat /\ ~P(n) /\ n # 0
    BY <2>1, <1>3
  <2>3. n - 1 \in Nat /\ ~(n <= n - 1) /\ (n - 1) + 1 = n
    BY <2>2
  <2>4. P(n - 1)
    BY <2>1, <2>3
  <2>5. \A k \in Nat : P(k) => P(k + 1)
    BY <1>4
  <2>6. P((n - 1) + 1)
    BY <2>3, <2>4, <2>5
  <2> QED
    BY <2>2, <2>3, <2>6
<1>6. P(Cardinality(D))
  BY <1>5, FS_CardinalityType
<1>7. PICK g \in [SUBSET D -> Nat] : \A s \in SUBSET D : g[s] = rhs(g, s)
  BY <1>1, <1>6 DEF P
<1>8. g = [s \in SUBSET D |-> rhs(g, s)]
  BY <1>7
<1> QED
  BY <1>8 DEF Chosen

(* The sums of the parts of D do not depend on the order. *)
Sums(f, D, g) ==
  /\ g \in [SUBSET D -> Nat] /\ g[{}] = 0
  /\ \A s \in SUBSET D : \A x \in s : g[s] = f[x] + g[s \ {x}]

\* ... whatever is chosen has the sums, ...
LEMMA ChosenSums ==
  ASSUME NEW D, IsFiniteSet(D), NEW f \in [D -> Nat],
         NEW g, g \in [SUBSET D -> Nat], Chosen(f, D, g)
  PROVE  Sums(f, D, g)
<1> DEFINE P(s) == \A x \in s : g[s] = f[x] + g[s \ {x}]
           S == {n \in Nat : \E s \in SUBSET D : Cardinality(s) = n /\ ~P(s)}
<1>1. \A s \in SUBSET D : IsFiniteSet(s) /\ Cardinality(s) \in Nat
  BY FS_Subset, FS_CardinalityType
<1>2. g[{}] = 0
  <2>1. {} \in SUBSET D
    OBVIOUS
  <2> QED
    BY <2>1 DEF Chosen
<1>3. ASSUME NEW s \in SUBSET D, s # {}
      PROVE  AnyOf(s) \in s /\ g[s] = f[AnyOf(s)] + g[s \ {AnyOf(s)}]
  BY <1>3 DEF AnyOf, Chosen
<1>4. ASSUME NEW s \in SUBSET D, \A t \in SUBSET D : Cardinality(t) < Cardinality(s) => P(t)
      PROVE  P(s)
  <2> SUFFICES ASSUME NEW x \in s PROVE g[s] = f[x] + g[s \ {x}]
    OBVIOUS
  <2>1. PICK y : y = AnyOf(s)
    OBVIOUS
  <2>2. y \in s /\ g[s] = f[y] + g[s \ {y}]
    BY <1>3, <2>1
  <2>3. CASE x = y
    BY <2>2, <2>3
  <2>4. CASE x # y
    <3>1. PICK sx \in SUBSET D, sy \in SUBSET D, sxy \in SUBSET D :
            sx = s \ {x} /\ sy = s \ {y} /\ sxy = s \ {x, y}
      OBVIOUS
    <3>2. Cardinality(sx) < Cardinality(s) /\ Cardinality(sy) < Cardinality(s)
      <4>1. Cardinality(sx) = Cardinality(s) - 1
        BY <1>1, <3>1, FS_RemoveElement
      <4>2. Cardinality(sy) = Cardinality(s) - 1
        BY <1>1, <2>2, <3>1, FS_RemoveElement
      <4> QED
        BY <4>1, <4>2, <1>1
    <3>3. P(sx) /\ P(sy)
      BY <1>4, <3>2
    <3>4. y \in sx /\ x \in sy /\ sx \ {y} = sxy /\ sy \ {x} = sxy
      BY <2>2, <2>4, <3>1
    <3>5. g[sx] = f[y] + g[sxy] /\ g[sy] = f[x] + g[sxy]
      BY <3>3, <3>4
    <3>6. f[x] \in Nat /\ f[y] \in Nat /\ g[sxy] \in Nat
      BY <2>2
    <3>7. g[s] = f[y] + (f[x] + g[sxy]) /\ g[sx] = f[y] + g[sxy]
      BY <2>2, <3>1, <3>5
    <3> QED
      BY <3>1, <3>6, <3>7
  <2> QED
    BY <2>3, <2>4
<1> HIDE DEF P
<1>5. S = {}
  <2> SUFFICES ASSUME S # {} PROVE FALSE
    OBVIOUS
  <2>1. PICK n \in S : \A m \in S : n <= m
    BY LeastNumber
  <2>2. PICK s \in SUBSET D : Cardinality(s) = n /\ ~P(s)
    BY <2>1
  <2>3. ASSUME NEW t \in SUBSET D, Cardinality(t) < Cardinality(s) PROVE P(t)
    <3>1. Cardinality(t) \in Nat /\ n \in Nat /\ ~(n <= Cardinality(t))
      BY <1>1, <2>2, <2>3
    <3> QED
      BY <2>1, <3>1
  <2> QED
    BY <1>4, <2>2, <2>3
<1>6. \A s \in SUBSET D : P(s)
  BY <1>1, <1>5
<1> QED
  BY <1>2, <1>6 DEF P, Sums

\* ... so that SumOf has the sum of all.
LEMMA SumIsASum ==
  ASSUME NEW D, IsFiniteSet(D), NEW f \in [D -> Nat]
  PROVE  \E g : Sums(f, D, g) /\ SumOf(f) = g[D] /\ g[D] \in Nat
<1>1. PICK g : g = CHOOSE h : Chosen(f, D, h)
  OBVIOUS
<1>2. Chosen(f, D, g)
  BY <1>1, ChosenExists
<1>3. PICK h \in [SUBSET D -> Nat] : Chosen(f, D, h)
  BY ChosenExists
<1>4. g \in [SUBSET D -> Nat]
  <2>1. Sums(f, D, h)
    BY <1>3, ChosenSums
  <2> DEFINE S == {n \in Nat : \E s \in SUBSET D : Cardinality(s) = n /\ g[s] # h[s]}
  <2>2. \A s \in SUBSET D : IsFiniteSet(s) /\ Cardinality(s) \in Nat
    BY FS_Subset, FS_CardinalityType
  <2>3. S = {}
    <3> SUFFICES ASSUME S # {} PROVE FALSE
      OBVIOUS
    <3>1. PICK n \in S : \A m \in S : n <= m
      BY LeastNumber
    <3>2. PICK s \in SUBSET D : Cardinality(s) = n /\ g[s] # h[s]
      BY <3>1
    <3>3. s # {}
      BY <3>2, <1>2, <1>3 DEF Chosen
    <3>4. PICK t \in SUBSET D : t = s \ {AnyOf(s)}
      OBVIOUS
    <3>5. g[t] = h[t]
      <4>1. AnyOf(s) \in s
        BY <3>3 DEF AnyOf
      <4>2. Cardinality(t) = Cardinality(s) - 1
        BY <2>2, <3>4, <4>1, FS_RemoveElement
      <4>3. Cardinality(t) \in Nat /\ n \in Nat /\ ~(n <= Cardinality(t))
        BY <2>2, <3>2, <4>2
      <4> QED
        BY <3>1, <4>3
    <3>6. g[s] = f[AnyOf(s)] + g[t] /\ h[s] = f[AnyOf(s)] + h[t]
      BY <1>2, <1>3, <3>3, <3>4 DEF Chosen
    <3> QED
      BY <3>2, <3>5, <3>6
  <2>4. \A s \in SUBSET D : g[s] = h[s]
    BY <2>2, <2>3
  <2>5. g = [s \in SUBSET D |-> g[s]]
    BY <1>2 DEF Chosen
  <2> QED
    BY <1>3, <2>4, <2>5
<1>5. Sums(f, D, g)
  BY <1>2, <1>4, ChosenSums
<1>6. SumOf(f) = g[D]
  BY <1>1, SumIsChosen
<1>7. D \in SUBSET D
  OBVIOUS
<1> QED
  BY <1>4, <1>5, <1>6, <1>7

(* A sum is that of its terms but one, and this one. *)
LEMMA SumStep ==
  ASSUME NEW D, IsFiniteSet(D), NEW f \in [D -> Nat]
  PROVE  /\ SumOf(f) \in Nat
         /\ D = {} => SumOf(f) = 0
         /\ \A x \in D : SumOf(f) = f[x] + SumOf([y \in D \ {x} |-> f[y]])
<1>1. PICK g : Sums(f, D, g) /\ SumOf(f) = g[D] /\ g[D] \in Nat
  BY SumIsASum
<1>2. D = {} => SumOf(f) = 0
  BY <1>1 DEF Sums
<1>3. ASSUME NEW x \in D
      PROVE  SumOf(f) = f[x] + SumOf([y \in D \ {x} |-> f[y]])
  <2>1. PICK E : E = D \ {x}
    OBVIOUS
  <2>2. PICK e \in [E -> Nat] : e = [y \in E |-> f[y]]
    BY <2>1
  <2>3. IsFiniteSet(E)
    BY <2>1, FS_Subset
  <2>4. PICK h : Sums(e, E, h) /\ SumOf(e) = h[E]
    BY <2>3, SumIsASum
  <2> DEFINE S == {n \in Nat : \E s \in SUBSET E : Cardinality(s) = n /\ g[s] # h[s]}
  <2>5. \A s \in SUBSET E : IsFiniteSet(s) /\ Cardinality(s) \in Nat /\ s \in SUBSET D
    BY <2>1, <2>3, FS_Subset, FS_CardinalityType
  <2>6. S = {}
    <3> SUFFICES ASSUME S # {} PROVE FALSE
      OBVIOUS
    <3>1. PICK n \in S : \A m \in S : n <= m
      BY LeastNumber
    <3>2. PICK s \in SUBSET E : Cardinality(s) = n /\ g[s] # h[s]
      BY <3>1
    <3>3. s # {}
      BY <3>2, <1>1, <2>4 DEF Sums
    <3>4. PICK z \in s : TRUE
      BY <3>3
    <3>5. PICK t \in SUBSET E : t = s \ {z}
      OBVIOUS
    <3>6. g[t] = h[t]
      <4>1. Cardinality(t) = Cardinality(s) - 1
        BY <2>5, <3>5, FS_RemoveElement
      <4>2. Cardinality(t) \in Nat /\ n \in Nat /\ ~(n <= Cardinality(t))
        BY <2>5, <3>2, <4>1
      <4> QED
        BY <3>1, <4>2
    <3>7. g[s] = f[z] + g[t] /\ h[s] = e[z] + h[t] /\ e[z] = f[z]
      BY <1>1, <2>2, <2>4, <2>5, <3>5, ZenonT(30) DEF Sums
    <3> QED
      BY <3>2, <3>6, <3>7
  <2>7. g[E] = h[E]
    <3>1. E \in SUBSET E
      OBVIOUS
    <3> QED
      BY <3>1, <2>5, <2>6
  <2>8. g[D] = f[x] + g[D \ {x}]
    <3>1. D \in SUBSET D
      OBVIOUS
    <3> QED
      BY <3>1, <1>1 DEF Sums
  <2> QED
    BY <1>1, <2>1, <2>2, <2>4, <2>7, <2>8
<1> QED
  BY <1>1, <1>2, <1>3

(* Numbered terms add up to where their steps lead. *)
LEMMA SumOfSteps ==
  ASSUME NEW w \in Nat, NEW f \in [1 .. w -> Nat], NEW F, F[0] = 0,
         \A k \in 1 .. w : F[k] = F[k - 1] + f[k]
  PROVE  SumOf(f) = F[w]
<1> DEFINE part(n) == [k \in 1 .. n |-> f[k]]
           S == {n \in 0 .. w : SumOf(part(n)) # F[n]}
<1>1. ASSUME NEW n \in 0 .. w
      PROVE  part(n) \in [1 .. n -> Nat] /\ IsFiniteSet(1 .. n)
  <2>1. \A k \in 1 .. n : k \in 1 .. w
    OBVIOUS
  <2>2. part(n) \in [1 .. n -> Nat]
    BY <2>1
  <2>3. IsFiniteSet(1 .. n)
    BY FS_Interval
  <2> QED
    BY <2>2, <2>3
<1>2. SumOf(part(0)) = F[0]
  <2>1. 1 .. 0 = {} /\ 0 \in 0 .. w
    OBVIOUS
  <2>2. PICK p : p = part(0)
    OBVIOUS
  <2>3. SumOf(p) = 0
    BY <1>1, <2>1, <2>2, SumStep
  <2> QED
    BY <2>2, <2>3
<1>3. ASSUME NEW n \in 1 .. w, SumOf(part(n - 1)) = F[n - 1]
      PROVE  SumOf(part(n)) = F[n]
  <2>0. n \in 0 .. w /\ n - 1 \in 0 .. w
    OBVIOUS
  <2>1. PICK p \in [1 .. n -> Nat] : p = part(n)
    BY <1>1, <2>0
  <2>2. SumOf(p) = p[n] + SumOf([k \in (1 .. n) \ {n} |-> p[k]])
    <3>1. n \in 1 .. n /\ IsFiniteSet(1 .. n)
      BY <1>1, <2>0
    <3>2. \A x \in 1 .. n : SumOf(p) = p[x] + SumOf([k \in (1 .. n) \ {x} |-> p[k]])
      <4>1. PICK D : D = 1 .. n
        OBVIOUS
      <4>2. \A x \in D : SumOf(p) = p[x] + SumOf([k \in D \ {x} |-> p[k]])
        <5>1. IsFiniteSet(D) /\ p \in [D -> Nat]
          BY <3>1, <4>1
        <5> QED
          BY ONLY <5>1, SumStep
      <4> QED
        BY <4>1, <4>2
    <3> QED
      BY <3>1, <3>2
  <2>3. (1 .. n) \ {n} = 1 .. n - 1
    BY SMTT(30)
  <2>4. [k \in 1 .. n - 1 |-> p[k]] = part(n - 1)
    BY <2>1
  <2>5. p[n] = f[n] /\ f[n] \in Nat
    BY <2>1
  <2>6. SumOf(part(n - 1)) \in Nat
    <3>1. PICK q \in [1 .. n - 1 -> Nat] : q = part(n - 1)
      BY <1>1, <2>0
    <3>2. IsFiniteSet(1 .. n - 1)
      BY <1>1, <2>0
    <3> QED
      BY <3>1, <3>2, SumStep
  <2> HIDE DEF part
  <2>7. SumOf(p) = f[n] + SumOf(part(n - 1))
    BY <2>2, <2>3, <2>4, <2>5
  <2> QED
    BY <1>3, <2>1, <2>5, <2>6, <2>7
<1> HIDE DEF part
<1>4. S = {}
  <2> SUFFICES ASSUME S # {} PROVE FALSE
    OBVIOUS
  <2>0. S \in SUBSET Nat
    OBVIOUS
  <2>1. PICK n \in S : \A m \in S : n <= m
    BY <2>0, LeastNumber
  <2>2. n \in 1 .. w /\ n - 1 \in 0 .. w /\ ~(n <= n - 1)
    BY <1>2, <2>1
  <2>3. SumOf(part(n - 1)) = F[n - 1]
    BY <2>1, <2>2
  <2> QED
    BY <1>3, <2>1, <2>2, <2>3
<1>5. SumOf(part(w)) = F[w]
  BY <1>4
<1>6. part(w) = f
  BY DEF part
<1> QED
  BY <1>5, <1>6

-----------------------------------------------------------------------------
(* The bounds of the buckets: from nothing to everything, none empty, and no *)
(* two differ by more than a page.                                           *)
LEMMA BucketBounds ==
  ASSUME NEW n \in Nat \ {0}, NEW w \in 1 .. n,
         NEW F, F = [i \in 0 .. w |-> (i * n) \div w]
  PROVE  /\ F[0] = 0 /\ F[w] = n /\ \A i \in 0 .. w : F[i] \in 0 .. n
         /\ \A i \in 1 .. w : F[i] - F[i - 1] \in Nat \ {0}
         /\ \A i, j \in 1 .. w : F[i] - F[i - 1] <= F[j] - F[j - 1] + 1
<1>1. w \in Nat \ {0} /\ w <= n
  OBVIOUS
<1>2. ASSUME NEW i \in 0 .. w
      PROVE  F[i] \in Nat /\ F[i] * w <= i * n /\ i * n < F[i] * w + w
  <2>1. PICK q \in Nat : q = i * n
    <3>1. i * n \in Nat
      OBVIOUS
    <3> QED
      BY <3>1
  <2>2. F[i] = q \div w
    BY <2>1
  <2>3. q \div w \in Nat /\ q % w \in 0 .. w - 1 /\ q = (q \div w) * w + (q % w)
    BY <1>1, Divided
  <2>4. PICK d \in Nat, r \in 0 .. w - 1 : d = q \div w /\ r = q % w
    BY <2>3
  <2>5. q = d * w + r /\ d * w \in Nat
    BY <2>3, <2>4
  <2>6. PICK m \in Nat : m = d * w
    BY <2>5
  <2>7. m <= q /\ q < m + w
    BY <1>1, <2>4, <2>5, <2>6
  <2> QED
    BY <2>1, <2>2, <2>4, <2>6, <2>7
<1>3. ASSUME NEW i \in 1 .. w
      PROVE  /\ F[i] - F[i - 1] \in Int
             /\ (F[i] - F[i - 1]) * w > n - w /\ (F[i] - F[i - 1]) * w < n + w
  <2>1. i \in 0 .. w /\ i - 1 \in 0 .. w
    OBVIOUS
  <2>2. PICK a \in Nat, b \in Nat : a = F[i] /\ b = F[i - 1]
    BY <1>2, <2>1
  <2>3. PICK aw \in Nat, bw \in Nat, x \in Nat, y \in Nat :
          aw = a * w /\ bw = b * w /\ x = i * n /\ y = (i - 1) * n
    <3>1. a * w \in Nat /\ b * w \in Nat /\ i * n \in Nat /\ (i - 1) * n \in Nat
      OBVIOUS
    <3> QED
      BY <3>1
  <2>4. aw <= x /\ x < aw + w /\ bw <= y /\ y < bw + w
    BY <1>2, <2>1, <2>2, <2>3
  <2>5. x = y + n
    BY <2>3
  <2>6. (a - b) * w = aw - bw
    BY <2>3
  <2>7. aw - bw > n - w /\ aw - bw < n + w
    BY <2>4, <2>5
  <2> QED
    BY <2>2, <2>6, <2>7
<1>4. ASSUME NEW i \in 1 .. w PROVE F[i] - F[i - 1] \in Nat \ {0}
  <2>1. PICK d \in Int : d = F[i] - F[i - 1]
    BY <1>3
  <2>2. d * w > n - w
    BY <1>3, <2>1
  <2>3. n - w >= 0
    OBVIOUS
  <2>4. d * w \in Int
    BY <1>1
  <2>5. d * w > 0
    BY <2>2, <2>3, <2>4
  <2>6. d > 0
    BY <2>5, <1>1
  <2> QED
    BY <2>1, <2>6
<1>5. ASSUME NEW i \in 1 .. w, NEW j \in 1 .. w
      PROVE  F[i] - F[i - 1] <= F[j] - F[j - 1] + 1
  <2>1. PICK c \in Int, d \in Int : c = F[i] - F[i - 1] /\ d = F[j] - F[j - 1]
    BY <1>3
  <2>2. c * w < n + w /\ d * w > n - w
    BY <1>3, <2>1
  <2>3. (c - d) * w < 2 * w
    <3>1. PICK cw \in Int, dw \in Int : cw = c * w /\ dw = d * w
      BY <1>1
    <3>2. (c - d) * w = cw - dw
      BY <3>1
    <3> QED
      BY <2>2, <3>1, <3>2
  <2>4. PICK e \in Int : e = c - d
    OBVIOUS
  <2>5. e < 2
    BY <2>3, <2>4, <1>1
  <2> QED
    BY <2>1, <2>4, <2>5, SMTT(30)
<1>6. F[0] = 0
  <2>1. 0 * n = 0 /\ 0 \in 0 .. w
    OBVIOUS
  <2>2. F[0] \in Nat /\ F[0] * w <= 0
    BY <1>2, <2>1
  <2> QED
    BY <2>2, <1>1
<1>7. F[w] = n
  <2>1. w \in 0 .. w
    OBVIOUS
  <2>2. PICK a \in Nat : a = F[w]
    BY <1>2, <2>1
  <2>3. a * w <= w * n /\ w * n < a * w + w
    BY <1>2, <2>1, <2>2
  <2>4. a <= n
    <3> SUFFICES ASSUME a >= n + 1 PROVE FALSE
      OBVIOUS
    <3>1. a * w >= (n + 1) * w
      BY <1>1
    <3>2. (n + 1) * w = w * n + w
      OBVIOUS
    <3> QED
      BY <2>3, <3>1, <3>2, <1>1
  <2>5. n <= a
    <3> SUFFICES ASSUME n >= a + 1 PROVE FALSE
      OBVIOUS
    <3>1. n * w >= (a + 1) * w
      BY <1>1
    <3>2. (a + 1) * w = a * w + w /\ n * w = w * n
      OBVIOUS
    <3> QED
      BY <2>3, <3>1, <3>2, <1>1
  <2> QED
    BY <2>2, <2>4, <2>5
<1>8. ASSUME NEW i \in 0 .. w PROVE F[i] \in 0 .. n
  <2>1. PICK a \in Nat : a = F[i]
    BY <1>2
  <2>2. a * w <= i * n
    BY <1>2, <2>1
  <2>3. i * n <= w * n
    OBVIOUS
  <2>4. a <= n
    <3> SUFFICES ASSUME a >= n + 1 PROVE FALSE
      OBVIOUS
    <3>1. a * w >= (n + 1) * w
      BY <1>1
    <3>2. (n + 1) * w = w * n + w
      OBVIOUS
    <3> QED
      BY <2>2, <2>3, <3>1, <3>2, <1>1
  <2> QED
    BY <2>1, <2>4
<1> QED
  BY <1>4, <1>5, <1>6, <1>7, <1>8

-----------------------------------------------------------------------------
(* A cell is full, or empty, exactly when its bucket is. *)
LEMMA CellsTell ==
  ASSUME NEW b, b.total \in Nat \ {0}, b.cached \in 0 .. b.total
  PROVE  /\ Cell(b) = "#" <=> b.cached = b.total
         /\ Cell(b) = " " <=> b.cached = 0
<1>1. PICK c \in Nat, t \in Nat \ {0} : c = b.cached /\ t = b.total /\ c <= t
  OBVIOUS
<1>2. CASE c = t
  <2>1. t > 0 /\ c >= t /\ ~(c < t) /\ c # 0
        /\ ~(4 * c < 3 * t) /\ ~(2 * c < t) /\ ~(4 * c < t)
    BY <1>1, <1>2
  <2>2. Cell(b) = "#"
    BY <1>1, <2>1 DEF Cell
  <2> QED
    BY <1>1, <1>2, <2>1, <2>2
<1>3. CASE c = 0
  <2>1. ~(c >= t) /\ c < t /\ ~(4 * c >= 3 * t) /\ ~(2 * c >= t) /\ ~(4 * c >= t) /\ ~(c > 0)
    BY <1>1, <1>3
  <2>2. Cell(b) = " "
    BY <1>1, <1>3, <2>1 DEF Cell
  <2> QED
    BY <1>1, <1>3, <2>1, <2>2
<1>4. CASE c # 0 /\ c # t
  <2>1. ~(c >= t) /\ c < t /\ c > 0 /\ c # 0
    BY <1>1, <1>4
  <2>2. CASE 4 * c >= 3 * t
    <3>1. ~(4 * c < 3 * t) /\ ~(2 * c < t) /\ ~(4 * c < t)
      BY <1>1, <2>2
    <3>2. Cell(b) = "+"
      BY <1>1, <2>1, <2>2, <3>1 DEF Cell
    <3> QED
      BY <1>1, <1>4, <3>2
  <2>3. CASE 4 * c < 3 * t /\ 2 * c >= t
    <3>1. ~(4 * c >= 3 * t) /\ ~(2 * c < t) /\ ~(4 * c < t)
      BY <1>1, <2>3
    <3>2. Cell(b) = "="
      BY <1>1, <2>1, <2>3, <3>1 DEF Cell
    <3> QED
      BY <1>1, <1>4, <3>2
  <2>4. CASE 2 * c < t /\ 4 * c >= t
    <3>1. ~(4 * c >= 3 * t) /\ ~(2 * c >= t) /\ ~(4 * c < t)
      BY <1>1, <2>4
    <3>2. Cell(b) = "-"
      BY <1>1, <2>1, <2>4, <3>1 DEF Cell
    <3> QED
      BY <1>1, <1>4, <3>2
  <2>5. CASE 4 * c < t
    <3>1. ~(4 * c >= 3 * t) /\ ~(2 * c >= t) /\ ~(4 * c >= t)
      BY <1>1, <2>5
    <3>2. Cell(b) = "."
      BY <1>1, <2>1, <2>5, <3>1 DEF Cell
    <3> QED
      BY <1>1, <1>4, <3>2
  <2>6. \/ 4 * c >= 3 * t
        \/ 4 * c < 3 * t /\ 2 * c >= t
        \/ 2 * c < t /\ 4 * c >= t
        \/ 4 * c < t
    BY <1>1
  <2> QED
    BY <2>2, <2>3, <2>4, <2>5, <2>6
<1> QED
  BY <1>2, <1>3, <1>4

(* The buckets of a row: as wide as they should be, full of what is in them. *)
Parted(n, w, F, R, buckets) ==
  /\ w \in 1 .. n
  /\ F = [i \in 0 .. w |-> (i * n) \div w]
  /\ R \subseteq 1 .. n
  /\ buckets = [k \in 1 .. w |-> [cached |-> Cardinality({p \in F[k - 1] + 1 .. F[k] : p \in R}),
                                  total  |-> F[k] - F[k - 1]]]

\* The histogram of a row is cut into parts as even as whole pages allow.
LEMMA BucketsOfRow ==
  ASSUME NEW f \in File, f.residency \subseteq 1 .. f.total
  PROVE  \E w, F : /\ w <= MaxWidth
                   /\ Parted(f.total, w, F, f.residency, Buckets(f))
<1>1. PICK n \in Nat \ {0} : n = f.total
  BY TuiAppAssumption DEF File
<1>12. PICK R : R = f.residency
  OBVIOUS
<1>2. PICK w : w = IF n < MaxWidth THEN n ELSE MaxWidth
  OBVIOUS
<1>3. w \in 1 .. n /\ w <= MaxWidth
  BY <1>1, <1>2, ScreenAssumption
<1>4. PICK F : F = [i \in 0 .. w |-> (i * n) \div w]
  OBVIOUS
<1>5. PICK map : map = [p \in 1 .. n |-> p \in R]
  OBVIOUS
<1>6. map = MapOf(f) /\ Len(map) = n
  <2>1. map = MapOf(f)
    BY <1>1, <1>5, <1>12 DEF MapOf
  <2>2. n \in Nat
    BY <1>1
  <2> QED
    BY <1>5, <2>1, <2>2, FunctionIsSeq
<1>7. Buckets(f) = Bucketize(map, w)
  BY <1>1, <1>2, <1>6 DEF Buckets
<1>8. Bucketize(map, w) =
        [i \in 1 .. w |-> [cached |-> CountFilled(map, ((i - 1) * n) \div w, (i * n) \div w),
                           total  |-> (i * n) \div w - ((i - 1) * n) \div w]]
  BY <1>3, <1>6 DEF Bucketize
<1>9. ASSUME NEW i \in 1 .. w
      PROVE  /\ (i * n) \div w = F[i] /\ ((i - 1) * n) \div w = F[i - 1]
             /\ CountFilled(map, F[i - 1], F[i]) = Cardinality({p \in F[i - 1] + 1 .. F[i] : p \in R})
  <2>1. i \in 0 .. w /\ i - 1 \in 0 .. w
    BY <1>3
  <2>2. F[i] \in 0 .. n /\ F[i - 1] \in 0 .. n
    BY <1>1, <1>3, <1>4, <2>1, BucketBounds
  <2>3. \A p \in F[i - 1] + 1 .. F[i] : map[p] <=> p \in R
    <3> TAKE p \in F[i - 1] + 1 .. F[i]
    <3>1. p \in 1 .. n
      BY <2>2
    <3> QED
      BY <1>5, <3>1
  <2>4. {p \in F[i - 1] + 1 .. F[i] : map[p]} = {p \in F[i - 1] + 1 .. F[i] : p \in R}
    BY <2>3
  <2>5. (i * n) \div w = F[i] /\ ((i - 1) * n) \div w = F[i - 1]
    BY <1>4, <2>1
  <2> QED
    BY <2>4, <2>5 DEF CountFilled
<1>10. Buckets(f) = [k \in 1 .. w |-> [cached |-> Cardinality({p \in F[k - 1] + 1 .. F[k] : p \in R}),
                                       total  |-> F[k] - F[k - 1]]]
  BY <1>7, <1>8, <1>9
<1>11. Parted(n, w, F, R, Buckets(f))
  BY <1>1, <1>12, <1>3, <1>4, <1>10 DEF Parted
<1> QED
  BY <1>1, <1>3, <1>11, <1>12

(* What the buckets of a map hold, each and in all. *)
Adds(n, w, R, buckets) ==
  /\ w \in 1 .. n /\ DOMAIN buckets = 1 .. w
  /\ \A k \in 1 .. w : buckets[k].total \in Nat \ {0} /\ buckets[k].cached \in 0 .. buckets[k].total
  /\ SumOf([k \in DOMAIN buckets |-> buckets[k].cached]) = Cardinality(R)
  /\ SumOf([k \in DOMAIN buckets |-> buckets[k].total]) = n
  /\ \A k, l \in 1 .. w : buckets[k].total <= buckets[l].total + 1
  /\ (\A k \in 1 .. w : buckets[k].cached = buckets[k].total) <=> R = 1 .. n
  /\ (\A k \in 1 .. w : buckets[k].cached = 0) <=> R = {}

\* Such parts cover the pages once, and what is in them adds up.
LEMMA BucketsAdd ==
  ASSUME NEW n \in Nat \ {0}, NEW w, NEW F, NEW R, NEW buckets, Parted(n, w, F, R, buckets)
  PROVE  Adds(n, w, R, buckets)
<1> DEFINE Part(k) == {p \in F[k - 1] + 1 .. F[k] : p \in R}
           Upto(k) == {p \in 1 .. F[k] : p \in R}
<1>1. /\ w \in 1 .. n /\ w \in Nat /\ R \subseteq 1 .. n
      /\ F = [i \in 0 .. w |-> (i * n) \div w]
      /\ buckets = [k \in 1 .. w |-> [cached |-> Cardinality(Part(k)), total |-> F[k] - F[k - 1]]]
  BY DEF Parted
<1>2. F[0] = 0 /\ F[w] = n /\ \A i \in 0 .. w : F[i] \in 0 .. n
  <2>1. F[0] = 0
    BY <1>1, BucketBounds
  <2>2. F[w] = n
    BY <1>1, BucketBounds
  <2>3. \A i \in 0 .. w : F[i] \in 0 .. n
    BY <1>1, BucketBounds
  <2> QED
    BY <2>1, <2>2, <2>3
<1>3. \A i \in 1 .. w : F[i] - F[i - 1] \in Nat \ {0}
  BY <1>1, BucketBounds
<1>4. \A i, j \in 1 .. w : F[i] - F[i - 1] <= F[j] - F[j - 1] + 1
  BY <1>1, BucketBounds
<1>5. DOMAIN buckets = 1 .. w
      /\ \A k \in 1 .. w : buckets[k].cached = Cardinality(Part(k)) /\ buckets[k].total = F[k] - F[k - 1]
  BY <1>1
<1>6. ASSUME NEW k \in 1 .. w
      PROVE  /\ k \in 0 .. w /\ k - 1 \in 0 .. w
             /\ F[k - 1] \in Nat /\ F[k] \in 0 .. n /\ F[k - 1] < F[k]
             /\ IsFiniteSet(F[k - 1] + 1 .. F[k])
             /\ Cardinality(F[k - 1] + 1 .. F[k]) = F[k] - F[k - 1]
             /\ IsFiniteSet(Part(k)) /\ Cardinality(Part(k)) \in 0 .. F[k] - F[k - 1]
             /\ Cardinality(Part(k)) = F[k] - F[k - 1] => Part(k) = F[k - 1] + 1 .. F[k]
  <2>1. k \in 0 .. w /\ k - 1 \in 0 .. w
    BY <1>1
  <2>2. PICK a \in Nat, b \in 0 .. n : a = F[k - 1] /\ b = F[k] /\ b - a \in Nat \ {0} /\ a < b
    <3>1. F[k - 1] \in 0 .. n /\ F[k] \in 0 .. n /\ F[k] - F[k - 1] \in Nat \ {0}
      BY <1>2, <1>3, <2>1
    <3> QED
      BY <3>1
  <2>3. PICK S : S = a + 1 .. b
    OBVIOUS
  <2>4. IsFiniteSet(S) /\ Cardinality(S) = b - a
    <3>1. a + 1 \in Int /\ b \in Int /\ ~(a + 1 > b) /\ b - (a + 1) + 1 = b - a
      BY <2>2
    <3> QED
      BY <2>3, <3>1, FS_Interval
  <2>5. PICK T \in SUBSET S : T = Part(k)
    BY <2>2, <2>3
  <2>6. IsFiniteSet(T) /\ Cardinality(T) <= Cardinality(S) /\ (Cardinality(S) = Cardinality(T) => S = T)
    BY <2>4, FS_Subset
  <2>7. Cardinality(T) \in Nat
    BY <2>6, FS_CardinalityType
  <2>8. Cardinality(T) \in 0 .. b - a
    BY <2>2, <2>4, <2>6, <2>7
  <2> HIDE DEF Part
  <2> QED
    BY <2>1, <2>2, <2>3, <2>4, <2>5, <2>6, <2>8
<1>17. \A k \in 1 .. w : F[k - 1] \in Nat /\ F[k] \in Nat /\ F[k] <= n /\ F[k - 1] < F[k]
  <2> HIDE DEF Part
  <2>1. \A k \in 1 .. w : F[k - 1] \in Nat /\ F[k] \in 0 .. n /\ F[k - 1] < F[k]
    BY <1>6
  <2> QED
    BY <2>1
<1>7. IsFiniteSet(1 .. n) /\ Cardinality(1 .. n) = n /\ IsFiniteSet(R)
      /\ (Cardinality(R) = n => R = 1 .. n)
  <2>1. 1 \in Int /\ n \in Int /\ ~(1 > n) /\ n - 1 + 1 = n
    OBVIOUS
  <2>2. IsFiniteSet(1 .. n) /\ Cardinality(1 .. n) = n
    BY <2>1, FS_Interval
  <2> QED
    BY <1>1, <2>2, FS_Subset
<1>8. ASSUME NEW k \in 1 .. w
      PROVE  Cardinality(Upto(k)) = Cardinality(Upto(k - 1)) + Cardinality(Part(k))
  <2>1. PICK a \in Nat, b \in Nat : a = F[k - 1] /\ b = F[k] /\ a < b /\ b <= n
    BY <1>17
  <2>2. PICK S, T, U : S = Upto(k - 1) /\ T = Part(k) /\ U = Upto(k)
    OBVIOUS
  <2>3. S = {p \in 1 .. a : p \in R} /\ T = {p \in a + 1 .. b : p \in R} /\ U = {p \in 1 .. b : p \in R}
    BY <2>1, <2>2
  <2>4. U = S \cup T /\ T \cap S = {} /\ S \subseteq R
    BY <2>1, <2>3
  <2>5. IsFiniteSet(S) /\ IsFiniteSet(T)
    BY <1>6, <1>7, <2>2, <2>4, FS_Subset
  <2>6. Cardinality(U) = Cardinality(S) - 0 + Cardinality(T)
    BY <2>4, <2>5, Counting, FS_EmptySet
  <2>7. Cardinality(S) \in Nat /\ Cardinality(T) \in Nat
    BY <2>5, FS_CardinalityType
  <2> QED
    BY <2>2, <2>6, <2>7
<1>9. SumOf([k \in 1 .. w |-> buckets[k].cached]) = Cardinality(R)
  <2>1. PICK c \in [1 .. w -> Nat] : c = [k \in 1 .. w |-> buckets[k].cached]
    <3>1. \A k \in 1 .. w : Cardinality(Part(k)) \in Nat
      BY <1>6, FS_CardinalityType
    <3> HIDE DEF Part
    <3> QED
      BY <1>5, <3>1
  <2>2. PICK G : G = [k \in 0 .. w |-> Cardinality(Upto(k))]
    OBVIOUS
  <2>3. G[0] = 0
    <3>1. Upto(0) = {} /\ 0 \in 0 .. w
      BY <1>1, <1>2
    <3> QED
      BY <2>2, <3>1, FS_EmptySet
  <2>4. \A k \in 1 .. w : G[k] = G[k - 1] + c[k]
    <3> TAKE k \in 1 .. w
    <3>1. G[k] = Cardinality(Upto(k)) /\ G[k - 1] = Cardinality(Upto(k - 1)) /\ c[k] = Cardinality(Part(k))
      BY <1>5, <1>6, <2>1, <2>2
    <3> QED
      BY <1>8, <3>1
  <2>5. SumOf(c) = G[w]
    BY <1>1, <2>3, <2>4, SumOfSteps
  <2>6. Upto(w) = R
    BY <1>1, <1>2
  <2> HIDE DEF Upto
  <2>7. w \in 0 .. w
    BY <1>1
  <2>8. G[w] = Cardinality(R)
    BY <2>2, <2>6, <2>7
  <2> QED
    BY <2>1, <2>5, <2>8
<1>10. SumOf([k \in 1 .. w |-> buckets[k].total]) = n
  <2>1. PICK c \in [1 .. w -> Nat] : c = [k \in 1 .. w |-> buckets[k].total]
    BY <1>3, <1>5
  <2>2. \A k \in 1 .. w : F[k] = F[k - 1] + c[k]
    <3> TAKE k \in 1 .. w
    <3>1. F[k] \in Nat /\ F[k - 1] \in Nat /\ c[k] = F[k] - F[k - 1]
      <4>1. c[k] = F[k] - F[k - 1]
        BY <1>5, <2>1
      <4> QED
        BY <1>17, <4>1
    <3> QED
      BY <3>1
  <2>3. SumOf(c) = F[w]
    <3>1. w \in Nat /\ F[0] = 0
      BY <1>1, <1>2
    <3> QED
      BY ONLY <2>2, <3>1, c \in [1 .. w -> Nat], SumOfSteps
  <2> QED
    BY <1>2, <2>1, <2>3
<1>11. (\A k \in 1 .. w : buckets[k].cached = buckets[k].total) => R = 1 .. n
  <2> HAVE \A k \in 1 .. w : buckets[k].cached = buckets[k].total
  <2>1. [k \in 1 .. w |-> buckets[k].cached] = [k \in 1 .. w |-> buckets[k].total]
    OBVIOUS
  <2> QED
    BY <1>7, <1>9, <1>10, <2>1
<1>12. (\A k \in 1 .. w : buckets[k].cached = 0) => R = {}
  <2> HAVE \A k \in 1 .. w : buckets[k].cached = 0
  <2>1. PICK c : c = [k \in 1 .. w |-> buckets[k].cached]
    OBVIOUS
  <2>11. PICK G : G = [k \in 0 .. w |-> 0]
    OBVIOUS
  <2>12. c \in [1 .. w -> Nat] /\ \A k \in 1 .. w : c[k] = 0
    BY <2>1
  <2>2. G[0] = 0 /\ G[w] = 0 /\ \A k \in 1 .. w : G[k] = G[k - 1] + c[k]
    BY <1>1, <2>11, <2>12
  <2>3. SumOf(c) = G[w]
    <3>1. w \in Nat
      BY <1>1
    <3> QED
      BY ONLY <2>2, <2>12, <3>1, SumOfSteps
  <2>4. Cardinality(R) = 0
    BY <1>9, <2>1, <2>2, <2>3
  <2> QED
    BY <1>7, <2>4, FS_EmptySet
<1>13. R = 1 .. n => \A k \in 1 .. w : buckets[k].cached = buckets[k].total
  <2> SUFFICES ASSUME R = 1 .. n, NEW k \in 1 .. w PROVE Cardinality(Part(k)) = F[k] - F[k - 1]
    BY <1>5
  <2>1. F[k - 1] \in 0 .. n /\ F[k] \in 0 .. n
    BY <1>2, <1>6
  <2>2. Part(k) = F[k - 1] + 1 .. F[k]
    BY <2>1
  <2> QED
    BY <1>6, <2>2
<1>14. R = {} => \A k \in 1 .. w : buckets[k].cached = 0
  <2> SUFFICES ASSUME R = {}, NEW k \in 1 .. w PROVE Cardinality(Part(k)) = 0
    BY <1>5
  <2> QED
    BY FS_EmptySet
<1>15. \A k \in 1 .. w : buckets[k].total \in Nat \ {0} /\ buckets[k].cached \in 0 .. buckets[k].total
  <2> HIDE DEF Part
  <2> QED
    BY <1>3, <1>5, <1>6
<1>16. \A k, l \in 1 .. w : buckets[k].total <= buckets[l].total + 1
  BY <1>4, <1>5
<1> HIDE DEF Part, Upto
<1> QED
  BY <1>1, <1>5, <1>9, <1>10, <1>11, <1>12, <1>13, <1>14, <1>15, <1>16 DEF Adds

\* A row whose count is right is drawn fairly.
LEMMA RowIsFair ==
  ASSUME NEW f \in File, f.residency \subseteq 1 .. f.total,
         f.resident = Cardinality(f.residency)
  PROVE  Fair(f)
<1>1. PICK n, R : n = f.total /\ R = f.residency
  OBVIOUS
<1>2. n \in Nat \ {0} /\ R \subseteq 1 .. n /\ f.done \in BOOLEAN
  BY <1>1, TuiAppAssumption DEF File
<1>3. PICK buckets : buckets = Buckets(f)
  OBVIOUS
<1>4. PICK w, F : w <= MaxWidth /\ Parted(n, w, F, R, buckets)
  BY <1>1, <1>3, BucketsOfRow
<1>20. n \in Nat \ {0}
  BY <1>2
<1>21. Parted(n, w, F, R, buckets)
  BY <1>4
<1>22. Adds(n, w, R, buckets)
  BY <1>20, <1>21, BucketsAdd
<1>5. w \in 1 .. n /\ DOMAIN buckets = 1 .. w
  BY <1>22 DEF Adds
<1>6. \A k \in 1 .. w : buckets[k].total \in Nat \ {0} /\ buckets[k].cached \in 0 .. buckets[k].total
  BY <1>22 DEF Adds
<1>7. SumOf([k \in DOMAIN buckets |-> buckets[k].cached]) = Cardinality(R)
  BY <1>22 DEF Adds
<1>8. SumOf([k \in DOMAIN buckets |-> buckets[k].total]) = n
  BY <1>22 DEF Adds
<1>9. \A k, l \in 1 .. w : buckets[k].total <= buckets[l].total + 1
  BY <1>22 DEF Adds
<1>10. (\A k \in 1 .. w : buckets[k].cached = buckets[k].total) <=> R = 1 .. n
  BY <1>22 DEF Adds
<1>11. (\A k \in 1 .. w : buckets[k].cached = 0) <=> R = {}
  BY <1>22 DEF Adds
<1>12. PICK cells : cells = [k \in 1 .. w |-> Cell(buckets[k])]
  OBVIOUS
<1>13. Row(f).cells = cells /\ (Row(f).mark <=> f.done /\ n > 0 /\ f.resident = n)
  BY <1>1, <1>3, <1>5, <1>12 DEF Row
<1>14. Len(cells) = w /\ DOMAIN cells = 1 .. w
  <2>1. w \in Nat
    BY <1>2, <1>5
  <2> QED
    BY <1>12, <2>1
<1>15. ASSUME NEW k \in 1 .. w
       PROVE  /\ cells[k] = "#" <=> buckets[k].cached = buckets[k].total
              /\ cells[k] = " " <=> buckets[k].cached = 0
  <2>1. PICK b : b = buckets[k]
    OBVIOUS
  <2>2. b.total \in Nat \ {0} /\ b.cached \in 0 .. b.total
    BY <1>6, <2>1
  <2>3. Cell(b) = "#" <=> b.cached = b.total
    BY <2>2, CellsTell
  <2>4. Cell(b) = " " <=> b.cached = 0
    BY <2>2, CellsTell
  <2> QED
    BY <1>12, <2>1, <2>3, <2>4
<1>16. (\A k \in DOMAIN cells : cells[k] = "#") <=> R = 1 .. n
  BY <1>10, <1>14, <1>15
<1>17. (\A k \in DOMAIN cells : cells[k] = " ") <=> R = {}
  BY <1>11, <1>14, <1>15
<1>18. Cardinality(R) = n <=> R = 1 .. n
  <2>1. 1 \in Int /\ n \in Int /\ ~(1 > n) /\ n - 1 + 1 = n
    BY <1>2
  <2>2. IsFiniteSet(1 .. n) /\ Cardinality(1 .. n) = n
    BY <2>1, FS_Interval
  <2> QED
    BY <1>2, <2>2, FS_Subset
<1>19. Row(f).mark <=> f.done /\ R = 1 .. n
  BY <1>1, <1>2, <1>13, <1>18
<1> QED
  BY <1>1, <1>3, <1>4, <1>5, <1>7, <1>8, <1>9, <1>13, <1>14, <1>16, <1>17, <1>19 DEF Fair

(* Whatever the list shows is a row of it. *)
LEMMA ShownAreRows ==
  ASSUME IInv
  PROVE  \A k \in DOMAIN Visible(MaxDisplay) :
           \E n \in 1 .. Len(files) : Visible(MaxDisplay)[k] = files[n]
<1> DEFINE hide == Len(files) > MaxDisplay /\ \E n \in DOMAIN files : ~files[n].done
<1>1. PICK places : places = IF hide THEN DOMAIN files \ DoneIn(files) ELSE DOMAIN files
  OBVIOUS
<1>2. PICK shown : shown = Visible(MaxDisplay)
  OBVIOUS
<1>3. shown = Shown(places)
  BY <1>1, <1>2 DEF Visible, Shown
<1>4. places \in SUBSET (1 .. Len(files))
  <2>1. DOMAIN files = 1 .. Len(files)
    BY DEF IInv, Typed
  <2> QED
    BY <1>1, <2>1
<1> HIDE DEF hide
<1>5. CASE places = {}
  <2>1. PICK rows : rows = Sorted(places)
    OBVIOUS
  <2>2. rows \in Seq(File) /\ Len(rows) = Cardinality(places)
    BY <1>4, <2>1, LargestFirst
  <2>3. Len(rows) = 0 /\ MaxDisplay \in Nat \ {0}
    BY <1>5, <2>2, FS_EmptySet, TuiAppAssumption
  <2>4. shown = SubSeq(rows, 1, 0)
    BY <1>3, <2>1, <2>3 DEF Shown
  <2>5. DOMAIN shown = {}
    BY <2>2, <2>3, <2>4
  <2> QED
    BY <1>2, <2>5
<1>6. CASE places # {}
  <2>1. shown \in Seq(File)
    BY <1>3, <1>4, <1>6, RowsAreShown
  <2>2. \A k \in 1 .. Len(shown) : \E n \in places : shown[k] = files[n]
    BY <1>3, <1>4, <1>6, RowsAreShown
  <2> QED
    BY <1>2, <1>4, <2>1, <2>2
<1> QED
  BY <1>5, <1>6

\* A list whose counts are right is drawn fairly.
LEMMA CountedIsFair == ASSUME IInv PROVE BucketsAreFair
<1>1. PICK shown : shown = Visible(MaxDisplay)
  OBVIOUS
<1>2. ASSUME NEW k \in DOMAIN shown PROVE Fair(shown[k])
  <2>1. PICK n \in 1 .. Len(files) : shown[k] = files[n]
    BY <1>1, ShownAreRows
  <2>2. PICK f : f = files[n]
    OBVIOUS
  <2>3. f \in File /\ f.residency \subseteq 1 .. f.total /\ f.resident = Cardinality(f.residency)
    BY <2>2 DEF IInv, Typed, Counted
  <2>4. Fair(f)
    BY <2>3, RowIsFair
  <2> QED
    BY <2>1, <2>2, <2>4
<1>3. (\A k \in DOMAIN shown : Fair(shown[k])) => BucketsAreFair
  BY <1>1 DEF BucketsAreFair
<1> QED
  BY <1>2, <1>3

\* What is drawn of a file is fair: the buckets share out its pages, none is
\* empty or two pages wider than another, full and empty cells mean full and
\* empty, and the mark means that all of the file is in memory.
THEOREM DrawsFairly == ScreenSpec => []BucketsAreFair
<1>1. ScreenInv => BucketsAreFair
  BY CountedIsFair DEF ScreenInv
<1> QED
  BY ScreenInvHolds, <1>1, PTL

-----------------------------------------------------------------------------
(* What holds of a set when it holds of each with an element less holds of *)
(* every part of D: B has the parts it holds of.                           *)
LEMMA EveryPart ==
  ASSUME NEW D, IsFiniteSet(D), NEW B,
         \A s \in SUBSET D : (\A x \in s : s \ {x} \in B) => s \in B
  PROVE  SUBSET D \subseteq B
<1> DEFINE S == {n \in Nat : \E s \in SUBSET D : Cardinality(s) = n /\ s \notin B}
<1>1. \A s \in SUBSET D : IsFiniteSet(s) /\ Cardinality(s) \in Nat
  BY FS_Subset, FS_CardinalityType
<1>2. S = {}
  <2> SUFFICES ASSUME S # {} PROVE FALSE
    OBVIOUS
  <2>0. S \in SUBSET Nat
    OBVIOUS
  <2>1. PICK n \in S : \A m \in S : n <= m
    BY <2>0, LeastNumber
  <2>2. PICK s \in SUBSET D : Cardinality(s) = n /\ s \notin B
    BY <2>1
  <2>3. ASSUME NEW x \in s PROVE s \ {x} \in B
    <3>1. PICK t \in SUBSET D : t = s \ {x}
      OBVIOUS
    <3>2. Cardinality(t) = Cardinality(s) - 1
      BY <1>1, <3>1, FS_RemoveElement
    <3>3. Cardinality(t) \in Nat /\ n \in Nat /\ ~(n <= Cardinality(t))
      BY <1>1, <2>2, <3>2
    <3>4. t \in B
      BY <2>1, <3>3
    <3> QED
      BY <3>1, <3>4
  <2> QED
    BY <2>2, <2>3
<1> QED
  BY <1>1, <1>2

(* A sum of terms that are each no more than a term of another, of its own, *)
(* is no more than that.                                                    *)
LEMMA SumWithin ==
  ASSUME NEW D, IsFiniteSet(D), NEW E, IsFiniteSet(E),
         NEW f \in [D -> Nat], NEW g \in [E -> Nat], NEW h \in [D -> E],
         \A x, y \in D : h[x] = h[y] => x = y,
         \A x \in D : f[x] <= g[h[x]]
  PROVE  SumOf(f) <= SumOf(g)
<1>1. PICK F : Sums(f, D, F) /\ SumOf(f) = F[D]
  BY SumIsASum
<1>2. PICK G : Sums(g, E, G) /\ SumOf(g) = G[E]
  BY SumIsASum
<1> DEFINE B == {s \in SUBSET D : \A t \in SUBSET E : (\A x \in s : h[x] \in t) => F[s] <= G[t]}
<1>3. ASSUME NEW s \in SUBSET D, \A x \in s : s \ {x} \in B
      PROVE  s \in B
  <2> SUFFICES ASSUME NEW t \in SUBSET E, \A x \in s : h[x] \in t PROVE F[s] <= G[t]
    OBVIOUS
  <2>1. G[t] \in Nat
    BY <1>2 DEF Sums
  <2>2. CASE s = {}
    BY <1>1, <2>1, <2>2 DEF Sums
  <2>3. CASE s # {}
    <3>1. PICK x \in s : TRUE
      BY <2>3
    <3>2. PICK s1 \in SUBSET D, t1 \in SUBSET E : s1 = s \ {x} /\ t1 = t \ {h[x]}
      OBVIOUS
    <3>3. s1 \in B /\ \A y \in s1 : h[y] \in t1
      BY <1>3, <3>1, <3>2
    <3>4. F[s1] <= G[t1]
      BY <3>3
    <3>5. F[s] = f[x] + F[s1] /\ G[t] = g[h[x]] + G[t1]
      BY <1>1, <1>2, <3>1, <3>2 DEF Sums
    <3>6. f[x] \in Nat /\ g[h[x]] \in Nat /\ F[s1] \in Nat /\ G[t1] \in Nat /\ f[x] <= g[h[x]]
      BY <1>1, <1>2, <3>1 DEF Sums
    <3> QED
      BY <3>4, <3>5, <3>6
  <2> QED
    BY <2>2, <2>3
<1> HIDE DEF B
<1>4. D \in B
  BY <1>3, EveryPart
<1>5. E \in SUBSET E /\ \A x \in D : h[x] \in E
  OBVIOUS
<1> QED
  BY <1>1, <1>2, <1>4, <1>5 DEF B

(* A sum of lesser terms is no more. *)
LEMMA SumMono ==
  ASSUME NEW D, IsFiniteSet(D), NEW f \in [D -> Nat], NEW g \in [D -> Nat],
         \A x \in D : f[x] <= g[x]
  PROVE  SumOf(f) <= SumOf(g)
<1>1. PICK h \in [D -> D] : h = [x \in D |-> x]
  OBVIOUS
<1>2. (\A x, y \in D : h[x] = h[y] => x = y) /\ \A x \in D : f[x] <= g[h[x]]
  BY <1>1
<1> QED
  BY <1>2, SumWithin

(* Sums of two are the sum of both. *)
LEMMA SumPlus ==
  ASSUME NEW D, IsFiniteSet(D), NEW f \in [D -> Nat], NEW g \in [D -> Nat], NEW e \in [D -> Nat],
         \A x \in D : e[x] = f[x] + g[x]
  PROVE  SumOf(e) = SumOf(f) + SumOf(g)
<1>1. PICK F : Sums(f, D, F) /\ SumOf(f) = F[D]
  BY SumIsASum
<1>2. PICK G : Sums(g, D, G) /\ SumOf(g) = G[D]
  BY SumIsASum
<1>3. PICK H : Sums(e, D, H) /\ SumOf(e) = H[D]
  BY SumIsASum
<1> DEFINE B == {s \in SUBSET D : H[s] = F[s] + G[s]}
<1>4. ASSUME NEW s \in SUBSET D, \A x \in s : s \ {x} \in B
      PROVE  H[s] = F[s] + G[s]
  <2>1. CASE s = {}
    BY <1>1, <1>2, <1>3, <2>1 DEF Sums
  <2>2. CASE s # {}
    <3>1. PICK x \in s : TRUE
      BY <2>2
    <3>2. PICK t \in SUBSET D : t = s \ {x}
      OBVIOUS
    <3>3. H[t] = F[t] + G[t]
      BY <1>4, <3>1, <3>2
    <3>4. H[s] = e[x] + H[t] /\ F[s] = f[x] + F[t] /\ G[s] = g[x] + G[t]
      BY <1>1, <1>2, <1>3, <3>1, <3>2 DEF Sums
    <3>5. f[x] \in Nat /\ g[x] \in Nat /\ F[t] \in Nat /\ G[t] \in Nat /\ e[x] = f[x] + g[x]
      BY <1>1, <1>2, <3>1 DEF Sums
    <3> QED
      BY <3>3, <3>4, <3>5
  <2> QED
    BY <2>1, <2>2
<1>5. \A s \in SUBSET D : (\A x \in s : s \ {x} \in B) => s \in B
  BY <1>4
<1> HIDE DEF B
<1>6. D \in B
  BY <1>5, EveryPart
<1> QED
  BY <1>1, <1>2, <1>3, <1>6 DEF B

(* A sum grows with its terms. *)
LEMMA SumGrows ==
  ASSUME NEW D, IsFiniteSet(D), NEW f \in [D -> Nat], NEW g \in [D -> Nat],
         NEW x \in D, NEW d \in Nat, g[x] = f[x] + d, \A y \in D \ {x} : g[y] = f[y]
  PROVE  SumOf(g) = SumOf(f) + d
<1>1. PICK E : E = D \ {x}
  OBVIOUS
<1>2. PICK e \in [E -> Nat] : e = [y \in E |-> f[y]]
  BY <1>1
<1>3. e = [y \in E |-> g[y]]
  BY <1>1, <1>2
<1>4. \A y \in D : SumOf(f) = f[y] + SumOf([z \in D \ {y} |-> f[z]])
  BY SumStep
<1>5. \A y \in D : SumOf(g) = g[y] + SumOf([z \in D \ {y} |-> g[z]])
  BY SumStep
<1>6. SumOf(f) = f[x] + SumOf(e) /\ SumOf(g) = g[x] + SumOf(e)
  BY <1>1, <1>2, <1>3, <1>4, <1>5
<1>7. IsFiniteSet(E)
  BY <1>1, FS_Subset
<1>8. SumOf(e) \in Nat
  BY <1>7, SumStep
<1>9. f[x] \in Nat
  OBVIOUS
<1> QED
  BY <1>6, <1>8, <1>9

\* A sum gains a term.
LEMMA SumGains ==
  ASSUME NEW D, IsFiniteSet(D), NEW f \in [D -> Nat], NEW x, x \notin D,
         NEW g \in [D \cup {x} -> Nat], \A y \in D : g[y] = f[y]
  PROVE  SumOf(g) = SumOf(f) + g[x]
<1>1. PICK E : E = D \cup {x}
  OBVIOUS
<1>2. IsFiniteSet(E) /\ x \in E /\ E \ {x} = D
  BY <1>1, FS_AddElement
<1>3. \A y \in E : SumOf(g) = g[y] + SumOf([z \in E \ {y} |-> g[z]])
  BY <1>1, <1>2, SumStep
<1>4. f = [z \in D |-> g[z]]
  OBVIOUS
<1>5. SumOf(g) = g[x] + SumOf(f)
  BY <1>2, <1>3, <1>4
<1>6. SumOf(f) \in Nat
  BY SumStep
<1>7. g[x] \in Nat
  OBVIOUS
<1> QED
  BY <1>5, <1>6, <1>7

-----------------------------------------------------------------------------
(***************************************************************************)
(* The statistics.  What each worker has added to them for its file, ...   *)
(***************************************************************************)
Resident(bytes) == Cardinality(PagesOf(bytes))

Added(i) ==
  work[i].reported
    + IF work[i].at = "output"
      THEN Minus(ActionPages(Resident(work[i].before), Resident(work[i].after)), work[i].reported)
      ELSE 0

\* ... and what it did: it reported what the sample missed as far as its walk has
\* come, and sampled again what its operation has left.
Accounted(i) ==
  /\ work[i].reported = Cardinality(Missing(i, work[i].page))
  /\ work[i].at = "output" => work[i].after \in Afterwards(i)

\* The files that a counter has been told of; all of them wait with their start
\* until every counter has.
Booked(k) == {i \in Announced : k \notin adding[i]}

Adding ==
  /\ adding \in [Ids -> SUBSET {"files", "total", "initial"}]
  /\ \A i \in Ids : adding[i] # {} =>
       work[i].at = "walk" /\ \E e : e.kind = "start" /\ work[i].outbox = <<e>>

\* Every counter is the sum of what was added for the files it was told of.
StatsInv ==
  /\ stats \in [files : Nat, total : Nat, initial : Nat, action : Nat]
  /\ IsFiniteSet(Announced)
  /\ Adding
  /\ stats.files = Cardinality(Booked("files"))
  /\ stats.total = SumOf([i \in Booked("total") |-> Len(work[i].before)])
  /\ stats.initial = SumOf([i \in Booked("initial") |-> Resident(work[i].before)])
  /\ stats.action = SumOf([i \in Announced |-> Added(i)])
  /\ \A i \in Announced : Accounted(i)

\* Counters only grow.
NoLess(s, t) ==
  /\ s.files <= t.files /\ s.total <= t.total
  /\ s.initial <= t.initial /\ s.action <= t.action

(* The numbers of one file. *)
LEMMA Numbers ==
  ASSUME ScreenInv, NEW i \in Announced
  PROVE  /\ i \in Ids /\ work[i] \in Record /\ effect \in {"Preserve", "Populate", "EvictAdvisory"}
         /\ work[i].at \in {"walk", "output", "error"}
         /\ work[i].len \in Lens /\ work[i].before \in Probed(work[i].len)
         /\ work[i].before \in Seq(Nat) /\ work[i].reported \in Nat /\ work[i].page \in Nat
         /\ Len(work[i].before) \in Nat /\ Len(work[i].before) = TotalPages(work[i].len)
         /\ work[i].page <= Len(work[i].before)
         /\ work[i].page # 0 => effect = "Populate"
         /\ work[i].at = "output" =>
              work[i].after \in Seq(Nat) /\ Len(work[i].after) = Len(work[i].before)
<1>1. i \in Ids /\ work[i].at # "idle"
  BY DEF Announced
<1>2. /\ work[i] \in Record /\ effect \in Effects
      /\ work[i].len \in Lens /\ work[i].before \in Probed(work[i].len)
      /\ work[i].page <= Len(work[i].before)
      /\ work[i].page # 0 => effect = "Populate"
      /\ work[i].at = "output" => Len(work[i].after) = Len(work[i].before)
  BY <1>1 DEF ScreenInv, Delivered, WorkTyped
<1>3. effect \in {"Preserve", "Populate", "EvictAdvisory"}
  BY <1>2, ScreenAssumption
<1>4. /\ work[i].at \in {"idle", "walk", "output", "error"} /\ work[i].after \in Seq(Nat)
      /\ work[i].reported \in Nat /\ work[i].page \in Nat
  BY <1>2 DEF Record
<1>5. /\ work[i].before \in Seq(Nat) /\ Len(work[i].before) \in 1 .. MaxPages
      /\ Len(work[i].before) = TotalPages(work[i].len)
  BY <1>2, SampleOfFile
<1>6. Len(work[i].before) \in Nat
  BY <1>5
<1> QED
  BY <1>1, <1>2, <1>3, <1>4, <1>5, <1>6

(* The resident pages of a sample are pages of it. *)
LEMMA ResidentIn ==
  ASSUME NEW bytes \in Seq(Nat)
  PROVE  /\ IsFiniteSet(PagesOf(bytes)) /\ PagesOf(bytes) \subseteq 1 .. Len(bytes)
         /\ Resident(bytes) \in Nat /\ Resident(bytes) <= Len(bytes)
         /\ Count(FromResidencyBytes(bytes)) = Resident(bytes)
<1>1. PICK n \in Nat : n = Len(bytes)
  OBVIOUS
<1>2. IsFiniteSet(1 .. n) /\ Cardinality(1 .. n) = n
  <2>1. 1 \in Int /\ n \in Int
    OBVIOUS
  <2>2. IsFiniteSet(1 .. n) /\ Cardinality(1 .. n) = IF 1 > n THEN 0 ELSE n - 1 + 1
    BY <2>1, FS_Interval
  <2> QED
    BY <2>2
<1>3. PagesOf(bytes) \in SUBSET (1 .. n)
  BY <1>1 DEF PagesOf
<1>4. IsFiniteSet(PagesOf(bytes)) /\ Cardinality(PagesOf(bytes)) <= n
  BY <1>2, <1>3, FS_Subset
<1>5. Cardinality(PagesOf(bytes)) \in Nat
  BY <1>4, FS_CardinalityType
<1>6. Count(FromResidencyBytes(bytes)) = Resident(bytes)
  <2>1. PICK map : map = FromResidencyBytes(bytes)
    OBVIOUS
  <2>2. Filled(map) = PagesOf(bytes) /\ map \in Seq(BOOLEAN)
    BY <2>1, FilledAreThePages
  <2>3. Len(map) \in Nat
    BY <2>2
  <2>4. Filled(map) = {p \in 0 + 1 .. Len(map) : map[p]}
    BY <2>3 DEF Filled, Pages
  <2>5. Count(map) = Cardinality(PagesOf(bytes))
    BY <2>2, <2>4 DEF Count, CountFilled
  <2> QED
    BY <2>1, <2>5 DEF Resident
<1> QED
  BY <1>1, <1>3, <1>4, <1>5, <1>6 DEF Resident

(* The pages that a sample missed, and those it found, are apart. *)
LEMMA MissingIn ==
  ASSUME ScreenInv, NEW i \in Announced, NEW upto \in 0 .. Len(work[i].before)
  PROVE  /\ IsFiniteSet(Missing(i, upto)) /\ Cardinality(Missing(i, upto)) \in Nat
         /\ Missing(i, upto) \cap PagesOf(work[i].before) = {}
         /\ Missing(i, upto) \subseteq 1 .. upto
         /\ Cardinality(Missing(i, upto)) + Resident(work[i].before) <= Len(work[i].before)
         /\ \A p \in 0 .. upto : Cardinality(Missing(i, p)) <= Cardinality(Missing(i, upto))
<1>1. work[i].before \in Seq(Nat)
  BY Numbers
<1>2. PICK bytes \in Seq(Nat), n \in Nat : bytes = work[i].before /\ n = Len(bytes)
  BY <1>1
<1>3. PICK M, P : M = Missing(i, upto) /\ P = PagesOf(bytes)
  OBVIOUS
<1>4. IsFiniteSet(1 .. n) /\ Cardinality(1 .. n) = n
  <2>1. 1 \in Int /\ n \in Int
    OBVIOUS
  <2>2. IsFiniteSet(1 .. n) /\ Cardinality(1 .. n) = IF 1 > n THEN 0 ELSE n - 1 + 1
    BY <2>1, FS_Interval
  <2> QED
    BY <2>2
<1>5. M \in SUBSET (1 .. n) /\ M \subseteq 1 .. upto /\ M \cap P = {} /\ P \cap M = {}
  BY <1>2, <1>3 DEF Missing, PagesOf
<1>6. IsFiniteSet(P) /\ P \subseteq 1 .. n /\ Cardinality(P) \in Nat
  BY <1>2, <1>3, ResidentIn DEF Resident
<1>7. IsFiniteSet(M) /\ Cardinality(M) \in Nat
  BY <1>4, <1>5, FS_Subset, FS_CardinalityType
<1>8. Cardinality(M \cup P) = Cardinality(M) + Cardinality(P)
  <2>1. Cardinality(M \cup P) = Cardinality(M) - Cardinality(P \cap M) + Cardinality(P)
    BY <1>6, <1>7, Counting
  <2>2. Cardinality(P \cap M) = 0
    BY <1>5, FS_EmptySet
  <2> QED
    BY <1>6, <1>7, <2>1, <2>2
<1>9. Cardinality(M \cup P) <= n
  <2>1. M \cup P \in SUBSET (1 .. n)
    BY <1>5, <1>6
  <2> QED
    BY <1>4, <2>1, FS_Subset
<1>10. ASSUME NEW p \in 0 .. upto PROVE Cardinality(Missing(i, p)) <= Cardinality(M)
  <2>1. Missing(i, p) \in SUBSET M
    BY <1>2, <1>3 DEF Missing
  <2> QED
    BY <1>7, <2>1, FS_Subset
<1> QED
  BY <1>2, <1>3, <1>5, <1>7, <1>8, <1>9, <1>10 DEF Resident

(* What was added for a file is a number. *)
LEMMA AddedIsNumber ==
  ASSUME ScreenInv, NEW i \in Announced
  PROVE  /\ Added(i) \in Nat
         /\ work[i].at = "output" =>
              ActionPages(Resident(work[i].before), Resident(work[i].after)) \in Nat
<1>1. /\ effect \in {"Preserve", "Populate", "EvictAdvisory"} /\ work[i].reported \in Nat
      /\ work[i].before \in Seq(Nat) /\ (work[i].at = "output" => work[i].after \in Seq(Nat))
  BY Numbers
<1>2. Resident(work[i].before) \in Nat /\ (work[i].at = "output" => Resident(work[i].after) \in Nat)
  BY <1>1, ResidentIn
<1>3. ASSUME work[i].at = "output"
      PROVE  ActionPages(Resident(work[i].before), Resident(work[i].after)) \in Nat
  BY <1>1, <1>2, <1>3 DEF ActionPages, Minus
<1> QED
  BY <1>1, <1>3 DEF Added, Minus

(* Nothing has been added before anything was announced. *)
LEMMA InitStats == ScreenInit => StatsInv
<1> SUFFICES ASSUME ScreenInit
             PROVE  StatsInv
  OBVIOUS
<1>1. \A i \in Ids : work[i].at = "idle"
  BY DEF ScreenInit, Idle
<1>2. Announced = {}
  BY <1>1 DEF Announced
<1>3. IsFiniteSet({}) /\ Cardinality({}) = 0
  BY FS_EmptySet
<1>4. \A f \in [{} -> Nat] : SumOf(f) = 0
  BY <1>3, SumStep
<1>5. stats = [files |-> 0, total |-> 0, initial |-> 0, action |-> 0]
  BY DEF ScreenInit, NoStats
<1>6. \A k : Booked(k) = {}
  BY <1>2 DEF Booked
<1>7. SumOf([i \in Booked("total") |-> Len(work[i].before)]) = 0
  BY <1>4, <1>6
<1>8. SumOf([i \in Booked("initial") |-> Resident(work[i].before)]) = 0
  BY <1>4, <1>6
<1>9. SumOf([i \in Announced |-> Added(i)]) = 0
  BY <1>2, <1>4
<1>10. Adding
  BY DEF ScreenInit, Adding
<1> QED
  BY <1>2, <1>3, <1>5, <1>6, <1>7, <1>8, <1>9, <1>10 DEF StatsInv

(* Whatever leaves work and statistics alone leaves the sums as they are. *)
LEMMA QuietStats ==
  ASSUME StatsInv, UNCHANGED <<effect, work, stats, adding>>
  PROVE  StatsInv' /\ NoLess(stats, stats')
<1>1. Announced' = Announced /\ \A k : Booked(k)' = Booked(k)
  BY DEF Announced, Booked
<1>2. \A i \in Announced : Added(i)' = Added(i) /\ Accounted(i)' = Accounted(i)
  BY DEF Added, ActionPages, Accounted, Missing, Afterwards
<1>3. Adding'
  BY DEF StatsInv, Adding
<1> QED
  BY <1>1, <1>2, <1>3 DEF StatsInv, NoLess

(* A file is sampled: the counters are still to be told. *)
LEMMA AnnounceStats ==
  ASSUME ScreenInv, ScreenInv', StatsInv, NEW i \in Ids, Announce(i)
  PROVE  StatsInv' /\ NoLess(stats, stats')
<1>1. PICK len \in Lens : \E bytes \in Probed(len) :
        work' = [work EXCEPT ![i] = [Idle EXCEPT
                  !.at = "walk", !.len = len, !.before = bytes,
                  !.outbox = <<[kind |-> "start", id |-> i, total |-> TotalPages(len),
                                residency |-> FromResidencyBytes(bytes)]>>]]
  BY DEF Announce
<1>2. PICK bytes \in Probed(len) :
        work' = [work EXCEPT ![i] = [Idle EXCEPT
                  !.at = "walk", !.len = len, !.before = bytes,
                  !.outbox = <<[kind |-> "start", id |-> i, total |-> TotalPages(len),
                                residency |-> FromResidencyBytes(bytes)]>>]]
  BY <1>1
<1>3. /\ work \in [Ids -> Record] /\ work[i] = Idle /\ Idle.at = "idle"
      /\ effect' = effect /\ stats' = stats
      /\ adding' = [adding EXCEPT ![i] = {"files", "total", "initial"}]
  BY DEF ScreenInv, Delivered, WorkTyped, Announce, Idle
<1>4. PICK start : start = [kind |-> "start", id |-> i, total |-> TotalPages(len),
                            residency |-> FromResidencyBytes(bytes)]
  OBVIOUS
<1>5. /\ work'[i].at = "walk" /\ work'[i].reported = 0 /\ work'[i].page = 0
      /\ work'[i].outbox = <<start>> /\ start.kind = "start"
      /\ \A j \in Ids \ {i} : work'[j] = work[j]
  BY <1>2, <1>3, <1>4 DEF Idle
<1>6. PICK A : A = Announced
  OBVIOUS
<1>7. i \notin A /\ Announced' = A \cup {i} /\ IsFiniteSet(A)
      /\ \A j \in A : j \in Ids /\ work'[j] = work[j]
  BY <1>3, <1>5, <1>6 DEF Announced, StatsInv
<1>8. IsFiniteSet(A \cup {i})
  BY <1>7, FS_AddElement
<1>9. adding \in [Ids -> SUBSET {"files", "total", "initial"}]
  BY DEF StatsInv, Adding
<1>10. adding'[i] = {"files", "total", "initial"} /\ \A j \in Ids \ {i} : adding'[j] = adding[j]
  BY <1>3, <1>9
<1>11. Adding'
  <2>1. adding' \in [Ids -> SUBSET {"files", "total", "initial"}]
    BY <1>3, <1>9
  <2>2. ASSUME NEW j \in Ids, adding'[j] # {}
        PROVE  work'[j].at = "walk" /\ \E e : e.kind = "start" /\ work'[j].outbox = <<e>>
    <3>1. CASE j = i
      BY <1>5, <3>1
    <3>2. CASE j # i
      <4>1. adding[j] # {} /\ work'[j] = work[j]
        BY <1>5, <1>10, <2>2, <3>2
      <4> QED
        BY <4>1 DEF StatsInv, Adding
    <3> QED
      BY <3>1, <3>2
  <2> QED
    BY <2>1, <2>2 DEF Adding
<1>12. ASSUME NEW k \in {"files", "total", "initial"} PROVE Booked(k)' = Booked(k)
  <2>1. Booked(k)' = {j \in A \cup {i} : k \notin adding'[j]}
    BY <1>7 DEF Booked
  <2>2. \A j \in A : adding'[j] = adding[j]
    BY <1>7, <1>10
  <2>3. k \in adding'[i]
    BY <1>10
  <2> QED
    BY <1>6, <2>1, <2>2, <2>3 DEF Booked
<1>13. \A k \in {"files", "total", "initial"} : \A j \in Booked(k) : work'[j] = work[j]
  BY <1>6, <1>7 DEF Booked
<1>14. /\ [j \in Booked("total")' |-> Len(work'[j].before)]
            = [j \in Booked("total") |-> Len(work[j].before)]
       /\ [j \in Booked("initial")' |-> Resident(work'[j].before)]
            = [j \in Booked("initial") |-> Resident(work[j].before)]
       /\ Booked("files")' = Booked("files")
  BY <1>12, <1>13
<1>15. \A j \in A : Added(j) \in Nat
  BY <1>6, AddedIsNumber
<1>16. Added(i)' = 0 /\ \A j \in A : Added(j)' = Added(j)
  <2>1. Added(i)' = 0
    BY <1>5 DEF Added
  <2>2. ASSUME NEW j \in A PROVE Added(j)' = Added(j)
    <3>1. work'[j] = work[j] /\ effect' = effect
      BY <1>3, <1>7
    <3> QED
      BY <3>1 DEF Added, ActionPages
  <2> QED
    BY <2>1, <2>2
<1>17. SumOf([j \in A \cup {i} |-> Added(j)']) = SumOf([j \in A |-> Added(j)])
  <2>1. PICK f : f = [j \in A |-> Added(j)]
    OBVIOUS
  <2>2. PICK g : g = [j \in A \cup {i} |-> Added(j)']
    OBVIOUS
  <2>3. f \in [A -> Nat] /\ g \in [A \cup {i} -> Nat] /\ (\A j \in A : g[j] = f[j]) /\ g[i] = 0
    BY <1>15, <1>16, <2>1, <2>2
  <2>4. SumOf(g) = SumOf(f) + g[i]
    BY ONLY <1>7, <2>3, SumGains
  <2>5. SumOf(f) \in Nat
    BY <1>7, <2>3, SumStep
  <2> QED
    BY <2>1, <2>2, <2>3, <2>4, <2>5
<1>18. Accounted(i)'
  <2>1. Missing(i, work[i].page)' = {}
    BY <1>5 DEF Missing
  <2>2. Cardinality({}) = 0
    BY FS_EmptySet
  <2> QED
    BY <1>5, <2>1, <2>2 DEF Accounted
<1>19. \A j \in A : Accounted(j)'
  <2> TAKE j \in A
  <2>1. work'[j] = work[j] /\ effect' = effect /\ Accounted(j)
    BY <1>3, <1>6, <1>7 DEF StatsInv
  <2>2. Missing(j, work[j].page)' = Missing(j, work[j].page)
    BY <2>1 DEF Missing
  <2>3. Afterwards(j)' = Afterwards(j)
    BY <2>1 DEF Afterwards
  <2> QED
    BY <2>1, <2>2, <2>3 DEF Accounted
<1>20. /\ stats \in [files : Nat, total : Nat, initial : Nat, action : Nat]
       /\ stats.files = Cardinality(Booked("files"))
       /\ stats.total = SumOf([j \in Booked("total") |-> Len(work[j].before)])
       /\ stats.initial = SumOf([j \in Booked("initial") |-> Resident(work[j].before)])
       /\ stats.action = SumOf([j \in A |-> Added(j)])
  BY <1>6 DEF StatsInv
<1>21. NoLess(stats, stats')
  BY <1>3, <1>20 DEF NoLess
<1>22. /\ stats'.files = Cardinality(Booked("files")')
       /\ stats'.total = SumOf([j \in Booked("total")' |-> Len(work'[j].before)])
       /\ stats'.initial = SumOf([j \in Booked("initial")' |-> Resident(work'[j].before)])
  BY <1>3, <1>14, <1>20
<1>23. stats'.action = SumOf([j \in A \cup {i} |-> Added(j)'])
  BY <1>3, <1>17, <1>20
<1>24. \A j \in A \cup {i} : Accounted(j)'
  BY <1>18, <1>19
<1>25. stats' \in [files : Nat, total : Nat, initial : Nat, action : Nat]
  BY <1>3, <1>20
<1>26. StatsInv'
  BY <1>7, <1>8, <1>11, <1>22, <1>23, <1>24, <1>25 DEF StatsInv
<1> QED
  BY <1>21, <1>26

(* A counter is told of a file. *)
LEMMA AddStats ==
  ASSUME ScreenInv, ScreenInv', StatsInv, NEW i \in Ids, Add(i)
  PROVE  StatsInv' /\ NoLess(stats, stats')
<1>1. PICK k \in adding[i] :
        /\ stats' = [stats EXCEPT ![k] = @ + Amount(i)[k]]
        /\ adding' = [adding EXCEPT ![i] = @ \ {k}]
  BY DEF Add
<1>2. adding \in [Ids -> SUBSET {"files", "total", "initial"}] /\ work' = work /\ effect' = effect
  BY DEF StatsInv, Adding, Add
<1>3. i \in Announced /\ k \in {"files", "total", "initial"} /\ i \notin Booked(k)
  BY <1>1, <1>2 DEF StatsInv, Adding, Announced, Booked
<1>4. PICK A : A = Announced
  OBVIOUS
<1>5. /\ Announced' = A /\ IsFiniteSet(A) /\ Booked(k)' = Booked(k) \cup {i}
      /\ \A m \in {"files", "total", "initial"} : Booked(m) \subseteq A
      /\ \A m \in {"files", "total", "initial"} \ {k} : Booked(m)' = Booked(m)
  <2>1. Announced' = A /\ IsFiniteSet(A)
    BY <1>2, <1>4 DEF Announced, StatsInv
  <2>2. adding'[i] = adding[i] \ {k} /\ \A j \in Ids \ {i} : adding'[j] = adding[j]
    BY <1>1, <1>2
  <2>3. \A j \in A : j \in Ids
    BY <1>4 DEF Announced
  <2> QED
    BY <1>3, <1>4, <2>1, <2>2, <2>3 DEF Booked
<1>6. Adding'
  BY <1>1, <1>2 DEF StatsInv, Adding
<1>7. \A j : Added(j)' = Added(j)
  BY <1>2 DEF Added, ActionPages
<1>8. \A j \in A : Accounted(j)'
  BY <1>2, <1>4 DEF StatsInv, Accounted, Missing, Afterwards
<1>9. \A j \in A : Len(work[j].before) \in Nat /\ Resident(work[j].before) \in Nat
  BY <1>4, Numbers, ResidentIn
<1>10. \A m \in {"files", "total", "initial"} : IsFiniteSet(Booked(m))
  BY <1>5, FS_Subset
<1>11. /\ stats \in [files : Nat, total : Nat, initial : Nat, action : Nat]
       /\ stats.files = Cardinality(Booked("files"))
       /\ stats.total = SumOf([j \in Booked("total") |-> Len(work[j].before)])
       /\ stats.initial = SumOf([j \in Booked("initial") |-> Resident(work[j].before)])
       /\ stats.action = SumOf([j \in A |-> Added(j)])
  BY <1>4 DEF StatsInv
<1>12. SumOf([j \in A |-> Added(j)']) = SumOf([j \in A |-> Added(j)])
  BY <1>7
<1>13. CASE k = "files"
  <2>1. stats' = [stats EXCEPT !.files = @ + 1]
    BY <1>1, <1>13 DEF Amount
  <2>2. Cardinality(Booked("files")') = Cardinality(Booked("files")) + 1
    <3>1. PICK B : B = Booked("files")
      OBVIOUS
    <3>2. IsFiniteSet(B) /\ i \notin B /\ Booked("files")' = B \cup {i}
      BY <1>3, <1>5, <1>10, <1>13, <3>1
    <3>3. Cardinality(B \cup {i}) = Cardinality(B) + 1
      BY <3>2, FS_AddElement
    <3> QED
      BY <3>1, <3>2, <3>3
  <2>3. Booked("total")' = Booked("total") /\ Booked("initial")' = Booked("initial")
    BY <1>5, <1>13
  <2>4. /\ stats' \in [files : Nat, total : Nat, initial : Nat, action : Nat]
        /\ stats'.files = stats.files + 1 /\ stats'.total = stats.total
        /\ stats'.initial = stats.initial /\ stats'.action = stats.action
    BY <1>11, <2>1
  <2> QED
    BY <1>2, <1>5, <1>6, <1>8, <1>11, <1>12, <2>2, <2>3, <2>4 DEF StatsInv, NoLess
<1>14. CASE k = "total"
  <2>1. PICK n \in Nat : n = Len(work[i].before)
    BY <1>3, <1>4, <1>9
  <2>2. stats' = [stats EXCEPT !.total = @ + n]
    <3>1. Amount(i)[k] = n
      BY <1>3, <1>14, <2>1, Numbers DEF Amount
    <3> QED
      BY <1>1, <1>14, <3>1
  <2>3. PICK B, C : B = Booked("total") /\ C = B \cup {i}
    OBVIOUS
  <2>4. SumOf([j \in C |-> Len(work[j].before)]) = SumOf([j \in B |-> Len(work[j].before)]) + n
    <3>1. PICK f : f = [j \in B |-> Len(work[j].before)]
      OBVIOUS
    <3>2. PICK g : g = [j \in C |-> Len(work[j].before)]
      OBVIOUS
    <3>3. B \subseteq A /\ C \subseteq A /\ i \in C
      BY <1>3, <1>4, <1>5, <2>3
    <3>4. f \in [B -> Nat] /\ g \in [B \cup {i} -> Nat] /\ \A j \in B : g[j] = f[j]
      BY <1>9, <2>3, <3>1, <3>2, <3>3
    <3>5. i \notin B /\ IsFiniteSet(B) /\ g[i] = n
      BY <1>3, <1>10, <1>14, <2>1, <2>3, <3>2, <3>3
    <3>6. SumOf(g) = SumOf(f) + g[i]
      BY ONLY <3>4, <3>5, SumGains
    <3> QED
      BY <3>1, <3>2, <3>5, <3>6
  <2>5. Booked("total")' = C /\ Booked("files")' = Booked("files")
        /\ Booked("initial")' = Booked("initial")
    BY <1>5, <1>14, <2>3
  <2>6. /\ stats' \in [files : Nat, total : Nat, initial : Nat, action : Nat]
        /\ stats'.files = stats.files /\ stats'.total = stats.total + n
        /\ stats'.initial = stats.initial /\ stats'.action = stats.action
    BY <1>11, <2>2
  <2>7. stats'.total = SumOf([j \in Booked("total")' |-> Len(work'[j].before)])
    BY <1>2, <1>11, <2>3, <2>4, <2>5, <2>6
  <2> QED
    BY <1>2, <1>5, <1>6, <1>8, <1>11, <1>12, <2>5, <2>6, <2>7 DEF StatsInv, NoLess
<1>15. CASE k = "initial"
  <2>1. PICK n \in Nat : n = Resident(work[i].before)
    BY <1>3, <1>4, <1>9
  <2>2. stats' = [stats EXCEPT !.initial = @ + n]
    <3>1. work[i].before \in Seq(Nat)
      BY <1>3, Numbers
    <3>2. Amount(i)[k] = n
      BY <1>15, <2>1, <3>1, ResidentIn DEF Amount
    <3> QED
      BY <1>1, <1>15, <3>2
  <2>3. PICK B, C : B = Booked("initial") /\ C = B \cup {i}
    OBVIOUS
  <2>4. SumOf([j \in C |-> Resident(work[j].before)])
          = SumOf([j \in B |-> Resident(work[j].before)]) + n
    <3>1. PICK f : f = [j \in B |-> Resident(work[j].before)]
      OBVIOUS
    <3>2. PICK g : g = [j \in C |-> Resident(work[j].before)]
      OBVIOUS
    <3>3. B \subseteq A /\ C \subseteq A /\ i \in C
      BY <1>3, <1>4, <1>5, <2>3
    <3>4. f \in [B -> Nat] /\ g \in [B \cup {i} -> Nat] /\ \A j \in B : g[j] = f[j]
      BY <1>9, <2>3, <3>1, <3>2, <3>3
    <3>5. i \notin B /\ IsFiniteSet(B) /\ g[i] = n
      BY <1>3, <1>10, <1>15, <2>1, <2>3, <3>2, <3>3
    <3>6. SumOf(g) = SumOf(f) + g[i]
      BY ONLY <3>4, <3>5, SumGains
    <3> QED
      BY <3>1, <3>2, <3>5, <3>6
  <2>5. Booked("initial")' = C /\ Booked("files")' = Booked("files")
        /\ Booked("total")' = Booked("total")
    BY <1>5, <1>15, <2>3
  <2>6. /\ stats' \in [files : Nat, total : Nat, initial : Nat, action : Nat]
        /\ stats'.files = stats.files /\ stats'.total = stats.total
        /\ stats'.initial = stats.initial + n /\ stats'.action = stats.action
    BY <1>11, <2>2
  <2>7. stats'.initial = SumOf([j \in Booked("initial")' |-> Resident(work'[j].before)])
    BY <1>2, <1>11, <2>3, <2>4, <2>5, <2>6
  <2> QED
    BY <1>2, <1>5, <1>6, <1>8, <1>11, <1>12, <2>5, <2>6, <2>7 DEF StatsInv, NoLess
<1> QED
  BY <1>3, <1>13, <1>14, <1>15

(* A worker adds to the action, for its own file. *)
LEMMA OneFileStats ==
  ASSUME ScreenInv, ScreenInv', StatsInv, NEW i \in Announced, NEW d \in Nat,
         effect' = effect, stats' = [stats EXCEPT !.action = @ + d],
         adding' = adding, adding[i] = {},
         \A j \in Ids \ {i} : work'[j] = work[j],
         work'[i].at # "idle", work'[i].before = work[i].before,
         Added(i)' = Added(i) + d, Accounted(i)'
  PROVE  StatsInv' /\ NoLess(stats, stats')
<1>1. PICK A : A = Announced
  OBVIOUS
<1>2. /\ i \in A /\ Announced' = A /\ IsFiniteSet(A)
      /\ \A j \in A : j \in Ids /\ work'[j].before = work[j].before
      /\ \A j \in A \ {i} : work'[j] = work[j]
  BY <1>1 DEF Announced, StatsInv
<1>3. \A j \in A \ {i} : Added(j)' = Added(j) /\ Accounted(j)'
  <2> TAKE j \in A \ {i}
  <2>1. work'[j] = work[j] /\ effect' = effect /\ Accounted(j)
    BY <1>1, <1>2 DEF StatsInv
  <2>2. Added(j)' = Added(j)
    BY <2>1 DEF Added, ActionPages
  <2>3. Missing(j, work[j].page)' = Missing(j, work[j].page)
    BY <2>1 DEF Missing
  <2>4. Afterwards(j)' = Afterwards(j)
    BY <2>1 DEF Afterwards
  <2> QED
    BY <2>1, <2>2, <2>3, <2>4 DEF Accounted
<1>4. SumOf([j \in A |-> Added(j)']) = SumOf([j \in A |-> Added(j)]) + d
  <2>1. PICK f : f = [j \in A |-> Added(j)]
    OBVIOUS
  <2>2. PICK g : g = [j \in A |-> Added(j)']
    OBVIOUS
  <2>3. \A j \in A : Added(j) \in Nat
    BY <1>1, AddedIsNumber
  <2>4. f \in [A -> Nat] /\ g \in [A -> Nat] /\ g[i] = f[i] + d /\ \A j \in A \ {i} : g[j] = f[j]
    BY <1>2, <1>3, <2>1, <2>2, <2>3
  <2>5. d \in Nat
    OBVIOUS
  <2>6. SumOf(g) = SumOf(f) + d
    BY ONLY <1>2, <2>4, <2>5, SumGrows
  <2> QED
    BY <2>1, <2>2, <2>6
<1>5. /\ \A k : Booked(k)' = Booked(k) /\ Booked(k) \subseteq A
      /\ [j \in Booked("total") |-> Len(work'[j].before)]
           = [j \in Booked("total") |-> Len(work[j].before)]
      /\ [j \in Booked("initial") |-> Resident(work'[j].before)]
           = [j \in Booked("initial") |-> Resident(work[j].before)]
  <2>1. \A k : Booked(k)' = Booked(k) /\ Booked(k) \subseteq A
    BY <1>1, <1>2 DEF Booked
  <2>2. \A k : \A j \in Booked(k) : work'[j].before = work[j].before
    BY <1>2, <2>1
  <2> QED
    BY <2>1, <2>2
<1>6. /\ stats \in [files : Nat, total : Nat, initial : Nat, action : Nat]
      /\ stats.files = Cardinality(Booked("files"))
      /\ stats.total = SumOf([j \in Booked("total") |-> Len(work[j].before)])
      /\ stats.initial = SumOf([j \in Booked("initial") |-> Resident(work[j].before)])
      /\ stats.action = SumOf([j \in A |-> Added(j)])
  BY <1>1 DEF StatsInv
<1>7. /\ stats' \in [files : Nat, total : Nat, initial : Nat, action : Nat]
      /\ stats'.files = stats.files /\ stats'.total = stats.total
      /\ stats'.initial = stats.initial /\ stats'.action = stats.action + d
  BY <1>6
<1>8. \A j \in A : Accounted(j)'
  BY <1>3
<1>9. Adding'
  BY DEF StatsInv, Adding
<1>10. NoLess(stats, stats')
  BY <1>6, <1>7 DEF NoLess
<1>11. /\ stats'.files = Cardinality(Booked("files")')
       /\ stats'.total = SumOf([j \in Booked("total")' |-> Len(work'[j].before)])
       /\ stats'.initial = SumOf([j \in Booked("initial")' |-> Resident(work'[j].before)])
  BY <1>5, <1>6, <1>7
<1>12. stats'.action = SumOf([j \in A |-> Added(j)'])
  BY <1>4, <1>6, <1>7
<1>13. StatsInv'
  BY <1>2, <1>7, <1>8, <1>9, <1>11, <1>12 DEF StatsInv
<1> QED
  BY <1>10, <1>13

\* A worker that can go on, or send, has told every counter.
LEMMA ToldAll ==
  ASSUME StatsInv, NEW i \in Ids, Between(i) \/ adding[i] = {}
  PROVE  adding[i] = {}
<1> SUFFICES ASSUME adding[i] # {}, work[i].outbox = <<>>
             PROVE  FALSE
  BY DEF Between
<1>1. PICK e : work[i].outbox = <<e>>
  BY DEF StatsInv, Adding
<1> QED
  BY <1>1

\* A worker that has something to do has announced its file.
LEMMA BusyIsAnnounced ==
  ASSUME ScreenInv, NEW i \in Ids, work[i].at = "walk" \/ work[i].outbox # <<>>
  PROVE  i \in Announced /\ work \in [Ids -> Record]
BY DEF ScreenInv, Delivered, WorkTyped, Announced, Idle

(* Nothing is added by a step that changes nothing but the outbox, or fails. *)
LEMMA IdleStats ==
  ASSUME ScreenInv, ScreenInv', StatsInv, NEW i \in Announced,
         effect' = effect, stats' = stats, adding' = adding, adding[i] = {},
         \A j \in Ids \ {i} : work'[j] = work[j],
         work'[i].at = work[i].at \/ (work[i].at = "walk" /\ work'[i].at = "error"),
         work'[i].before = work[i].before, work'[i].reported = work[i].reported,
         work'[i].page = work[i].page, work'[i].after = work[i].after,
         work'[i].len = work[i].len
  PROVE  StatsInv' /\ NoLess(stats, stats')
<1>1. Accounted(i) /\ work[i].at # "idle"
      /\ stats \in [files : Nat, total : Nat, initial : Nat, action : Nat]
  BY DEF StatsInv, Announced
<1>2. Missing(i, work[i].page)' = Missing(i, work[i].page)
  BY DEF Missing
<1>3. Afterwards(i)' = Afterwards(i)
  BY DEF Afterwards
<1>4. Accounted(i)'
  BY <1>1, <1>2, <1>3 DEF Accounted
<1>5. Added(i)' = Added(i)
  <2>1. CASE work[i].at = "walk" /\ work'[i].at = "error"
    BY <2>1 DEF Added
  <2>2. CASE work'[i].at = work[i].at
    <3>1. \A m, n : ActionPages(m, n)' = ActionPages(m, n)
      BY DEF ActionPages
    <3> QED
      BY <2>2, <3>1 DEF Added
  <2> QED
    BY <2>1, <2>2
<1>6. Added(i) \in Nat
  BY AddedIsNumber
<1>7. Added(i)' = Added(i) + 0 /\ stats' = [stats EXCEPT !.action = @ + 0] /\ 0 \in Nat
  BY <1>1, <1>5, <1>6
<1>8. work'[i].at # "idle"
  BY <1>1
<1> QED
  BY <1>4, <1>7, <1>8, OneFileStats

\* An event is sent.
LEMMA SendStats ==
  ASSUME ScreenInv, ScreenInv', StatsInv, NEW i \in Ids, Send(i)
  PROVE  StatsInv' /\ NoLess(stats, stats')
<1>1. i \in Announced /\ work \in [Ids -> Record]
  BY BusyIsAnnounced DEF Send
<1>2. work' = [work EXCEPT ![i].outbox = Tail(@)] /\ effect' = effect /\ stats' = stats
      /\ adding' = adding /\ adding[i] = {}
  BY DEF Send
<1>3. /\ \A j \in Ids \ {i} : work'[j] = work[j]
      /\ work'[i].at = work[i].at
      /\ work'[i].before = work[i].before /\ work'[i].reported = work[i].reported
      /\ work'[i].page = work[i].page /\ work'[i].after = work[i].after
      /\ work'[i].len = work[i].len
  BY <1>1, <1>2 DEF Announced, Record
<1> QED
  BY <1>1, <1>2, <1>3, IdleStats

\* An operation fails.
LEMMA FailStats ==
  ASSUME ScreenInv, ScreenInv', StatsInv, NEW i \in Ids, Fail(i)
  PROVE  StatsInv' /\ NoLess(stats, stats')
<1>1. i \in Announced /\ work \in [Ids -> Record] /\ work[i].at = "walk"
  BY BusyIsAnnounced DEF Fail, Between
<1>2. work' = [work EXCEPT ![i].at = "error", ![i].outbox = <<[kind |-> "done", id |-> i]>>]
      /\ effect' = effect /\ stats' = stats /\ adding' = adding /\ adding[i] = {}
  BY ToldAll DEF Fail
<1>3. /\ \A j \in Ids \ {i} : work'[j] = work[j]
      /\ work'[i].at = "error"
      /\ work'[i].before = work[i].before /\ work'[i].reported = work[i].reported
      /\ work'[i].page = work[i].page /\ work'[i].after = work[i].after
      /\ work'[i].len = work[i].len
  BY <1>1, <1>2 DEF Announced, Record
<1> QED
  BY <1>1, <1>2, <1>3, IdleStats

(* A walk reports: what is new since its last report is added. *)
LEMMA ReportStats ==
  ASSUME ScreenInv, ScreenInv', StatsInv, NEW i \in Ids, Report(i)
  PROVE  StatsInv' /\ NoLess(stats, stats')
<1>1. i \in Announced /\ work \in [Ids -> Record] /\ work[i].at = "walk"
  BY BusyIsAnnounced DEF Report, Between
<1>2. PICK p \in Due(i) :
        /\ stats' = [stats EXCEPT !.action =
                       @ + Minus(Cardinality(Missing(i, p)), work[i].reported)]
        /\ work' = [work EXCEPT
             ![i].page = p, ![i].reported = Cardinality(Missing(i, p)),
             ![i].outbox = <<[kind |-> "progress", id |-> i, offset |-> 0, count |-> p,
                              resident |-> TRUE]>>]
  BY DEF Report
<1>3. PICK touched : touched = Cardinality(Missing(i, p))
  OBVIOUS
<1>4. /\ effect' = effect /\ work'[i].at = "walk" /\ work'[i].before = work[i].before
      /\ work'[i].reported = touched /\ work'[i].page = p
      /\ \A j \in Ids \ {i} : work'[j] = work[j]
  BY <1>1, <1>2, <1>3 DEF Report, Record
<1>5. /\ Len(work[i].before) = TotalPages(work[i].len) /\ Len(work[i].before) \in Nat
      /\ work[i].page \in Nat /\ work[i].reported \in Nat
  BY <1>1, Numbers
<1>6. p \in 0 .. Len(work[i].before) /\ p > work[i].page
  BY <1>5 DEF Due, Missing
<1>7. Accounted(i)
  BY <1>1 DEF StatsInv
<1>8. touched \in Nat /\ work[i].reported <= touched
  <2>1. work[i].page \in 0 .. p
    BY <1>5, <1>6
  <2>2. Cardinality(Missing(i, work[i].page)) <= Cardinality(Missing(i, p))
        /\ Cardinality(Missing(i, p)) \in Nat
    BY <1>1, <1>6, <2>1, MissingIn
  <2> QED
    BY <1>3, <1>7, <2>2 DEF Accounted
<1>9. PICK d \in Nat : d = touched - work[i].reported
  BY <1>5, <1>8
<1>10. stats' = [stats EXCEPT !.action = @ + d]
  <2>1. Minus(touched, work[i].reported) = d
    BY <1>5, <1>8, <1>9 DEF Minus
  <2> QED
    BY <1>2, <1>3, <2>1
<1>11. Added(i)' = Added(i) + d
  <2>1. Added(i) = work[i].reported + 0 /\ Added(i)' = touched + 0
    BY <1>1, <1>4 DEF Added
  <2> QED
    BY <1>5, <1>8, <1>9, <2>1
<1>12. Accounted(i)'
  <2>1. Missing(i, work[i].page)' = Missing(i, p)
    BY <1>4 DEF Missing
  <2> QED
    BY <1>3, <1>4, <2>1 DEF Accounted
<1>13. work'[i].at # "idle" /\ work'[i].before = work[i].before
  BY <1>4
<1>14. adding' = adding /\ adding[i] = {}
  BY ToldAll DEF Report
<1> QED
  BY <1>1, <1>4, <1>10, <1>11, <1>12, <1>13, <1>14, OneFileStats

(* An operation succeeds: what its walk has not reported is added. *)
LEMMA FinishStats ==
  ASSUME ScreenInv, ScreenInv', StatsInv, NEW i \in Ids, Finish(i)
  PROVE  StatsInv' /\ NoLess(stats, stats')
<1>1. i \in Announced /\ work \in [Ids -> Record] /\ work[i].at = "walk"
  BY BusyIsAnnounced DEF Finish, Between
<1>2. PICK after \in Afterwards(i) :
        /\ stats' = [stats EXCEPT !.action =
                       @ + Minus(ActionPages(Count(FromResidencyBytes(work[i].before)),
                                             Count(MapAfter(after))),
                                 work[i].reported)]
        /\ work' = [work EXCEPT
             ![i].at = "output", ![i].after = after,
             ![i].outbox = ResidencyEvents(i, MapAfter(after)) \o <<[kind |-> "done", id |-> i]>>]
  BY DEF Finish
<1>3. after \in Seq(Nat) /\ Len(after) = Len(work[i].before)
      /\ MapAfter(after) \in Seq(BOOLEAN) /\ Len(MapAfter(after)) = Len(after)
  BY <1>1, WhatIsLeft DEF ScreenInv
<1>4. \A p \in 1 .. Len(after) : MapAfter(after)[p] <=> p \in PagesOf(after)
  BY <1>1, WhatIsLeft DEF ScreenInv
<1>5. Count(MapAfter(after)) = Resident(after) /\ Resident(after) \in Nat
  <2>0. PICK n \in Nat : n = Len(after)
    BY <1>3
  <2>1. PICK map : map = MapAfter(after) /\ n = Len(after)
    BY <2>0
  <2>2. Len(map) = n /\ \A p \in 0 + 1 .. n : map[p] <=> p \in PagesOf(after)
    BY <1>3, <1>4, <2>1
  <2>3. PagesOf(after) \subseteq 0 + 1 .. n
    BY <1>3, <2>1, ResidentIn
  <2>4. {p \in 0 + 1 .. n : map[p]} = PagesOf(after)
    BY <2>2, <2>3
  <2>5. Count(map) = Cardinality(PagesOf(after))
    BY <2>2, <2>4 DEF Count, CountFilled
  <2>6. Resident(after) \in Nat
    BY <1>3, ResidentIn
  <2> QED
    BY <2>1, <2>5, <2>6 DEF Resident
<1>6. Count(FromResidencyBytes(work[i].before)) = Resident(work[i].before)
      /\ Resident(work[i].before) \in Nat /\ work[i].reported \in Nat
      /\ effect \in {"Preserve", "Populate", "EvictAdvisory"}
  BY <1>1, Numbers, ResidentIn
<1>7. /\ effect' = effect /\ work'[i].at = "output" /\ work'[i].before = work[i].before
      /\ work'[i].after = after /\ work'[i].len = work[i].len
      /\ work'[i].reported = work[i].reported /\ work'[i].page = work[i].page
      /\ \A j \in Ids \ {i} : work'[j] = work[j]
  BY <1>1, <1>2 DEF Finish, Record
<1>8. PICK d : d = Minus(ActionPages(Resident(work[i].before), Resident(after)), work[i].reported)
  OBVIOUS
<1>9. d \in Nat
  BY <1>5, <1>6, <1>8 DEF ActionPages, Minus
<1>10. stats' = [stats EXCEPT !.action = @ + d]
  BY <1>2, <1>5, <1>6, <1>8
<1>11. Added(i)' = Added(i) + d
  <2>1. Added(i) = work[i].reported + 0
    BY <1>1 DEF Added
  <2>2. \A m, n : ActionPages(m, n)' = ActionPages(m, n)
    BY <1>7 DEF ActionPages
  <2>3. Added(i)' = work[i].reported
                      + Minus(ActionPages(Resident(work[i].before), Resident(after)), work[i].reported)
    BY <1>7, <2>2 DEF Added
  <2> QED
    BY <1>6, <1>8, <2>1, <2>3
<1>12. Accounted(i)'
  <2>1. Missing(i, work[i].page)' = Missing(i, work[i].page)
    BY <1>7 DEF Missing
  <2>2. Afterwards(i)' = Afterwards(i)
    BY <1>7 DEF Afterwards
  <2>3. Accounted(i)
    BY <1>1 DEF StatsInv
  <2> QED
    BY <1>7, <2>1, <2>2, <2>3 DEF Accounted
<1>13. work'[i].at # "idle"
  BY <1>7
<1>14. adding' = adding /\ adding[i] = {}
  BY ToldAll DEF Finish
<1> QED
  BY <1>1, <1>7, <1>9, <1>10, <1>11, <1>12, <1>13, <1>14, OneFileStats

(* Every step keeps the sums. *)
LEMMA NextStats ==
  ScreenInv /\ ScreenInv' /\ StatsInv /\ [ScreenNext]_screenVars =>
    StatsInv' /\ NoLess(stats, stats')
<1> SUFFICES ASSUME ScreenInv, ScreenInv', StatsInv, [ScreenNext]_screenVars
             PROVE  StatsInv' /\ NoLess(stats, stats')
  OBVIOUS
<1>1. CASE UNCHANGED screenVars \/ Finished \/ AllDone \/ Handle
  <2>1. UNCHANGED <<effect, work, stats, adding>>
    BY <1>1 DEF screenVars, Finished, AllDone, Handle
  <2> QED
    BY <2>1, QuietStats
<1>2. CASE \E i \in Ids : Worker(i)
  BY <1>2, AnnounceStats, AddStats, ReportStats, FinishStats, FailStats, SendStats DEF Worker
<1> QED
  BY <1>1, <1>2 DEF ScreenNext

\* The sums hold at every moment.
LEMMA StatsHold == ScreenSpec => [](ScreenInv /\ StatsInv)
<1>1. ScreenInit => ScreenInv /\ StatsInv
  BY InitScreenInv, InitStats
<1>2. ScreenInv /\ StatsInv /\ [ScreenNext]_screenVars => (ScreenInv /\ StatsInv)'
  BY NextScreenInv, NextStats
<1> QED
  BY <1>1, <1>2, PTL DEF ScreenSpec

-----------------------------------------------------------------------------
(* No file is shown twice. *)
LEMMA ShownOnce ==
  ASSUME IInv, NEW shown, shown = Visible(MaxDisplay)
  PROVE  /\ shown \in Seq(File)
         /\ \A k, l \in DOMAIN shown : shown[k].id = shown[l].id => k = l
<1> DEFINE hide == Len(files) > MaxDisplay /\ \E n \in DOMAIN files : ~files[n].done
<1>1. PICK places : places = IF hide THEN DOMAIN files \ DoneIn(files) ELSE DOMAIN files
  OBVIOUS
<1>2. shown = Shown(places)
  BY <1>1 DEF Visible, Shown
<1>3. places \in SUBSET (1 .. Len(files)) /\ files \in Seq(File)
  <2>1. DOMAIN files = 1 .. Len(files) /\ files \in Seq(File)
    BY DEF IInv, Typed
  <2> QED
    BY <1>1, <2>1
<1> HIDE DEF hide
<1>4. PICK rows : rows = Sorted(places)
  OBVIOUS
<1>5. rows \in Seq(File)
  BY <1>3, <1>4, LargestFirst
<1>6. \A k \in 1 .. Len(rows) : \E n \in places : rows[k] = files[n]
  BY <1>3, <1>4, LargestFirst, SMTT(30)
<1>7. \A k, l \in 1 .. Len(rows) : k < l => Smaller(rows[l], rows[k])
  BY <1>3, <1>4, LargestFirst
<1>8. PICK last : last = IF Len(rows) > MaxDisplay THEN MaxDisplay ELSE Len(rows)
  OBVIOUS
<1>9. shown = SubSeq(rows, 1, last)
  BY <1>2, <1>4, <1>8 DEF Shown
<1>10. last \in Nat /\ last <= Len(rows) /\ Len(rows) \in Nat
  BY <1>5, <1>8, TuiAppAssumption
<1>11. shown \in Seq(File) /\ DOMAIN shown = 1 .. last /\ \A k \in 1 .. last : shown[k] = rows[k]
  <2>1. CASE last = 0
    BY <1>5, <1>9, <2>1
  <2>2. CASE last # 0
    <3>1. last \in 1 .. Len(rows)
      BY <1>10, <2>2
    <3>2. \A e \in 1 .. Len(rows) :
            /\ SubSeq(rows, 1, e) \in Seq(File) /\ Len(SubSeq(rows, 1, e)) = e
            /\ DOMAIN SubSeq(rows, 1, e) = 1 .. e
            /\ \A k \in 1 .. e : SubSeq(rows, 1, e)[k] = rows[k]
      BY <1>5
    <3> QED
      BY <1>9, <3>1, <3>2
  <2> QED
    BY <2>1, <2>2
<1>12. ASSUME NEW k \in 1 .. Len(rows), NEW l \in 1 .. Len(rows), k < l
       PROVE  rows[k].id # rows[l].id
  <2> SUFFICES ASSUME rows[k].id = rows[l].id PROVE FALSE
    OBVIOUS
  <2>1. PICK m \in places, n \in places : rows[k] = files[m] /\ rows[l] = files[n]
    BY <1>6
  <2>2. m = n
    BY <1>3, <2>1 DEF IInv, Located
  <2>3. PICK f \in File : f = files[m]
    BY <1>3
  <2>4. Smaller(f, f)
    BY <1>7, <1>12, <2>1, <2>2, <2>3
  <2>5. f.total \in Nat /\ f.id \in Nat
    <3>1. f.total \in 1 .. MaxPages /\ f.id \in Ids
      BY DEF File
    <3>2. 1 .. MaxPages \subseteq Nat /\ Ids \subseteq Nat
      BY TuiAppAssumption
    <3> QED
      BY ONLY <3>1, <3>2
  <2> QED
    BY <2>4, <2>5 DEF Smaller
<1>13. ASSUME NEW k \in 1 .. last, NEW l \in 1 .. last, shown[k].id = shown[l].id
       PROVE  k = l
  <2>1. k \in 1 .. Len(rows) /\ l \in 1 .. Len(rows)
    BY <1>10
  <2>2. shown[k] = rows[k] /\ shown[l] = rows[l]
    BY <1>11
  <2>3. ~(k < l) /\ ~(l < k)
    BY <1>12, <1>13, <2>1, <2>2
  <2> QED
    BY <2>1, <2>3, <1>10
<1> QED
  BY <1>11, <1>13

(* Each row is of a file of its own that was announced. *)
LEMMA RowsAreAnnounced ==
  ASSUME ScreenInv
  PROVE  /\ files \in Seq(File) /\ DOMAIN files = 1 .. Len(files) /\ Len(files) \in Nat
         /\ \A n \in 1 .. Len(files) : /\ files[n].id \in Announced /\ files[n].total \in Nat
                                       /\ files[n].total = Len(work[files[n].id].before)
                                       /\ files[n].resident \in Nat
         /\ \A m, n \in 1 .. Len(files) : files[m].id = files[n].id => m = n
<1>1. files \in Seq(File) /\ DOMAIN files = 1 .. Len(files) /\ Len(files) \in Nat
  BY DEF ScreenInv, IInv, Typed
<1>2. ASSUME NEW n \in 1 .. Len(files)
      PROVE  /\ files[n].id \in Announced /\ files[n].total \in Nat
             /\ files[n].total = Len(work[files[n].id].before)
             /\ files[n].resident \in Nat
  <2>1. files[n] \in File /\ files[n].id \in Ids
    BY RowsHaveFiles
  <2>2. work[files[n].id].at # "idle" /\ files[n].total = Len(work[files[n].id].before)
    BY DEF ScreenInv, Mapped
  <2>3. 1 .. MaxPages \subseteq Nat /\ 0 .. MaxPages \subseteq Nat
    BY TuiAppAssumption
  <2> QED
    BY <2>1, <2>2, <2>3 DEF Announced, File
<1>3. \A m, n \in 1 .. Len(files) : files[m].id = files[n].id => m = n
  BY DEF ScreenInv, IInv, Located
<1> QED
  BY <1>1, <1>2, <1>3

(* What the run has done to one file, and what it has left. *)
LEMMA OfOneFile ==
  ASSUME ScreenInv, StatsInv, NEW i \in Announced, NEW b, NEW n,
         b = Resident(work[i].before), n = Len(work[i].before)
  PROVE  /\ b \in Nat /\ n \in Nat /\ b <= n /\ Added(i) \in Nat /\ Left(i) \in Nat
         /\ effect = "Preserve" => Left(i) = b
         /\ effect = "Populate" => Left(i) = b + Added(i) /\ Left(i) <= n
         /\ effect = "EvictAdvisory" => Left(i) + Added(i) = b
<1>1. /\ work[i].before \in Seq(Nat) /\ effect \in {"Preserve", "Populate", "EvictAdvisory"}
      /\ work[i].at \in {"walk", "output", "error"} /\ work[i].page \in 0 .. n
      /\ work[i].page # 0 => effect = "Populate"
      /\ work[i].at = "output" => work[i].after \in Seq(Nat)
      /\ n \in Nat
  <2>1. work[i].page \in Nat /\ n \in Nat /\ work[i].page <= n
    BY Numbers
  <2>2. work[i].page \in 0 .. n
    BY <2>1
  <2> QED
    BY <2>1, <2>2, Numbers
<1>2. b \in Nat /\ b <= n
  BY <1>1, ResidentIn
<1>3. PICK r : r = work[i].reported
  OBVIOUS
<1>4. Accounted(i)
  BY DEF StatsInv
<1>5. r = Cardinality(Missing(i, work[i].page)) /\ r \in Nat /\ r + b <= n
  <2>1. Cardinality(Missing(i, work[i].page)) \in Nat
    BY <1>1, MissingIn
  <2>2. Cardinality(Missing(i, work[i].page)) + b <= n
    BY <1>1, MissingIn
  <2> QED
    BY <1>3, <1>4, <2>1, <2>2 DEF Accounted
<1>6. effect # "Populate" => r = 0
  <2> HAVE effect # "Populate"
  <2>1. Missing(i, work[i].page) = {}
    BY <1>1 DEF Missing
  <2> QED
    BY <1>5, <2>1, FS_EmptySet
<1>7. CASE work[i].at # "output"
  <2>1. Added(i) = r /\ Left(i) = b + r
    BY <1>3, <1>5, <1>7 DEF Added, Left, Resident
  <2> QED
    BY <1>1, <1>2, <1>5, <1>6, <2>1
<1>8. CASE work[i].at = "output"
  <2>1. PICK a : a = Resident(work[i].after)
    OBVIOUS
  <2>2. a \in Nat /\ work[i].after \in Afterwards(i)
    BY <1>1, <1>4, <1>8, <2>1, ResidentIn DEF Accounted
  <2>3. Added(i) = r + Minus(ActionPages(b, a), r)
    BY <1>3, <1>8, <2>1 DEF Added
  <2>4. Left(i) = IF effect = "EvictAdvisory" /\ b < a THEN b ELSE a
    BY <1>8, <2>1 DEF Left, Resident
  <2>5. CASE effect = "Preserve"
    <3>1. a = b
      BY <2>1, <2>2, <2>5 DEF Afterwards
    <3>2. Added(i) = 0
      BY <1>6, <2>3, <2>5 DEF ActionPages, Minus
    <3> QED
      BY <1>1, <1>2, <2>4, <2>5, <3>1, <3>2
  <2>6. CASE effect = "Populate"
    <3>1. work[i].after = [p \in DOMAIN work[i].before |-> 1]
      BY <2>2, <2>6 DEF Afterwards
    <3>2. PagesOf(work[i].after) = 1 .. n
      BY <1>1, <3>1 DEF PagesOf
    <3>3. a = n
      <4>1. 1 \in Int /\ n \in Int
        BY <1>1
      <4>2. Cardinality(1 .. n) = IF 1 > n THEN 0 ELSE n - 1 + 1
        BY <4>1, FS_Interval
      <4> QED
        BY <1>1, <2>1, <3>2, <4>2 DEF Resident
    <3>4. Added(i) = n - b
      <4>1. ActionPages(b, a) = Minus(n, b)
        BY <2>6, <3>3 DEF ActionPages
      <4>2. Minus(n, b) = n - b
        BY <1>1, <1>2 DEF Minus
      <4>3. Minus(n - b, r) = n - b - r
        BY <1>1, <1>2, <1>5 DEF Minus
      <4> QED
        BY <1>1, <1>2, <1>5, <2>3, <4>1, <4>2, <4>3
    <3> QED
      BY <1>1, <1>2, <2>4, <2>6, <3>3, <3>4
  <2>7. CASE effect = "EvictAdvisory"
    <3>1. Added(i) = Minus(b, a)
      BY <1>2, <1>6, <2>2, <2>3, <2>7 DEF ActionPages, Minus
    <3> QED
      BY <1>1, <1>2, <2>2, <2>4, <2>7, <3>1 DEF Minus
  <2> QED
    BY <1>1, <2>5, <2>6, <2>7
<1> QED
  BY <1>7, <1>8

(* When the display is done, a row has no less than what was left of its file. *)
LEMMA LeftIsShown ==
  ASSUME ScreenInv, StatsInv, flow = "done", NEW n \in 1 .. Len(files)
  PROVE  Left(files[n].id) <= files[n].resident
<1>1. PICK i \in Announced : i = files[n].id
  BY RowsAreAnnounced
<1>2. PICK f : f = files[n]
  OBVIOUS
<1>3. /\ i \in Ids /\ work[i].at \in {"walk", "output", "error"} /\ work[i].before \in Seq(Nat)
      /\ work[i].page \in Nat /\ work[i].page <= Len(work[i].before)
      /\ work[i].at = "output" => work[i].after \in Seq(Nat)
  BY Numbers
<1>4. closed /\ queue = <<>> /\ Working = {}
  BY DEF ScreenInv, Delivered, Ending
<1>5. work[i].at # "walk" /\ Flying(i) = {}
  BY <1>3, <1>4 DEF Working, Flying, Queued, Outbox
<1>6. f.done
  <2>1. Ended(i)
    BY <1>3, <1>5 DEF ScreenInv, Delivered, Phase
  <2> QED
    BY <1>1, <1>2, <2>1 DEF ScreenInv, Mapped
<1>7. f.resident = Cardinality(f.residency)
  BY <1>2 DEF ScreenInv, IInv, Counted
<1>8. /\ work[i].at = "output" => f.residency = PagesOf(work[i].after)
      /\ work[i].at = "error" => f.residency = PagesOf(work[i].before) \cup 1 .. work[i].page
  <2>1. MapsAreTrue /\ n \in DOMAIN files
    BY MappedIsTrue, RowsAreAnnounced
  <2> QED
    BY <1>1, <1>2, <1>6, <2>1 DEF MapsAreTrue
<1>9. PICK b : b = Resident(work[i].before)
  OBVIOUS
<1>10. b \in Nat
  BY <1>3, <1>9, ResidentIn
<1>11. CASE work[i].at = "output"
  <2>1. PICK a : a = Resident(work[i].after)
    OBVIOUS
  <2>2. a \in Nat /\ f.resident = a
    BY <1>3, <1>7, <1>8, <1>11, <2>1, ResidentIn DEF Resident
  <2>3. Left(i) = IF effect = "EvictAdvisory" /\ b < a THEN b ELSE a
    BY <1>9, <1>11, <2>1 DEF Left, Resident
  <2> QED
    BY <1>1, <1>2, <1>10, <2>2, <2>3
<1>12. CASE work[i].at = "error"
  <2>1. PICK p : p = work[i].page
    OBVIOUS
  <2>2. p \in 0 .. Len(work[i].before)
    BY <1>3, <2>1
  <2>3. PICK M, P : M = Missing(i, p) /\ P = PagesOf(work[i].before)
    OBVIOUS
  <2>4. IsFiniteSet(M) /\ M \subseteq 1 .. p /\ M \cap P = {}
    BY <2>2, <2>3, MissingIn
  <2>5. IsFiniteSet(P) /\ Cardinality(P) = b
    BY <1>3, <1>9, <2>3, ResidentIn DEF Resident
  <2>6. Cardinality(M \cup P) = Cardinality(M) + b
    <3>1. Cardinality(M \cup P) = Cardinality(M) - Cardinality(P \cap M) + Cardinality(P)
      BY <2>4, <2>5, Counting
    <3>2. P \cap M = {} /\ Cardinality(M) \in Nat
      BY <2>4, FS_CardinalityType
    <3>3. Cardinality(P \cap M) = 0
      BY <3>2, FS_EmptySet
    <3> QED
      BY <1>10, <2>5, <3>1, <3>2, <3>3
  <2>7. M \cup P \in SUBSET f.residency /\ IsFiniteSet(f.residency)
    <3>1. IsFiniteSet(1 .. p)
      BY <1>3, <2>1, FS_Interval
    <3>2. f.residency = P \cup 1 .. p
      BY <1>8, <1>12, <2>1, <2>3
    <3> QED
      BY <2>4, <2>5, <3>1, <3>2, FS_Union
  <2>8. Cardinality(M) + b <= f.resident
    BY <1>7, <2>6, <2>7, FS_Subset
  <2>9. Left(i) = b + Cardinality(M)
    <3>1. work[i].reported = Cardinality(M)
      BY <2>1, <2>3 DEF StatsInv, Accounted
    <3> QED
      BY <1>9, <1>12, <3>1 DEF Left, Resident
  <2>10. Cardinality(M) \in Nat
    BY <2>4, FS_CardinalityType
  <2> QED
    BY <1>1, <1>2, <1>10, <2>8, <2>9, <2>10
<1> QED
  BY <1>3, <1>5, <1>11, <1>12

(* What is started has been added: every counter was told of a row's file. *)
LEMMA RowsAreBooked ==
  ASSUME ScreenInv, StatsInv, NEW n \in 1 .. Len(files)
  PROVE  adding[files[n].id] = {}
<1>1. PICK i \in Announced : i = files[n].id
  BY RowsAreAnnounced
<1>2. i \in Ids /\ work[i].at # "idle"
  BY DEF Announced
<1> SUFFICES ASSUME adding[i] # {} PROVE FALSE
  BY <1>1
<1>3. PICK e : e.kind = "start" /\ work[i].outbox = <<e>>
  BY <1>2 DEF StatsInv, Adding
<1>4. work[i].at = "walk"
  BY <1>2 DEF StatsInv, Adding
<1>5. e \in Flying(i)
  <2>1. 1 \in DOMAIN Outbox(i) /\ Outbox(i)[1] = e
    BY <1>3 DEF Outbox
  <2> QED
    BY <2>1 DEF Flying
<1>6. StartFlies(i)
  BY <1>3, <1>5 DEF StartFlies
<1>7. ~Ended(i) /\ i \notin running
  BY <1>2, <1>4, <1>6 DEF ScreenInv, Delivered, Phase
<1>8. i \in running \/ Ended(i)
  BY <1>1 DEF ScreenInv, IInv, Located, Tracked, Ended
<1> QED
  BY <1>7, <1>8

(* The rows, and those that are shown, are within the totals. *)
LEMMA RowsAreWithin ==
  ASSUME ScreenInv, StatsInv
  PROVE  /\ SumOf([n \in DOMAIN files |-> files[n].total]) \in 0 .. stats.total
         /\ Len(files) \in 0 .. stats.files
         /\ Len(files) = stats.files =>
              \A i \in Booked("files") : \E n \in 1 .. Len(files) : files[n].id = i
<1>1. PICK A, B, D : A = Booked("total") /\ B = Booked("files") /\ D = 1 .. Len(files)
  OBVIOUS
<1>2. /\ IsFiniteSet(A) /\ A \subseteq Announced /\ IsFiniteSet(B) /\ stats.files = Cardinality(B)
      /\ stats.total = SumOf([i \in A |-> Len(work[i].before)])
  <2>1. A \in SUBSET Announced /\ B \in SUBSET Announced
    BY <1>1 DEF Booked
  <2>2. IsFiniteSet(Announced)
    BY DEF StatsInv
  <2>3. IsFiniteSet(A) /\ IsFiniteSet(B)
    BY <2>1, <2>2, FS_Subset
  <2> QED
    BY <1>1, <2>1, <2>3 DEF StatsInv
<1>3. /\ DOMAIN files = D /\ Len(files) \in Nat
      /\ \A n \in D : /\ files[n].id \in A /\ files[n].id \in B /\ files[n].total \in Nat
                      /\ files[n].total = Len(work[files[n].id].before)
      /\ \A m, n \in D : files[m].id = files[n].id => m = n
  BY <1>1, RowsAreAnnounced, RowsAreBooked DEF Booked
<1>4. IsFiniteSet(D) /\ Cardinality(D) = Len(files)
  <2>1. PICK k \in Nat : k = Len(files)
    BY <1>3
  <2>2. 1 \in Int /\ k \in Int
    OBVIOUS
  <2>3. IsFiniteSet(1 .. k) /\ Cardinality(1 .. k) = IF 1 > k THEN 0 ELSE k - 1 + 1
    BY <2>2, FS_Interval
  <2> QED
    BY <1>1, <2>1, <2>3
<1>5. PICK g : g = [i \in A |-> Len(work[i].before)]
  OBVIOUS
<1>6. g \in [A -> Nat]
  <2>1. \A i \in A : Len(work[i].before) \in Nat
    BY <1>2, Numbers
  <2> QED
    BY <1>5, <2>1
<1>14. stats.total \in Nat /\ stats.files \in Nat
  BY DEF StatsInv
<1>7. SumOf([n \in DOMAIN files |-> files[n].total]) \in 0 .. stats.total
  <2>1. PICK f : f = [n \in D |-> files[n].total]
    OBVIOUS
  <2>2. PICK h : h = [n \in D |-> files[n].id]
    OBVIOUS
  <2>3. f \in [D -> Nat] /\ h \in [D -> A]
    BY <1>3, <2>1, <2>2
  <2>4. \A m, n \in D : h[m] = h[n] => m = n
    BY <1>3, <2>2
  <2>5. \A n \in D : f[n] <= g[h[n]]
    BY <1>3, <1>5, <2>1, <2>2
  <2>6. SumOf(f) <= SumOf(g)
    BY ONLY <1>2, <1>4, <1>6, <2>3, <2>4, <2>5, SumWithin
  <2>7. SumOf(f) \in Nat
    BY <1>4, <2>3, SumStep
  <2> QED
    BY <1>2, <1>3, <1>5, <1>14, <2>1, <2>6, <2>7
<1>9. PICK h : h = [n \in D |-> files[n].id]
  OBVIOUS
<1>10. h \in Injection(D, B)
  <2>1. h \in [D -> B] /\ \A m, n \in D : h[m] = h[n] => m = n
    BY <1>3, <1>9
  <2> QED
    BY <2>1 DEF Injection, IsInjective
<1>11. Cardinality(D) <= Cardinality(B) /\ (Cardinality(D) = Cardinality(B) <=> h \in Surjection(D, B))
  BY <1>2, <1>10, FS_Injection
<1>12. ASSUME Len(files) = stats.files, NEW i \in B
       PROVE  \E n \in D : files[n].id = i
  <2>1. h \in Surjection(D, B)
    BY <1>2, <1>4, <1>11, <1>12
  <2>2. \E n \in D : h[n] = i
    BY <2>1 DEF Surjection
  <2> QED
    BY <1>9, <2>2
<1> QED
  BY <1>1, <1>2, <1>3, <1>4, <1>7, <1>11, <1>12, <1>14

(* The rows that are shown are within all the rows. *)
LEMMA ShownAreWithin ==
  ASSUME ScreenInv, StatsInv
  PROVE  SumOf([k \in DOMAIN Visible(MaxDisplay) |-> Visible(MaxDisplay)[k].total])
           \in 0 .. SumOf([n \in DOMAIN files |-> files[n].total])
<1>1. PICK shown, D : shown = Visible(MaxDisplay) /\ D = 1 .. Len(files)
  OBVIOUS
<1>2. PICK E : E = DOMAIN shown
  OBVIOUS
<1>3. DOMAIN files = D /\ Len(files) \in Nat /\ \A n \in D : files[n].total \in Nat
  BY <1>1, RowsAreAnnounced
<1>4. shown \in Seq(File) /\ \A k, l \in E : shown[k].id = shown[l].id => k = l
  BY <1>1, <1>2, ShownOnce DEF ScreenInv
<1>5. \A k \in E : \E n \in D : shown[k] = files[n]
  BY <1>1, <1>2, ShownAreRows DEF ScreenInv
<1>6. IsFiniteSet(D) /\ IsFiniteSet(E)
  <2>1. PICK k \in Nat : D = 1 .. k
    BY <1>1, <1>3
  <2>2. PICK l \in Nat : E = 1 .. l
    BY <1>2, <1>4
  <2>3. 1 \in Int /\ k \in Int /\ l \in Int
    OBVIOUS
  <2> QED
    BY <2>1, <2>2, <2>3, FS_Interval
<1>7. PICK f : f = [k \in E |-> shown[k].total]
  OBVIOUS
<1>8. PICK g : g = [n \in D |-> files[n].total]
  OBVIOUS
<1>9. PICK h : h = [k \in E |-> CHOOSE n \in D : shown[k] = files[n]]
  OBVIOUS
<1>10. \A k \in E : h[k] \in D /\ shown[k] = files[h[k]]
  BY <1>5, <1>9
<1>11. f \in [E -> Nat] /\ g \in [D -> Nat] /\ h \in [E -> D]
  <2>1. \A k \in E : shown[k].total \in Nat
    BY <1>3, <1>10
  <2> QED
    BY <1>3, <1>7, <1>8, <1>9, <1>10, <2>1
<1>12. \A k, l \in E : h[k] = h[l] => k = l
  BY <1>4, <1>10
<1>13. \A k \in E : f[k] <= g[h[k]]
  <2> TAKE k \in E
  <2>1. f[k] = g[h[k]] /\ f[k] \in Nat
    BY <1>7, <1>8, <1>10, <1>11
  <2> QED
    BY <2>1
<1>14. SumOf(f) <= SumOf(g)
  BY ONLY <1>6, <1>11, <1>12, <1>13, SumWithin
<1>15. SumOf(f) \in Nat /\ SumOf(g) \in Nat
  BY <1>6, <1>11, SumStep
<1>16. SumOf(f) \in 0 .. SumOf(g)
  BY <1>14, <1>15
<1> QED
  BY <1>1, <1>2, <1>3, <1>7, <1>8, <1>16

\* Before all is announced a counter may be told of less than there is, never of
\* more; when every counter was told of everything the summary is what was left.
PagesBegun == SumOf([i \in Announced |-> Len(work[i].before)])
AllBooked == \A k \in {"files", "total", "initial"} : Booked(k) = Announced
IsWithin(read) ==
  /\ read.initial \in Nat /\ read.initial <= stats.initial
  /\ read.action \in Nat /\ read.action <= stats.action

(* No frame has more resident than there is, the last has what was left. *)
LEMMA SummaryIsLeft ==
  ASSUME ScreenInv, StatsInv
  PROVE  /\ \A read : IsWithin(read) => Summary(read).resident <= PagesBegun
         /\ AllBooked =>
              /\ stats.files = Cardinality(Announced)
              /\ stats.total = PagesBegun
              /\ Summary(stats).resident = SumOf([i \in Announced |-> Left(i)])
<1>1. PICK A, B : A = Announced /\ B = Booked("initial")
  OBVIOUS
<1>2. /\ stats \in [files : Nat, total : Nat, initial : Nat, action : Nat]
      /\ IsFiniteSet(A) /\ B \in SUBSET A
      /\ stats.initial = SumOf([i \in B |-> Resident(work[i].before)])
      /\ stats.action = SumOf([i \in A |-> Added(i)])
  BY <1>1 DEF StatsInv, Booked
<1>3. PICK whole : whole = [i \in A |-> Len(work[i].before)]
  OBVIOUS
<1>4. PICK first : first = [i \in A |-> Resident(work[i].before)]
  OBVIOUS
<1>5. PICK added : added = [i \in A |-> Added(i)]
  OBVIOUS
<1>6. PICK left : left = [i \in A |-> Left(i)]
  OBVIOUS
<1>7. ASSUME NEW i \in A
      PROVE  /\ first[i] \in Nat /\ whole[i] \in Nat /\ first[i] <= whole[i]
             /\ added[i] \in Nat /\ left[i] \in Nat
             /\ effect = "Preserve" => left[i] = first[i]
             /\ effect = "Populate" => left[i] = first[i] + added[i] /\ left[i] <= whole[i]
             /\ effect = "EvictAdvisory" => left[i] + added[i] = first[i]
  BY <1>1, <1>3, <1>4, <1>5, <1>6, OfOneFile
<1>8. /\ first \in [A -> Nat] /\ whole \in [A -> Nat] /\ added \in [A -> Nat] /\ left \in [A -> Nat]
  BY <1>3, <1>4, <1>5, <1>6, <1>7
<1>9. PICK told : told = [i \in B |-> Resident(work[i].before)]
  OBVIOUS
<1>10. told \in [B -> Nat] /\ IsFiniteSet(B) /\ \A i \in B : told[i] <= first[i]
  <2>1. \A i \in B : told[i] = first[i]
    BY <1>2, <1>4, <1>9
  <2>2. \A i \in B : first[i] \in Nat
    BY <1>2, <1>7
  <2>3. IsFiniteSet(B)
    BY <1>2, FS_Subset
  <2> QED
    BY <1>9, <2>1, <2>2, <2>3
<1>11. SumOf(told) <= SumOf(first)
  <2>1. PICK h : h = [i \in B |-> i]
    OBVIOUS
  <2>2. h \in [B -> A] /\ (\A i, j \in B : h[i] = h[j] => i = j)
        /\ \A i \in B : told[i] <= first[h[i]]
    BY <1>2, <1>10, <2>1
  <2> QED
    BY ONLY <1>2, <1>8, <1>10, <2>2, SumWithin
<1>12. /\ stats.initial = SumOf(told) /\ stats.action = SumOf(added) /\ PagesBegun = SumOf(whole)
       /\ stats.initial \in Nat /\ stats.action \in Nat
  BY <1>1, <1>2, <1>3, <1>5, <1>9 DEF PagesBegun
<1>13. SumOf(left) \in Nat /\ SumOf(first) \in Nat /\ SumOf(whole) \in Nat
  BY <1>2, <1>8, SumStep
<1>14. SumOf(first) <= SumOf(whole)
  BY ONLY <1>2, <1>7, <1>8, SumMono
<1>15. ASSUME NEW read
       PROVE  /\ effect = "Preserve" => Summary(read).resident = read.initial
              /\ effect = "Populate" => Summary(read).resident = read.initial + read.action
              /\ effect = "EvictAdvisory" =>
                   Summary(read).resident = Minus(read.initial, read.action)
  BY DEF Summary
<1>16. AllBooked => /\ stats.files = Cardinality(Announced) /\ stats.total = PagesBegun
                    /\ stats.initial = SumOf(first)
  <2> HAVE AllBooked
  <2>1. B = A /\ Booked("files") = A /\ Booked("total") = A
    BY <1>1 DEF AllBooked
  <2>2. told = first
    BY <1>4, <1>9, <2>1
  <2> QED
    BY <1>1, <1>12, <2>1, <2>2 DEF StatsInv, PagesBegun
<1>17. CASE effect = "Preserve"
  <2>1. \A i \in A : left[i] = first[i]
    BY <1>7, <1>17
  <2>2. left = first
    BY <1>8, <2>1
  <2>3. \A read : IsWithin(read) => Summary(read).resident <= PagesBegun
    BY <1>11, <1>12, <1>13, <1>14, <1>15, <1>17 DEF IsWithin
  <2> QED
    BY <1>1, <1>6, <1>15, <1>16, <1>17, <2>2, <2>3
<1>18. CASE effect = "Populate"
  <2>1. \A i \in A : left[i] = first[i] + added[i] /\ left[i] <= whole[i]
    BY <1>7, <1>18
  <2>2. SumOf(left) = SumOf(first) + SumOf(added)
    <3>1. /\ IsFiniteSet(A) /\ first \in [A -> Nat] /\ added \in [A -> Nat] /\ left \in [A -> Nat]
          /\ \A i \in A : left[i] = first[i] + added[i]
      BY <1>2, <1>8, <2>1
    <3> QED
      BY ONLY <3>1, SumPlus
  <2>3. SumOf(left) <= SumOf(whole)
    BY ONLY <1>2, <1>8, <2>1, SumMono
  <2>4. \A read : IsWithin(read) => Summary(read).resident <= PagesBegun
    BY <1>11, <1>12, <1>13, <1>15, <1>18, <2>2, <2>3 DEF IsWithin
  <2> QED
    BY <1>1, <1>6, <1>12, <1>15, <1>16, <1>18, <2>2, <2>4
<1>19. CASE effect = "EvictAdvisory"
  <2>1. \A i \in A : first[i] = left[i] + added[i]
    BY <1>7, <1>19
  <2>2. SumOf(first) = SumOf(left) + SumOf(added)
    <3>1. /\ IsFiniteSet(A) /\ first \in [A -> Nat] /\ added \in [A -> Nat] /\ left \in [A -> Nat]
          /\ \A i \in A : first[i] = left[i] + added[i]
      BY <1>2, <1>8, <2>1
    <3> QED
      BY ONLY <3>1, SumPlus
  <2>3. AllBooked => Minus(stats.initial, stats.action) = SumOf(left)
    BY <1>12, <1>13, <1>16, <2>2 DEF Minus
  <2>4. \A read : IsWithin(read) => Summary(read).resident <= PagesBegun
    <3> SUFFICES ASSUME NEW read, IsWithin(read) PROVE Minus(read.initial, read.action) <= PagesBegun
      BY <1>15, <1>19
    <3>1. Minus(read.initial, read.action) <= read.initial
      BY DEF IsWithin, Minus
    <3>2. Minus(read.initial, read.action) \in Nat
      BY DEF IsWithin, Minus
    <3> QED
      BY <1>11, <1>12, <1>13, <1>14, <3>1, <3>2 DEF IsWithin
  <2> QED
    BY <1>1, <1>6, <1>15, <1>16, <1>19, <2>3, <2>4
<1>20. effect \in {"Preserve", "Populate", "EvictAdvisory"}
  BY ScreenAssumption DEF ScreenInv, Delivered, WorkTyped
<1> QED
  BY <1>17, <1>18, <1>19, <1>20

(* When no row was removed, the rows show no less than the summary. *)
LEMMA RowsShowAll ==
  ASSUME ScreenInv, StatsInv, AllBooked, flow = "done", Len(files) = stats.files
  PROVE  SumOf([i \in Announced |-> Left(i)]) <= SumOf([n \in DOMAIN files |-> files[n].resident])
<1>1. PICK A, D : A = Announced /\ D = 1 .. Len(files)
  OBVIOUS
<1>2. \A i \in A : \E n \in D : files[n].id = i
  BY <1>1, RowsAreWithin DEF AllBooked
<1>3. PICK left : left = [i \in A |-> Left(i)]
  OBVIOUS
<1>4. PICK held : held = [n \in D |-> files[n].resident]
  OBVIOUS
<1>5. PICK h : h = [i \in A |-> CHOOSE n \in D : files[n].id = i]
  OBVIOUS
<1>6. DOMAIN files = D /\ \A n \in D : files[n].resident \in Nat /\ Left(files[n].id) <= files[n].resident
  BY <1>1, RowsAreAnnounced, LeftIsShown
<1>7. \A i \in A : h[i] \in D /\ files[h[i]].id = i
  BY <1>2, <1>5
<1>8. h \in [A -> D] /\ \A i, j \in A : h[i] = h[j] => i = j
  BY <1>5, <1>7
<1>9. \A i \in A : Left(i) \in Nat
  BY <1>1, OfOneFile
<1>10. left \in [A -> Nat] /\ held \in [D -> Nat] /\ \A i \in A : left[i] <= held[h[i]]
  <2>1. left \in [A -> Nat] /\ held \in [D -> Nat]
    BY <1>3, <1>4, <1>6, <1>9
  <2>2. ASSUME NEW i \in A PROVE left[i] <= held[h[i]]
    <3>1. PICK n \in D : n = h[i]
      BY <1>7
    <3>2. files[n].id = i /\ Left(files[n].id) <= files[n].resident
      BY <1>6, <1>7, <3>1
    <3> QED
      BY <1>3, <1>4, <3>1, <3>2
  <2> QED
    BY <2>1, <2>2
<1>11. IsFiniteSet(A) /\ IsFiniteSet(D)
  <2>1. PICK k \in Nat : D = 1 .. k
    BY <1>1, RowsAreAnnounced
  <2>2. 1 \in Int /\ k \in Int
    OBVIOUS
  <2> QED
    BY <1>1, <2>1, <2>2, FS_Interval DEF StatsInv
<1>12. SumOf(left) <= SumOf(held)
  BY ONLY <1>8, <1>10, <1>11, SumWithin
<1> QED
  BY <1>1, <1>3, <1>4, <1>6, <1>12

-----------------------------------------------------------------------------
(***************************************************************************)
(* The frames.  The display sees of the counters what its rows stand for,  *)
(* at least: they were added before the events that made the rows.         *)
(***************************************************************************)
RowsIn(s) ==
  /\ SumOf([n \in DOMAIN files |-> files[n].total]) \in 0 .. s.total
  /\ Len(files) \in 0 .. s.files

SeenInv ==
  /\ seen \in [files : Nat, total : Nat, initial : Nat, action : Nat]
  /\ NoLess(seen, stats)
  /\ RowsIn(seen)
  /\ flow = "done" => seen = stats

\* The sums, and the rows within them.
SumsInv == ScreenInv /\ StatsInv /\ RowsIn(stats)

LEMMA SumsHold == ScreenSpec => []SumsInv
<1>1. ScreenInv /\ StatsInv => SumsInv
  BY RowsAreWithin DEF SumsInv, RowsIn
<1> QED
  BY <1>1, StatsHold, PTL

(* Nothing is left to add when the display is done. *)
LEMMA NothingIsLeft ==
  ASSUME ScreenInv, StatsInv, flow = "done"
  PROVE  /\ closed /\ AllBooked
         /\ \A i \in Ids : work[i].at # "walk" /\ work[i].outbox = <<>> /\ adding[i] = {}
<1>1. closed /\ Working = {}
  BY DEF ScreenInv, Delivered, Ending
<1>2. \A i \in Ids : work[i].at # "walk" /\ work[i].outbox = <<>>
  BY <1>1 DEF Working
<1>3. \A i \in Ids : adding[i] = {}
  BY <1>2 DEF StatsInv, Adding
<1>4. AllBooked
  BY <1>3 DEF AllBooked, Booked, Announced
<1> QED
  BY <1>1, <1>2, <1>3, <1>4

(* The display sees no less than its rows stand for, and in the end all. *)
LEMMA InitSeen == ScreenInit /\ SumsInv => SeenInv
BY DEF ScreenInit, SumsInv, SeenInv, StatsInv, NoStats, NoLess, RowsIn

LEMMA NextSeen == SumsInv /\ SumsInv' /\ SeenInv /\ [ScreenNext]_screenVars => SeenInv'
<1> SUFFICES ASSUME SumsInv, SumsInv', SeenInv, [ScreenNext]_screenVars
             PROVE  SeenInv'
  OBVIOUS
<1>1. /\ stats \in [files : Nat, total : Nat, initial : Nat, action : Nat]
      /\ stats' \in [files : Nat, total : Nat, initial : Nat, action : Nat]
      /\ NoLess(stats, stats') /\ RowsIn(stats)'
  BY NextStats DEF SumsInv, StatsInv
<1>2. CASE Handle
  <2>1. seen' = stats' /\ stats' = stats
    BY <1>2 DEF Handle
  <2> QED
    BY <1>1, <2>1 DEF SeenInv, NoLess, RowsIn
<1>3. CASE ~Handle
  <2>1. UNCHANGED <<vars, seen, flow>>
    BY <1>3 DEF ScreenNext, Worker, Announce, Add, Report, Finish, Fail, Send, AllDone, Finished,
                screenVars
  <2>2. files' = files /\ seen' = seen /\ flow' = flow
    BY <2>1 DEF vars
  <2>3. RowsIn(seen)'
    <3>1. [n \in DOMAIN files' |-> files'[n].total] = [n \in DOMAIN files |-> files[n].total]
      BY <2>2
    <3> QED
      BY <2>2, <3>1 DEF SeenInv, RowsIn
  <2>4. NoLess(seen, stats)'
    BY <1>1, <2>2 DEF SeenInv, NoLess
  <2>5. ASSUME flow = "done" PROVE stats' = stats
    <3>1. /\ closed
          /\ \A i \in Ids : work[i].at # "walk" /\ work[i].outbox = <<>> /\ adding[i] = {}
      BY <2>5, NothingIsLeft DEF SumsInv
    <3>2. \A i \in Ids : ~Worker(i)
      BY <3>1 DEF Worker, Announce, Add, Report, Finish, Fail, Send, Between
    <3> QED
      BY <1>3, <3>2 DEF ScreenNext, AllDone, Finished, screenVars
  <2> QED
    BY <2>2, <2>3, <2>4, <2>5 DEF SeenInv
<1> QED
  BY <1>2, <1>3

\* What a frame sees is right at every moment.
LEMMA SeenHold == ScreenSpec => [](SumsInv /\ SeenInv)
<1>1. ScreenInit /\ SumsInv => SeenInv
  BY InitSeen
<1>2. SumsInv /\ SumsInv' /\ SeenInv /\ [ScreenNext]_screenVars => SeenInv'
  BY NextSeen
<1> QED
  BY <1>1, <1>2, SumsHold, PTL DEF ScreenSpec

(* The numbers that are drawn are those of the list. *)
LEMMA RowsAreDrawn ==
  ASSUME NEW shown, shown = Visible(MaxDisplay)
  PROVE  /\ DOMAIN Rows = DOMAIN shown
         /\ \A k \in DOMAIN shown : Rows[k].counter[2] = shown[k].total
<1>1. Rows = [n \in DOMAIN shown |-> Row(shown[n])]
  BY DEF Rows
<1>2. \A k \in DOMAIN shown : Row(shown[k]).counter[2] = shown[k].total
  BY DEF Row
<1> QED
  BY <1>1, <1>2

(* A reading lies between what is seen and what is there. *)
LEMMA Read ==
  ASSUME SumsInv, SeenInv, NEW read \in Readings
  PROVE  /\ RowsIn(read) /\ IsWithin(read) /\ read.total \in Int /\ read.files \in Int
         /\ flow = "done" => read = stats
<1>1. /\ seen \in [files : Nat, total : Nat, initial : Nat, action : Nat]
      /\ stats \in [files : Nat, total : Nat, initial : Nat, action : Nat]
      /\ RowsIn(seen)
  BY DEF SumsInv, StatsInv, SeenInv
<1>2. PICK f \in seen.files .. stats.files, t \in seen.total .. stats.total,
           n \in seen.initial .. stats.initial, a \in seen.action .. stats.action :
        read = [files |-> f, total |-> t, initial |-> n, action |-> a]
  BY DEF Readings
<1>3. /\ f \in Nat /\ t \in Nat /\ n \in Nat /\ a \in Nat
      /\ seen.files <= f /\ seen.total <= t /\ n <= stats.initial /\ a <= stats.action
  BY <1>1
<1>4. IsWithin(read)
  BY <1>2, <1>3 DEF IsWithin
<1>5. RowsIn(read)
  <2>1. 0 .. seen.total \subseteq 0 .. read.total /\ 0 .. seen.files \subseteq 0 .. read.files
    BY <1>1, <1>2, <1>3
  <2> QED
    BY <1>1, <2>1 DEF RowsIn
<1>6. ASSUME flow = "done" PROVE read = stats
  <2>1. seen = stats
    BY <1>6 DEF SeenInv
  <2>2. f = stats.files /\ t = stats.total /\ n = stats.initial /\ a = stats.action
    BY <1>1, <2>1
  <2> QED
    BY <1>1, <1>2, <2>2
<1>7. read.total \in Int /\ read.files \in Int
  BY <1>2, <1>3
<1> QED
  BY <1>4, <1>5, <1>6, <1>7

\* The sums make the summary true.
LEMMA StatsAreTrue == SumsInv /\ SeenInv => SummaryIsTrue
<1> SUFFICES ASSUME SumsInv, SeenInv, NEW read \in Readings,
                    NEW summary, summary = SummaryRows(read)
             PROVE  /\ SumOf([n \in DOMAIN files |-> files[n].total]) <= summary.resident.of
                    /\ SumOf([n \in DOMAIN Rows |-> Rows[n].counter[2]]) <= summary.resident.of
                    /\ Len(files) <= summary.files
                    /\ summary.resident.pages <= PagesBegun
                    /\ flow = "done" =>
                         /\ summary.files = Cardinality(Announced)
                         /\ summary.resident.of = PagesBegun
                         /\ summary.resident.pages = SumOf([i \in Announced |-> Left(i)])
                         /\ Len(files) = summary.files =>
                              SumOf([n \in DOMAIN files |-> files[n].resident])
                                >= summary.resident.pages
  BY DEF SummaryIsTrue, PagesBegun
<1>1. PICK shown : shown = Visible(MaxDisplay)
  OBVIOUS
<1>2. /\ DOMAIN Rows = DOMAIN shown
      /\ \A k \in DOMAIN shown : Rows[k].counter[2] = shown[k].total
  BY <1>1, RowsAreDrawn
<1>3. /\ RowsIn(read) /\ IsWithin(read) /\ ScreenInv /\ StatsInv
      /\ read.total \in Int /\ read.files \in Int
      /\ flow = "done" => read = stats
  BY Read DEF SumsInv
<1>4. /\ SumOf([n \in DOMAIN files |-> files[n].total]) <= read.total
      /\ SumOf([n \in DOMAIN shown |-> shown[n].total]) <= read.total
      /\ Len(files) <= read.files
  <2>1. read.total \in Int /\ read.files \in Int
    BY <1>3
  <2>2. PICK rows : rows = SumOf([n \in DOMAIN files |-> files[n].total])
    OBVIOUS
  <2>3. PICK some : some = SumOf([n \in DOMAIN shown |-> shown[n].total])
    OBVIOUS
  <2>4. some \in 0 .. rows
    BY <1>1, <1>3, <2>2, <2>3, ShownAreWithin
  <2>5. rows \in 0 .. read.total /\ Len(files) \in 0 .. read.files
    BY <1>3, <2>2 DEF RowsIn
  <2> QED
    BY <2>1, <2>2, <2>3, <2>4, <2>5
<1>5. SumOf([n \in DOMAIN Rows |-> Rows[n].counter[2]]) <= read.total
  <2>1. [n \in DOMAIN Rows |-> Rows[n].counter[2]] = [n \in DOMAIN shown |-> shown[n].total]
    BY <1>2
  <2> QED
    BY <1>4, <2>1
<1>6. /\ summary.files = read.files
      /\ summary.resident.pages = Summary(read).resident
      /\ summary.resident.of = read.total
  <2>1. PICK sum : sum = Summary(read)
    OBVIOUS
  <2>2. sum.files = read.files /\ sum.total = read.total
    BY <2>1 DEF Summary
  <2>3. summary.files = sum.files /\ summary.resident = Share(sum.resident, sum.total)
    BY <2>1 DEF SummaryRows
  <2>4. summary.resident.pages = sum.resident /\ summary.resident.of = sum.total
    BY <2>3 DEF Share
  <2> QED
    BY <2>1, <2>2, <2>3, <2>4
<1>7. Summary(read).resident <= PagesBegun
  BY <1>3, SummaryIsLeft
<1>8. ASSUME flow = "done"
      PROVE  /\ read.files = Cardinality(Announced) /\ read.total = PagesBegun
             /\ Summary(read).resident = SumOf([i \in Announced |-> Left(i)])
             /\ Len(files) = read.files =>
                  SumOf([n \in DOMAIN files |-> files[n].resident]) >= Summary(read).resident
  <2>1. AllBooked /\ read = stats
    BY <1>3, <1>8, NothingIsLeft
  <2>2. /\ stats.files = Cardinality(Announced) /\ stats.total = PagesBegun
        /\ Summary(stats).resident = SumOf([i \in Announced |-> Left(i)])
    BY <1>3, <2>1, SummaryIsLeft
  <2>3. ASSUME Len(files) = stats.files
        PROVE  SumOf([i \in Announced |-> Left(i)]) <= SumOf([n \in DOMAIN files |-> files[n].resident])
    BY <1>3, <1>8, <2>1, <2>3, RowsShowAll
  <2> QED
    BY <2>1, <2>2, <2>3
<1> QED
  BY <1>4, <1>5, <1>6, <1>7, <1>8

\* The summary adds up, though every counter is added to and read by itself: no
\* frame has less in its totals than its rows, or more resident than the files
\* begun have pages, and the last is the sum of what was left of each file.
THEOREM AddsUp == ScreenSpec => []SummaryIsTrue
<1> QED
  BY SeenHold, StatsAreTrue, PTL
=============================================================================
