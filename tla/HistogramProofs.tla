--------------------------- MODULE HistogramProofs ---------------------------
(***************************************************************************)
(* No bit is lost or counted twice and the screen is never left behind,    *)
(* for any number of workers, any files and any distance between merges.   *)
(* Sums over workers and files are cardinalities of disjoint unions, so a  *)
(* step adds one token to a finite set, or takes the tokens of one worker  *)
(* away, and no induction over the workers is needed.                      *)
(***************************************************************************)
EXTENDS Histogram, FiniteSetTheorems, TLAPS

Working(w) == at[w] \notin {"idle", "exit"}
Holds(w) == at[w] \in {"load", "add", "draw", "show"}

\* stdout_mutex is held exactly around the merge and the drawing; so what
\* a worker has loaded, or read to draw it, is still there.
MutexInv ==
  \A w \in Workers :
    /\ Holds(w) <=> stdout_mutex = w
    /\ at[w] = "add" => loaded[w] = global[bit[w]]
    /\ at[w] = "show" => drawing[w] = global

\* A worker that is through with a merge holds no bits any more.
LocalInv ==
  \A w \in Workers, b \in Bits :
    /\ at[w] \in {"idle", "exit", "draw", "show"} => local[w][b] = 0
    /\ at[w] \in {"load", "add"} /\ b < bit[w] => local[w][b] = 0

\* Every file has been read by the worker that took it, and by nobody else.
FileInv ==
  /\ \A w \in Workers :
       /\ Working(w) => file[w] \in FileIds \ Unreadable /\ file[w] <= taken
       /\ Working(w) /\ eof[w] => pos[file[w]] = Len(Files[file[w]])
       /\ at[w] = "exit" => taken = Len(Files)
  /\ \A v, w \in Workers : Working(v) /\ Working(w) /\ file[v] = file[w] => v = w
  /\ \A f \in FileIds :
       /\ f > taken \/ f \in Unreadable => pos[f] = 0
       /\ f <= taken /\ f \notin Unreadable =>
            pos[f] = Len(Files[f]) \/ \E w \in Workers : Working(w) /\ file[w] = f

HInv == TypeOK /\ MutexInv /\ LocalInv /\ FileInv /\ ScreenCurrent /\ BitsConserved

-----------------------------------------------------------------------------
LEMMA FilesAre ==
  /\ Len(Files) \in Nat /\ FileIds = 1 .. Len(Files)
  /\ \A f \in FileIds : Files[f] \in Seq(SUBSET Bits) /\ Len(Files[f]) \in Nat
  /\ NumBits \in Nat /\ NumBits > 0 /\ Bits \subseteq Nat /\ 0 \in Bits /\ Zero \in [Bits -> Nat]
<1>1. Files \in Seq(Seq(SUBSET Bits)) /\ NumBits \in Nat \ {0}
  BY FilesAssumption, PeriodAssumption
<1>2. Len(Files) \in Nat /\ FileIds = 1 .. Len(Files)
  BY <1>1 DEF FileIds
<1>3. \A f \in FileIds : Files[f] \in Seq(SUBSET Bits)
  BY <1>1, <1>2
<1>4. \A f \in FileIds : Len(Files[f]) \in Nat
  BY <1>3
<1>5. Bits \subseteq Nat /\ 0 \in Bits /\ NumBits > 0
  BY <1>1 DEF Bits
<1> QED
  BY <1>1, <1>2, <1>3, <1>4, <1>5 DEF Zero

\* Tokens numbered from 1 to n[x], for every x of a finite set, are finitely many.
LEMMA TokensFinite ==
  ASSUME NEW S, IsFiniteSet(S), NEW n \in [S -> Nat]
  PROVE  IsFiniteSet(UNION {{x} \X (1 .. n[x]) : x \in S})
<1> DEFINE tokens == [x \in S |-> {x} \X (1 .. n[x])]
           all == {{x} \X (1 .. n[x]) : x \in S}
<1>1. tokens \in Surjection(S, all)
  BY DEF Surjection
<1>2. IsFiniteSet(all)
  BY <1>1, FS_Surjection
<1>3. ASSUME NEW T \in all PROVE IsFiniteSet(T)
  <2>1. PICK x \in S : T = {x} \X (1 .. n[x])
    OBVIOUS
  <2>2. IsFiniteSet({x}) /\ IsFiniteSet(1 .. n[x])
    <3>1. n[x] \in Int /\ 1 \in Int
      OBVIOUS
    <3> QED
      BY <3>1, FS_Singleton, FS_Interval
  <2> QED
    BY <2>1, <2>2, FS_Product
<1> HIDE DEF all
<1>4. IsFiniteSet(UNION all)
  BY <1>2, <1>3, FS_UNION
<1> QED
  BY <1>4 DEF all

LEMMA HeldFinite ==
  ASSUME TypeOK, NEW b \in Bits
  PROVE  IsFiniteSet(Held(b)) /\ Cardinality(Held(b)) \in Nat
<1> DEFINE n == [w \in Workers |-> local[w][b]]
<1>1. n \in [Workers -> Nat]
  BY DEF TypeOK
<1>2. IsFiniteSet(UNION {{w} \X (1 .. n[w]) : w \in Workers})
  <2> HIDE DEF n
  <2> QED
    BY <1>1, TokensFinite, WorkersAssumption
<1>3. Held(b) = UNION {{w} \X (1 .. n[w]) : w \in Workers}
  BY DEF Held
<1> QED
  BY <1>2, <1>3, FS_CardinalityType

LEMMA OnesFinite ==
  ASSUME TypeOK, NEW b \in Bits
  PROVE  IsFiniteSet(Ones(b, FileIds, pos)) /\ Cardinality(Ones(b, FileIds, pos)) \in Nat
<1>1. IsFiniteSet(FileIds)
  BY FilesAre, FS_Interval
<1>2. IsFiniteSet(UNION {{f} \X (1 .. pos[f]) : f \in FileIds})
  <2>1. pos \in [FileIds -> Nat]
    BY DEF TypeOK
  <2> QED
    BY <1>1, <2>1, TokensFinite
<1>3. Ones(b, FileIds, pos) \subseteq UNION {{f} \X (1 .. pos[f]) : f \in FileIds}
  BY DEF Ones
<1> QED
  BY <1>2, <1>3, FS_Subset, FS_CardinalityType

\* A worker that counts one more bit holds one more token.
LEMMA HeldMore ==
  ASSUME TypeOK, NEW b \in Bits, NEW w \in Workers,
         local'[w][b] = local[w][b] + 1, \A v \in Workers \ {w} : local'[v] = local[v]
  PROVE  Cardinality(Held(b)') = Cardinality(Held(b)) + 1
<1> DEFINE n == local[w][b]
<1>1. n \in Nat
  BY DEF TypeOK
<1>2. Held(b)' = Held(b) \cup {<<w, n + 1>>}
  <2>1. {w} \X (1 .. n + 1) = ({w} \X (1 .. n)) \cup {<<w, n + 1>>}
    BY <1>1
  <2> QED
    BY <2>1 DEF Held
<1>3. <<w, n + 1>> \notin Held(b)
  BY <1>1 DEF Held
<1> QED
  BY <1>2, <1>3, HeldFinite, FS_AddElement

\* A worker that clears a counter gives all its tokens away.
LEMMA HeldCleared ==
  ASSUME TypeOK, NEW b \in Bits, NEW w \in Workers,
         local'[w][b] = 0, \A v \in Workers \ {w} : local'[v] = local[v]
  PROVE  Cardinality(Held(b)') = Cardinality(Held(b)) - local[w][b]
<1> DEFINE n == local[w][b]
           gone == {w} \X (1 .. n)
<1>1. n \in Nat
  BY DEF TypeOK
<1>2. gone \subseteq Held(b) /\ Held(b)' = Held(b) \ gone
  BY <1>1 DEF Held
<1>3. Cardinality(gone) = n
  <2>1. IsFiniteSet({w}) /\ Cardinality({w}) = 1
    BY FS_Singleton
  <2> HIDE DEF n
  <2>2. IsFiniteSet(1 .. n) /\ Cardinality(1 .. n) = n
    <3>1. n \in Int /\ 1 \in Int
      BY <1>1
    <3>2. Cardinality(1 .. n) = IF 1 > n THEN 0 ELSE n - 1 + 1
      BY <3>1, FS_Interval
    <3> QED
      BY <1>1, <3>1, <3>2, FS_Interval
  <2>3. Cardinality({w} \X (1 .. n)) = Cardinality({w}) * Cardinality(1 .. n)
    <3> DEFINE S == {w}
               T == 1 .. n
    <3>1. IsFiniteSet(S) /\ IsFiniteSet(T)
      BY <2>1, <2>2
    <3> HIDE DEF S, T
    <3>2. Cardinality(S \X T) = Cardinality(S) * Cardinality(T)
      BY <3>1, FS_Product
    <3> QED
      BY <3>2 DEF S, T
  <2>4. Cardinality({w} \X (1 .. n)) = 1 * n
    BY <2>1, <2>2, <2>3
  <2> QED
    BY <1>1, <2>4
<1>4. Held(b) \cap gone = gone
  BY <1>2
<1> HIDE DEF n, gone
<1>5. Cardinality(Held(b) \ gone) = Cardinality(Held(b)) - Cardinality(Held(b) \cap gone)
  BY HeldFinite, FS_Difference
<1> QED
  BY <1>2, <1>3, <1>4, <1>5 DEF n

\* A byte that is read adds its one bits.
LEMMA OnesMore ==
  ASSUME TypeOK, NEW b \in Bits, NEW f \in FileIds, pos' = [pos EXCEPT ![f] = pos[f] + 1]
  PROVE  Cardinality(Ones(b, FileIds, pos)') =
           Cardinality(Ones(b, FileIds, pos)) + (IF b \in Files[f][pos[f] + 1] THEN 1 ELSE 0)
<1> DEFINE i == pos[f] + 1
<1>1. pos[f] \in Nat /\ pos'[f] = i /\ \A g \in FileIds \ {f} : pos'[g] = pos[g]
  BY DEF TypeOK
<1>2. 1 .. i = (1 .. pos[f]) \cup {i} /\ i \notin 1 .. pos[f]
  BY <1>1
<1>3. {k \in 1 .. i : b \in Files[f][k]} =
        {k \in 1 .. pos[f] : b \in Files[f][k]} \cup (IF b \in Files[f][i] THEN {i} ELSE {})
  BY <1>2
<1>4. Ones(b, FileIds, pos)' =
        Ones(b, FileIds, pos) \cup (IF b \in Files[f][i] THEN {<<f, i>>} ELSE {})
  BY <1>1, <1>3 DEF Ones
<1>5. <<f, i>> \notin Ones(b, FileIds, pos)
  BY <1>2 DEF Ones
<1>6. CASE b \in Files[f][i]
  BY <1>4, <1>5, <1>6, OnesFinite, FS_AddElement
<1>7. CASE b \notin Files[f][i]
  <2>1. Ones(b, FileIds, pos)' = Ones(b, FileIds, pos)
    BY <1>4, <1>7
  <2> QED
    BY <1>7, <2>1, OnesFinite
<1> QED
  BY <1>6, <1>7

-----------------------------------------------------------------------------
LEMMA InitHInv == Init => HInv
<1> SUFFICES ASSUME Init PROVE HInv
  OBVIOUS
<1> USE DEF Init
<1>1. TypeOK
  BY FilesAre DEF TypeOK
<1>2. MutexInv /\ LocalInv /\ ScreenCurrent
  BY WorkersAssumption DEF MutexInv, Holds, LocalInv, Zero, ScreenCurrent
<1>3. FileInv
  BY FilesAre DEF FileInv, Working
<1>4. BitsConserved
  <2> SUFFICES ASSUME NEW b \in Bits
               PROVE  global[b] + Cardinality(Held(b)) = Cardinality(Ones(b, FileIds, pos))
    BY DEF BitsConserved
  <2>1. Held(b) = {}
    BY DEF Held, Zero
  <2>2. Ones(b, FileIds, pos) = {}
    BY DEF Ones
  <2> QED
    BY <2>1, <2>2, FS_EmptySet DEF Zero
<1> QED
  BY <1>1, <1>2, <1>3, <1>4 DEF HInv

\* Steps that neither read nor merge leave every bit where it is.
LEMMA NothingCounted ==
  ASSUME BitsConserved, UNCHANGED <<global, local, pos>>
  PROVE  BitsConserved'
<1>1. \A b \in Bits : Held(b)' = Held(b)
  BY DEF Held
<1>2. \A b \in Bits : Ones(b, FileIds, pos)' = Ones(b, FileIds, pos)
  BY DEF Ones
<1> QED
  BY <1>1, <1>2 DEF BitsConserved

-----------------------------------------------------------------------------
(* A worker and its file.                                                  *)

LEMMA TakeFileHInv == ASSUME NEW w \in Workers, HInv, TakeFile(w) PROVE HInv'
<1> USE DEF TakeFile, Goto
<1> DEFINE f == taken + 1
<1>1. TypeOK /\ taken \in Nat /\ f \in FileIds /\ f <= Len(Files)
  BY FilesAre DEF HInv, TypeOK
<1>2. \A b \in Bits : local[w][b] = 0
  BY DEF HInv, LocalInv
<1>3. local' = local
  <2>1. local[w] = Zero
    BY <1>1, <1>2 DEF TypeOK, Zero
  <2> QED
    BY <1>1, <2>1 DEF TypeOK
<1>4. /\ at'[w] \in {"idle", "read"} /\ file'[w] = f /\ ~eof'[w]
      /\ \A v \in Workers \ {w} : at'[v] = at[v] /\ file'[v] = file[v] /\ eof'[v] = eof[v]
      /\ at'[w] = "idle" <=> f \in Unreadable
  BY <1>1 DEF TypeOK
<1>5. TypeOK'
  BY <1>1, <1>3, FilesAre DEF TypeOK
<1>6. MutexInv'
  BY <1>1, <1>4 DEF HInv, TypeOK, MutexInv, Holds
<1>7. LocalInv'
  BY <1>3, <1>4 DEF HInv, LocalInv
<1>8. FileInv'
  <2>1. FileInv /\ FileIds \subseteq Nat
    BY FilesAre DEF HInv
  <2>2. \A v \in Workers \ {w} : Working(v)' <=> Working(v)
    BY <1>4 DEF Working
  <2>3. ~Working(w) /\ (Working(w)' <=> f \notin Unreadable)
    BY <1>4 DEF Working
  <2>4. \A v \in Workers \ {w} : Working(v) => file[v] # f
    BY <1>1, <2>1 DEF FileInv
  <2>5. \A v \in Workers :
          /\ Working(v)' => file'[v] \in FileIds \ Unreadable /\ file'[v] <= taken'
          /\ Working(v)' /\ eof'[v] => pos'[file'[v]] = Len(Files[file'[v]])
          /\ at'[v] = "exit" => taken' = Len(Files)
    <3>1. \A v \in Workers : at[v] # "exit" /\ at'[v] # "exit"
      BY <1>1, <1>4, <2>1, FilesAre DEF FileInv
    <3>2. \A v \in Workers \ {w} : Working(v) => file[v] <= f
      <4>1. \A v \in Workers : file[v] \in 0 .. Len(Files)
        BY <1>1 DEF TypeOK
      <4> QED
        BY <1>1, <2>1, <4>1, FilesAre DEF FileInv
    <3>3. ASSUME NEW v \in Workers \ {w}
          PROVE  /\ Working(v)' => file'[v] \in FileIds \ Unreadable /\ file'[v] <= f
                 /\ Working(v)' /\ eof'[v] => pos'[file'[v]] = Len(Files[file'[v]])
      BY <1>4, <2>1, <2>2, <3>2 DEF FileInv
    <3>4. /\ Working(w)' => file'[w] \in FileIds \ Unreadable /\ file'[w] <= f
          /\ ~eof'[w]
      BY <1>1, <1>4, <2>3
    <3> QED
      BY <3>1, <3>3, <3>4
  <2>6. \A u, v \in Workers : Working(u)' /\ Working(v)' /\ file'[u] = file'[v] => u = v
    BY <1>4, <2>1, <2>2, <2>3, <2>4 DEF FileInv
  <2>7. ASSUME NEW g \in FileIds
        PROVE  /\ g > taken' \/ g \in Unreadable => pos'[g] = 0
               /\ g <= taken' /\ g \notin Unreadable =>
                    pos'[g] = Len(Files[g]) \/ \E v \in Workers : Working(v)' /\ file'[v] = g
    BY <1>1, <1>4, <2>1, <2>2, <2>3 DEF FileInv
  <2> QED
    BY <2>5, <2>6, <2>7 DEF FileInv
<1>9. ScreenCurrent' /\ BitsConserved'
  BY <1>3, NothingCounted DEF HInv, ScreenCurrent
<1> QED
  BY <1>5, <1>6, <1>7, <1>8, <1>9 DEF HInv

\* A step of a worker that keeps its file.
LEMMA SameFile ==
  ASSUME NEW w \in Workers, FileInv, TypeOK, TypeOK', UNCHANGED <<taken, file, pos, eof>>,
         \A v \in Workers : Working(v)' <=> Working(v),
         \A v \in Workers : at'[v] = "exit" => at[v] = "exit"
  PROVE  FileInv'
  BY DEF FileInv

LEMMA QuitHInv == ASSUME NEW w \in Workers, HInv, Quit(w) PROVE HInv'
<1> USE DEF Quit, Goto
<1>1. TypeOK /\ TypeOK'
  BY DEF HInv, TypeOK
<1>2. MutexInv' /\ LocalInv'
  BY <1>1 DEF HInv, TypeOK, MutexInv, Holds, LocalInv
<1>3. FileInv'
  <2>1. \A v \in Workers : Working(v)' <=> Working(v)
    BY <1>1 DEF TypeOK, Working
  <2>2. \A v \in Workers : at'[v] = "exit" => at[v] = "exit" \/ taken = Len(Files)
    BY <1>1 DEF TypeOK
  <2> QED
    BY <2>1, <2>2 DEF HInv, FileInv
<1>4. ScreenCurrent' /\ BitsConserved'
  BY NothingCounted DEF HInv, ScreenCurrent
<1> QED
  BY <1>1, <1>2, <1>3, <1>4 DEF HInv

LEMMA ReadByteHInv == ASSUME NEW w \in Workers, HInv, ReadByte(w) PROVE HInv'
<1> DEFINE f == file[w]
           i == pos[f] + 1
<1>1. TypeOK /\ FileInv /\ at[w] = "read" /\ f \in FileIds \ Unreadable /\ f <= taken
  BY DEF HInv, ReadByte, FileInv, Working
<1>2. /\ i \in Nat /\ i <= Len(Files[f]) /\ pos' = [pos EXCEPT ![f] = i]
      /\ local' = [local EXCEPT ![w] = [b \in Bits |-> local[w][b] + (IF b \in Files[f][i] THEN 1 ELSE 0)]]
      /\ \E l \in {"lock", "read"} : at' = [at EXCEPT ![w] = l]
      /\ UNCHANGED <<taken, global, shown, stdout_mutex, file, eof, bit, loaded, drawing>>
  <2>1. i \in Nat
    BY <1>1 DEF TypeOK
  <2>2. \E l \in {"lock", "read"} : at' = [at EXCEPT ![w] = l]
    BY DEF ReadByte, Goto
  <2> QED
    BY <2>1, <2>2 DEF ReadByte
<1>3. /\ at'[w] \in {"lock", "read"} /\ \A v \in Workers \ {w} : at'[v] = at[v] /\ local'[v] = local[v]
      /\ \A b \in Bits : local'[w][b] = local[w][b] + (IF b \in Files[f][i] THEN 1 ELSE 0)
      /\ pos'[f] = i /\ \A g \in FileIds \ {f} : pos'[g] = pos[g]
  BY <1>1, <1>2 DEF TypeOK
<1>4. TypeOK'
  <2>1. local' \in [Workers -> [Bits -> Nat]]
    <3> DEFINE h == [b \in Bits |-> local[w][b] + (IF b \in Files[f][i] THEN 1 ELSE 0)]
    <3>1. local \in [Workers -> [Bits -> Nat]]
      BY <1>1 DEF TypeOK
    <3>2. h \in [Bits -> Nat]
      BY <3>1
    <3>3. local' = [local EXCEPT ![w] = h]
      BY <1>2
    <3> HIDE DEF h
    <3> QED
      BY <3>1, <3>2, <3>3
  <2>2. pos' \in [FileIds -> Nat] /\ \A g \in FileIds : pos'[g] <= Len(Files[g])
    BY <1>1, <1>2, <1>3 DEF TypeOK
  <2> QED
    BY <1>1, <1>2, <2>1, <2>2 DEF TypeOK
<1>5. MutexInv'
  BY <1>1, <1>2, <1>3 DEF HInv, MutexInv, Holds
<1>6. LocalInv'
  BY <1>2, <1>3 DEF HInv, LocalInv
<1>7. FileInv'
  <2>1. \A v \in Workers : (Working(v)' <=> Working(v)) /\ (at'[v] = "exit" <=> at[v] = "exit")
    BY <1>1, <1>3 DEF Working
  <2>2. Working(w) /\ ~eof[w]
    <3>1. Working(w)
      BY <1>1 DEF Working
    <3>2. pos[f] # Len(Files[f])
      BY <1>1, <1>2 DEF TypeOK
    <3> QED
      BY <1>1, <3>1, <3>2 DEF FileInv
  <2>3. \A v \in Workers \ {w} : Working(v) => file[v] # f /\ file[v] \in FileIds
    BY <1>1, <2>2 DEF FileInv
  <2>4. \A v \in Workers : Working(v) /\ eof[v] => pos'[file[v]] = Len(Files[file[v]])
    BY <1>1, <1>3, <2>2, <2>3 DEF FileInv
  <2>5. ASSUME NEW g \in FileIds
        PROVE  /\ g > taken \/ g \in Unreadable => pos'[g] = 0
               /\ g <= taken /\ g \notin Unreadable =>
                    pos'[g] = Len(Files[g]) \/ \E v \in Workers : Working(v) /\ file[v] = g
    <3>1. CASE g = f
      <4>1. ~(g > taken)
        BY <1>1, <3>1, FilesAre DEF TypeOK
      <4> QED
        BY <1>1, <2>2, <3>1, <4>1
    <3>2. CASE g # f
      BY <1>1, <1>3, <3>2 DEF FileInv
    <3> QED
      BY <3>1, <3>2
  <2> QED
    BY <1>1, <1>2, <2>1, <2>4, <2>5 DEF FileInv
<1>8. ScreenCurrent'
  BY <1>2 DEF HInv, ScreenCurrent
<1>9. BitsConserved'
  <2> SUFFICES ASSUME NEW b \in Bits
               PROVE  global'[b] + Cardinality(Held(b)') = Cardinality(Ones(b, FileIds, pos)')
    BY DEF BitsConserved
  <2>1. global[b] + Cardinality(Held(b)) = Cardinality(Ones(b, FileIds, pos)) /\ global'[b] = global[b]
    BY <1>2 DEF HInv, BitsConserved
  <2>2. global[b] \in Nat /\ Cardinality(Held(b)) \in Nat /\ Cardinality(Ones(b, FileIds, pos)) \in Nat
    BY <1>1, HeldFinite, OnesFinite DEF TypeOK
  <2>3. Cardinality(Ones(b, FileIds, pos)') =
          Cardinality(Ones(b, FileIds, pos)) + (IF b \in Files[f][i] THEN 1 ELSE 0)
    BY <1>1, <1>2, OnesMore
  <2>4. CASE b \in Files[f][i]
    <3>1. Cardinality(Held(b)') = Cardinality(Held(b)) + 1
      BY <1>1, <1>3, <2>4, HeldMore
    <3> QED
      BY <2>1, <2>2, <2>3, <2>4, <3>1
  <2>5. CASE b \notin Files[f][i]
    <3>1. \A v \in Workers : local'[v][b] = local[v][b]
      <4>1. local[w][b] \in Nat
        BY <1>1 DEF TypeOK
      <4>2. local'[w][b] = local[w][b] + 0
        BY <1>3, <2>5
      <4> QED
        BY <1>3, <4>1, <4>2
    <3>2. Held(b)' = Held(b)
      BY <3>1 DEF Held
    <3> QED
      BY <2>1, <2>2, <2>3, <2>5, <3>2
  <2> QED
    BY <2>4, <2>5
<1> QED
  BY <1>4, <1>5, <1>6, <1>7, <1>8, <1>9 DEF HInv
\* The end of a file: the last merge is due.
LEMMA ReadEofHInv == ASSUME NEW w \in Workers, HInv, ReadEof(w) PROVE HInv'
<1> USE DEF ReadEof, Goto
<1>1. TypeOK /\ FileInv /\ TypeOK'
  BY DEF HInv, TypeOK
<1>2. /\ at[w] = "read" /\ at'[w] = "lock" /\ eof'[w]
      /\ \A v \in Workers \ {w} : at'[v] = at[v] /\ eof'[v] = eof[v]
  BY <1>1 DEF TypeOK
<1>3. MutexInv' /\ LocalInv'
  BY <1>2 DEF HInv, MutexInv, Holds, LocalInv
<1>4. FileInv'
  <2>1. \A v \in Workers : (Working(v)' <=> Working(v)) /\ (at'[v] = "exit" <=> at[v] = "exit")
    BY <1>2 DEF Working
  <2>2. \A v \in Workers : Working(v) /\ eof'[v] => pos[file[v]] = Len(Files[file[v]])
    BY <1>1, <1>2 DEF FileInv
  <2> QED
    BY <1>1, <2>1, <2>2 DEF FileInv
<1>5. ScreenCurrent' /\ BitsConserved'
  BY NothingCounted DEF HInv, ScreenCurrent
<1> QED
  BY <1>1, <1>3, <1>4, <1>5 DEF HInv

-----------------------------------------------------------------------------
(* Under stdout_mutex.                                                     *)

LEMMA LockHInv == ASSUME NEW w \in Workers, HInv, Lock(w) PROVE HInv'
<1> USE DEF Lock, Goto
<1>1. TypeOK /\ FileInv
  BY DEF HInv
<1>2. TypeOK'
  BY <1>1, FilesAre DEF TypeOK
<1>3. /\ at[w] = "lock" /\ at'[w] = "load" /\ bit'[w] = 0
      /\ \A v \in Workers \ {w} : at'[v] = at[v] /\ bit'[v] = bit[v]
  BY <1>1 DEF TypeOK
<1>4. MutexInv'
  BY <1>3, WorkersAssumption DEF HInv, MutexInv, Holds
<1>5. LocalInv'
  BY <1>3, FilesAre DEF HInv, LocalInv
<1>6. FileInv'
  BY <1>1, <1>2, <1>3, SameFile DEF Working
<1>7. ScreenCurrent' /\ BitsConserved'
  BY NothingCounted, WorkersAssumption DEF HInv, ScreenCurrent
<1> QED
  BY <1>2, <1>4, <1>5, <1>6, <1>7 DEF HInv

LEMMA MergeLoadHInv == ASSUME NEW w \in Workers, HInv, MergeLoad(w) PROVE HInv'
<1> USE DEF MergeLoad, Goto
<1>1. TypeOK /\ FileInv /\ TypeOK'
  BY DEF HInv, TypeOK
<1>2. /\ at[w] = "load" /\ at'[w] = "add" /\ loaded'[w] = global[bit[w]]
      /\ \A v \in Workers \ {w} : at'[v] = at[v] /\ loaded'[v] = loaded[v]
  BY <1>1 DEF TypeOK
<1>3. MutexInv' /\ LocalInv'
  BY <1>2 DEF HInv, MutexInv, Holds, LocalInv
<1>4. FileInv'
  BY <1>1, <1>2, SameFile DEF Working
<1>5. ScreenCurrent' /\ BitsConserved'
  BY NothingCounted DEF HInv, ScreenCurrent
<1> QED
  BY <1>1, <1>3, <1>4, <1>5 DEF HInv

\* What was loaded is still the counter, so the store adds exactly what the
\* worker held of this bit.
LEMMA MergeAddHInv == ASSUME NEW w \in Workers, HInv, MergeAdd(w) PROVE HInv'
<1> DEFINE i == bit[w]
<1>1. TypeOK /\ MutexInv /\ LocalInv /\ FileInv /\ at[w] = "add" /\ i \in Bits
  BY DEF HInv, TypeOK, MergeAdd
<1>2. loaded[w] = global[i] /\ global[i] \in Nat /\ local[w][i] \in Nat
  BY <1>1 DEF MutexInv, TypeOK
<1>3. /\ global' = [global EXCEPT ![i] = global[i] + local[w][i]]
      /\ local' = [local EXCEPT ![w][i] = 0]
      /\ \/ i = NumBits - 1 /\ at' = [at EXCEPT ![w] = "draw"] /\ bit' = bit
         \/ /\ i # NumBits - 1 /\ at' = [at EXCEPT ![w] = "load"]
            /\ bit' = [bit EXCEPT ![w] = i + 1]
      /\ UNCHANGED <<taken, pos, shown, stdout_mutex, file, eof, loaded, drawing>>
  BY <1>2 DEF MergeAdd, Goto
<1>4. /\ \A v \in Workers \ {w} : at'[v] = at[v] /\ local'[v] = local[v] /\ bit'[v] = bit[v]
      /\ \A b \in Bits : local'[w][b] = IF b = i THEN 0 ELSE local[w][b]
      /\ \A b \in Bits : global'[b] = IF b = i THEN global[i] + local[w][i] ELSE global[b]
      /\ \/ i = NumBits - 1 /\ at'[w] = "draw" /\ bit'[w] = i
         \/ i # NumBits - 1 /\ at'[w] = "load" /\ bit'[w] = i + 1
  BY <1>1, <1>3 DEF TypeOK
<1>5. TypeOK'
  <2>1. i # NumBits - 1 => i + 1 \in Bits
    BY <1>1, FilesAre DEF Bits
  <2>2. global' \in [Bits -> Nat]
    BY <1>1, <1>2, <1>3 DEF TypeOK
  <2>3. local' \in [Workers -> [Bits -> Nat]]
    BY <1>1, <1>3 DEF TypeOK
  <2>4. at' \in [Workers -> {"idle", "read", "lock", "load", "add", "draw", "show", "exit"}]
    BY <1>1, <1>3 DEF TypeOK
  <2>5. bit' \in [Workers -> Bits]
    BY <1>1, <1>3, <2>1 DEF TypeOK
  <2> QED
    BY <1>1, <1>3, <2>2, <2>3, <2>4, <2>5 DEF TypeOK
<1>6. MutexInv'
  <2>1. \A v \in Workers \ {w} : ~Holds(v)
    BY <1>1 DEF MutexInv, Holds
  <2> QED
    BY <1>1, <1>3, <1>4, <2>1 DEF MutexInv, Holds
<1>7. LocalInv'
  <2>1. \A b \in Bits : b < i + 1 => b < i \/ b = i
    <3>1. i \in Nat /\ Bits \subseteq Nat
      BY <1>1, FilesAre DEF Bits
    <3> HIDE DEF i
    <3> QED
      BY <3>1
  <2>2. i = NumBits - 1 => \A b \in Bits : b < i \/ b = i
    BY FilesAre DEF Bits
  <2>3. \A b \in Bits : b < i => local[w][b] = 0
    BY <1>1 DEF LocalInv
  <2> QED
    BY <1>1, <1>4, <2>1, <2>2, <2>3 DEF LocalInv
<1>8. FileInv'
  BY <1>1, <1>3, <1>4, <1>5, SameFile DEF Working
<1>9. ScreenCurrent'
  BY <1>1, <1>3, WorkersAssumption DEF MutexInv, Holds, ScreenCurrent
<1>10. BitsConserved'
  <2> SUFFICES ASSUME NEW b \in Bits
               PROVE  global'[b] + Cardinality(Held(b)') = Cardinality(Ones(b, FileIds, pos)')
    BY DEF BitsConserved
  <2>1. global[b] + Cardinality(Held(b)) = Cardinality(Ones(b, FileIds, pos))
    BY DEF HInv, BitsConserved
  <2>2. Ones(b, FileIds, pos)' = Ones(b, FileIds, pos)
    BY <1>3 DEF Ones
  <2>3. CASE b = i
    <3>1. Cardinality(Held(b)) \in Nat
      BY <1>1, HeldFinite
    <3>2. local[w][b] \in Nat /\ global[b] \in Nat /\ global'[b] = global[b] + local[w][b]
      BY <1>2, <1>4, <2>3
    <3>3. Cardinality(Held(b)') = Cardinality(Held(b)) - local[w][b]
      <4>1. local'[w][b] = 0 /\ \A v \in Workers \ {w} : local'[v] = local[v]
        BY <1>4, <2>3
      <4> QED
        BY <1>1, <4>1, HeldCleared
    <3>4. global'[b] + Cardinality(Held(b)') = global[b] + Cardinality(Held(b))
      BY <3>1, <3>2, <3>3
    <3> QED
      BY <2>1, <2>2, <3>4
  <2>4. CASE b # i
    <3>1. \A v \in Workers : local'[v][b] = local[v][b]
      BY <1>4, <2>4
    <3>2. Held(b)' = Held(b)
      BY <3>1 DEF Held
    <3> QED
      BY <1>4, <2>1, <2>2, <2>4, <3>2
  <2> QED
    BY <2>3, <2>4
<1> QED
  BY <1>5, <1>6, <1>7, <1>8, <1>9, <1>10 DEF HInv

LEMMA PrintReadHInv == ASSUME NEW w \in Workers, HInv, PrintRead(w) PROVE HInv'
<1> USE DEF PrintRead, Goto
<1>1. TypeOK /\ FileInv /\ TypeOK'
  BY DEF HInv, TypeOK
<1>2. /\ at[w] = "draw" /\ at'[w] = "show" /\ drawing'[w] = global
      /\ \A v \in Workers \ {w} : at'[v] = at[v] /\ drawing'[v] = drawing[v]
  BY <1>1 DEF TypeOK
<1>3. MutexInv' /\ LocalInv'
  BY <1>2 DEF HInv, MutexInv, Holds, LocalInv
<1>4. FileInv'
  BY <1>1, <1>2, SameFile DEF Working
<1>5. ScreenCurrent' /\ BitsConserved'
  BY NothingCounted DEF HInv, ScreenCurrent
<1> QED
  BY <1>1, <1>3, <1>4, <1>5 DEF HInv

\* The picture that goes to the screen is still the global histogram.
LEMMA PrintShowHInv == ASSUME NEW w \in Workers, HInv, PrintShow(w) PROVE HInv'
<1> USE DEF PrintShow, Goto
<1>1. TypeOK /\ MutexInv /\ FileInv /\ at[w] = "show"
  BY DEF HInv
<1>2. TypeOK'
  BY <1>1 DEF TypeOK
<1>3. /\ at'[w] = IF eof[w] THEN "idle" ELSE "read"
      /\ \A v \in Workers \ {w} : at'[v] = at[v]
  BY <1>1 DEF TypeOK
<1>4. stdout_mutex = w /\ shown' = global
  BY <1>1 DEF MutexInv, Holds
<1>5. MutexInv'
  BY <1>1, <1>3, <1>4, WorkersAssumption DEF MutexInv, Holds
<1>6. LocalInv'
  BY <1>1, <1>3 DEF HInv, LocalInv
<1>7. FileInv'
  <2>1. \A v \in Workers \ {w} : (Working(v)' <=> Working(v)) /\ (at'[v] = "exit" <=> at[v] = "exit")
    BY <1>3 DEF Working
  <2>2. Working(w) /\ (Working(w)' <=> ~eof[w]) /\ at'[w] # "exit"
    BY <1>1, <1>2, <1>3 DEF Working, TypeOK
  <2>3. ASSUME NEW g \in FileIds, g <= taken, g \notin Unreadable
        PROVE  pos[g] = Len(Files[g]) \/ \E v \in Workers : Working(v)' /\ file[v] = g
    BY <1>1, <2>1, <2>2, <2>3 DEF FileInv
  <2> QED
    BY <1>1, <2>1, <2>2, <2>3 DEF FileInv
<1>8. ScreenCurrent' /\ BitsConserved'
  BY <1>4, NothingCounted DEF HInv, ScreenCurrent
<1> QED
  BY <1>2, <1>5, <1>6, <1>7, <1>8 DEF HInv

-----------------------------------------------------------------------------
\* Every reachable state satisfies the invariant.
LEMMA SpecHInv == Spec => []HInv
<1>1. ASSUME HInv, [Next]_vars PROVE HInv'
  <2>1. CASE Next
    BY <1>1, <2>1, TakeFileHInv, QuitHInv, ReadByteHInv, ReadEofHInv, LockHInv, MergeLoadHInv,
       MergeAddHInv, PrintReadHInv, PrintShowHInv DEF Next, Worker
  <2>2. CASE UNCHANGED vars
    <3>1. TypeOK' /\ MutexInv' /\ LocalInv' /\ FileInv' /\ ScreenCurrent'
      BY <1>1, <2>2 DEF vars, HInv, TypeOK, MutexInv, Holds, LocalInv, FileInv, Working, ScreenCurrent
    <3>2. BitsConserved'
      BY <1>1, <2>2, NothingCounted DEF vars, HInv
    <3> QED
      BY <3>1, <3>2 DEF HInv
  <2> QED
    BY <1>1, <2>1, <2>2
<1> QED
  BY InitHInv, <1>1, PTL DEF Spec

\* Every worker stays inside its file, its histogram and its program, for any
\* files and any number of workers.
THEOREM TypesKept == Spec => []TypeOK
<1>1. HInv => TypeOK
  BY DEF HInv
<1> QED
  BY <1>1, SpecHInv, PTL

\* The merges under stdout_mutex lose no bit and count none twice, although a
\* merge loads and stores each counter in two steps.
THEOREM BitsAreConserved == Spec => []BitsConserved
<1>1. HInv => BitsConserved
  BY DEF HInv
<1> QED
  BY <1>1, SpecHInv, PTL

\* Whenever stdout_mutex is free the screen shows the global histogram: no
\* older picture is drawn over a newer one.
THEOREM ScreenIsCurrent == Spec => []ScreenCurrent
<1>1. HInv => ScreenCurrent
  BY DEF HInv
<1> QED
  BY <1>1, SpecHInv, PTL

\* When all workers have exited the screen shows what the program with one
\* thread shows in the end: EndsWithTotal but for termination.
THEOREM TotalAtExit == Spec => []((\A w \in Workers : at[w] = "exit") => shown = FhistogramShows)
<1>1. ASSUME HInv, \A w \in Workers : at[w] = "exit" PROVE shown = FhistogramShows
  <2>1. TypeOK /\ MutexInv /\ LocalInv /\ FileInv /\ ScreenCurrent /\ BitsConserved
    BY <1>1 DEF HInv
  <2>2. shown = global
    BY <1>1, <2>1 DEF MutexInv, Holds, ScreenCurrent, TypeOK
  <2>3. taken = Len(Files)
    BY <1>1, <2>1, WorkersAssumption DEF FileInv
  <2>4. \A f \in FileIds : pos[f] = IF f \in Unreadable THEN 0 ELSE Len(Files[f])
    BY <1>1, <2>1, <2>3, FilesAre DEF FileInv, Working
  <2>5. ASSUME NEW b \in Bits
        PROVE  global[b] = Cardinality(Ones(b, FileIds \ Unreadable, [f \in FileIds |-> Len(Files[f])]))
    <3>1. Held(b) = {}
      BY <1>1, <2>1 DEF Held, LocalInv
    <3>2. Ones(b, FileIds, pos) = Ones(b, FileIds \ Unreadable, [f \in FileIds |-> Len(Files[f])])
      BY <2>4 DEF Ones
    <3>3. global[b] \in Nat /\ Cardinality(Held(b)) = 0
      BY <2>1, <3>1, FS_EmptySet DEF TypeOK
    <3> QED
      BY <2>1, <3>2, <3>3 DEF BitsConserved
  <2> QED
    BY <2>1, <2>2, <2>5 DEF TypeOK, FhistogramShows
<1> QED
  BY <1>1, SpecHInv, PTL
=============================================================================
