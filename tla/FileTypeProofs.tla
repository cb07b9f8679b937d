--------------------------- MODULE FileTypeProofs ---------------------------
(***************************************************************************)
(* The classifier prints the right type of every file whose size fits an   *)
(* int, and every type in the right column, whatever the stack held.       *)
(***************************************************************************)
EXTENDS FileType, SequenceTheorems, FiniteSetTheorems, TLAPS

Files == Seq([length : Nat, content : Seq(Byte) \cup {Missing}])

-----------------------------------------------------------------------------
(***************************************************************************)
(* Runs of continuation bytes.                                             *)
(***************************************************************************)
LEMMA SpanSize ==
  ASSUME NEW k \in Nat, NEW n \in Nat, NEW e \in k..n
  PROVE  /\ IsFiniteSet((k + 1)..n) /\ IsFiniteSet((k + 1)..e)
         /\ Cardinality((k + 1)..e) = e - k
<1>1. k + 1 \in Int /\ n \in Int /\ e \in Int
  OBVIOUS
<1>2. IsFiniteSet((k + 1)..n)
  BY <1>1, FS_Interval
<1>3. IsFiniteSet((k + 1)..e) /\ Cardinality((k + 1)..e) = IF k + 1 > e THEN 0 ELSE e - (k + 1) + 1
  BY <1>1, FS_Interval
<1> QED
  BY <1>2, <1>3

\* Continuation bytes up to e make a run of at least that length.
LEMMA RunAtLeast ==
  ASSUME NEW f \in Seq(Byte), NEW k \in Nat, NEW e \in k..Len(f),
         \A n \in (k + 1)..e : UTF8_CONT(f[n])
  PROVE  Run(f, k) \in Nat /\ Run(f, k) >= e - k
<1> DEFINE R == {m \in (k + 1)..Len(f) : \A n \in (k + 1)..m : UTF8_CONT(f[n])}
<1>1. (k + 1)..e \subseteq R
  OBVIOUS
<1>2. IsFiniteSet((k + 1)..Len(f)) /\ IsFiniteSet((k + 1)..e) /\ Cardinality((k + 1)..e) = e - k
  BY SpanSize
<1>3. IsFiniteSet(R)
  BY <1>2, FS_Subset
<1>4. Cardinality(R) \in Nat /\ Cardinality((k + 1)..e) <= Cardinality(R)
  BY <1>1, <1>3, FS_Subset, FS_CardinalityType
<1> QED
  BY <1>2, <1>4 DEF Run

\* A run ends where the file ends or another byte comes.
LEMMA RunIs ==
  ASSUME NEW f \in Seq(Byte), NEW k \in Nat, NEW e \in k..Len(f),
         \A n \in (k + 1)..e : UTF8_CONT(f[n]),
         e = Len(f) \/ ~UTF8_CONT(f[e + 1])
  PROVE  Run(f, k) = e - k
<1> DEFINE R == {m \in (k + 1)..Len(f) : \A n \in (k + 1)..m : UTF8_CONT(f[n])}
<1>1. R = (k + 1)..e
  <2>1. ASSUME NEW m \in R PROVE m <= e
    OBVIOUS
  <2> QED
    BY <2>1
<1>2. Cardinality((k + 1)..e) = e - k
  BY SpanSize
<1> QED
  BY <1>1, <1>2 DEF Run

-----------------------------------------------------------------------------
(***************************************************************************)
(* How far the UTF-8 test has come: the characters before position s are   *)
(* complete, the one that starts there is being read up to position p, and *)
(* d continuation bytes are due.  At the end of the file the last byte is  *)
(* read again for each that is missing.                                    *)
(***************************************************************************)
Need(b) == IF b \in Leads THEN Continuations(b) ELSE 0

Starts(b) == ASCII(b) \/ b \in Leads

Settled(f, s) ==
  /\ ~UTF8_CONT(f[1])
  /\ \A k \in 1..(s - 1) : ~UTF8_CONT(f[k]) => Starts(f[k]) /\ Run(f, k) = Need(f[k])

InCharacter(f, p, d, b, s) ==
  /\ Settled(f, s)
  /\ Starts(f[s])
  /\ \A n \in (s + 1)..p : UTF8_CONT(f[n])
  /\ b = f[p]
  /\ \/ d = Need(f[s]) - (p - s)
     \/ p = Len(f) /\ p > s /\ d <= Need(f[s]) - (p - s)

Scanned(f, p, d, b) ==
  \/ p = 0 /\ d = 0
  \/ \E s \in 1..p : InCharacter(f, p, d, b, s)

\* The three kinds of bytes the test tells apart.
LEMMA Kinds ==
  ASSUME NEW b \in Byte
  PROVE  /\ Need(b) \in 0..3
         /\ Starts(b) => ~UTF8_CONT(b)
         /\ ASCII(b) => Need(b) = 0
         /\ b \in Leads => Need(b) = Continuations(b) /\ Need(b) > 0 /\ ~ASCII(b)
BY DEF Need, Starts, Leads, Continuations, UTF8_CONT, ASCII, Byte

\* What the test accepts, character by character.
Accepted(f) ==
  /\ ~UTF8_CONT(f[1])
  /\ \A k \in DOMAIN f : ~UTF8_CONT(f[k]) =>
       /\ Starts(f[k])
       /\ \/ Run(f, k) = Need(f[k])
          \/ k + Run(f, k) = Len(f) /\ Run(f, k) \in 1..Need(f[k])

\* A run stops before the next byte that is no continuation byte.
LEMMA RunStops ==
  ASSUME NEW f \in Seq(Byte), NEW k \in DOMAIN f, NEW n \in (k + 1)..Len(f), ~UTF8_CONT(f[n])
  PROVE  Run(f, k) \in Nat /\ k + Run(f, k) < n
<1> DEFINE R == {m \in (k + 1)..Len(f) : \A l \in (k + 1)..m : UTF8_CONT(f[l])}
<1>1. k \in Nat /\ n - 1 \in Nat /\ n - 1 \in k..(n - 1) /\ n \in Nat
  OBVIOUS
<1>2. IsFiniteSet((k + 1)..(n - 1)) /\ Cardinality((k + 1)..(n - 1)) = (n - 1) - k
  BY <1>1, SpanSize
<1>3. R \subseteq (k + 1)..(n - 1)
  OBVIOUS
<1>4. Cardinality(R) \in Nat /\ Cardinality(R) <= (n - 1) - k
  BY <1>2, <1>3, FS_Subset, FS_CardinalityType
<1> QED
  BY <1>1, <1>4 DEF Run

\* A whole character in terms of Need.
LEMMA WholeCharacter ==
  ASSUME NEW f \in Seq(Byte), NEW k \in DOMAIN f
  PROVE  Whole(f, k) <=> UTF8_CONT(f[k]) \/ (Starts(f[k]) /\ Run(f, k) = Need(f[k]))
<1>1. f[k] \in Byte
  OBVIOUS
<1>2. CASE ASCII(f[k])
  <2>1. Need(f[k]) = 0 /\ f[k] \notin Leads
    BY <1>1, <1>2, Kinds
  <2> QED
    BY <1>2, <2>1 DEF Whole, Starts
<1>3. CASE f[k] \in Leads
  BY <1>1, <1>3, Kinds DEF Whole, Starts
<1> QED
  BY <1>2, <1>3 DEF Whole, Starts

\* The test accepts the UTF-8 texts and those that are cut short.
LEMMA Text ==
  ASSUME NEW f \in Seq(Byte), f # <<>>
  PROVE  Accepted(f) <=> IsUTF8(f) \/ CutShort(f)
<1>1. \A k \in DOMAIN f : f[k] \in Byte /\ Need(f[k]) \in 0..3 /\ k \in Nat
  BY Kinds
<1>2. ASSUME Accepted(f), ~IsUTF8(f) PROVE CutShort(f)
  <2>1. PICK k \in DOMAIN f : ~Whole(f, k)
    BY <1>2 DEF Accepted, IsUTF8
  <2>2. ~UTF8_CONT(f[k]) /\ Starts(f[k]) /\ Run(f, k) # Need(f[k])
    BY <1>2, <2>1, WholeCharacter DEF Accepted
  <2>3. k + Run(f, k) = Len(f) /\ Run(f, k) \in 1..Need(f[k])
    BY <1>2, <2>2 DEF Accepted
  <2>4. Need(f[k]) > 0
    BY <1>1, <2>3
  <2>5. f[k] \in Leads /\ Need(f[k]) = Continuations(f[k])
    BY <2>4 DEF Need
  <2>6. Run(f, k) \in 1..(Continuations(f[k]) - 1)
    BY <1>1, <2>2, <2>3, <2>5
  <2>7. ASSUME NEW n \in 1..(k - 1) PROVE Whole(f, n)
    <3>1. n \in DOMAIN f /\ k \in (n + 1)..Len(f)
      OBVIOUS
    <3>2. n + Run(f, n) # Len(f)
      BY <2>2, <3>1, RunStops
    <3> QED
      BY <1>2, <3>1, <3>2, WholeCharacter DEF Accepted
  <2> QED
    BY <1>2, <2>3, <2>5, <2>6, <2>7 DEF CutShort, Accepted
<1>3. ASSUME IsUTF8(f) PROVE Accepted(f)
  BY <1>3, WholeCharacter DEF IsUTF8, Accepted
<1>4. ASSUME CutShort(f) PROVE Accepted(f)
  <2>1. PICK k \in DOMAIN f :
          /\ f[k] \in Leads /\ k + Run(f, k) = Len(f) /\ Run(f, k) \in 1..(Continuations(f[k]) - 1)
          /\ ~UTF8_CONT(f[1]) /\ \A n \in 1..(k - 1) : Whole(f, n)
    BY <1>4 DEF CutShort
  <2>2. Need(f[k]) = Continuations(f[k]) /\ Starts(f[k])
    BY <2>1 DEF Need, Starts
  <2>3. Run(f, k) \in 1..Need(f[k])
    BY <1>1, <2>1, <2>2
  <2>4. ASSUME NEW n \in DOMAIN f, ~UTF8_CONT(f[n])
        PROVE  /\ Starts(f[n])
               /\ \/ Run(f, n) = Need(f[n])
                  \/ n + Run(f, n) = Len(f) /\ Run(f, n) \in 1..Need(f[n])
    <3>1. CASE n < k
      <4>1. n \in 1..(k - 1)
        BY <3>1
      <4> QED
        BY <2>1, <2>4, <4>1, WholeCharacter
    <3>2. CASE n = k
      BY <2>1, <2>2, <2>3, <3>2
    <3>3. CASE n > k
      <4>1. n \in (k + 1)..Len(f)
        BY <3>3
      <4>2. k + Run(f, k) < n /\ n <= Len(f)
        BY <2>4, <4>1, RunStops
      <4> QED
        BY <1>1, <2>1, <2>3, <4>2
    <3> QED
      BY <3>1, <3>2, <3>3
  <2> QED
    BY <2>1, <2>4 DEF Accepted
<1> QED
  BY <1>2, <1>3, <1>4

\* The run of the character being read, when something else follows.
LEMMA CharacterRun ==
  ASSUME NEW f \in Seq(Byte), NEW p \in 1..Len(f), NEW d \in Nat, NEW b,
         NEW s \in 1..p, InCharacter(f, p, d, b, s),
         p = Len(f) \/ ~UTF8_CONT(f[p + 1])
  PROVE  Run(f, s) = p - s
<1>1. s \in Nat /\ p \in s..Len(f) /\ \A n \in (s + 1)..p : UTF8_CONT(f[n])
  BY DEF InCharacter
<1> QED
  BY <1>1, RunIs

LEMMA NextCharacter ==
  ASSUME NEW f \in Seq(Byte), NEW p \in 0..Len(f), NEW b, Scanned(f, p, 0, b),
         p < Len(f), Starts(f[p + 1])
  PROVE  Scanned(f, p + 1, Need(f[p + 1]), f[p + 1])
<1>1. \A k \in DOMAIN f : f[k] \in Byte
  OBVIOUS
<1>2. ~UTF8_CONT(f[p + 1])
  BY <1>1, Kinds
<1>3. Settled(f, p + 1)
  <2>1. CASE p = 0
    BY <2>1, <1>2 DEF Settled
  <2>2. CASE p > 0
    <3>1. PICK s \in 1..p : InCharacter(f, p, 0, b, s)
      BY <2>2 DEF Scanned
    <3>2. Need(f[s]) = p - s
      <4>1. f[s] \in Byte /\ Need(f[s]) \in Int
        BY <1>1, Kinds
      <4> QED
        BY <3>1, <4>1 DEF InCharacter
    <3>3. Run(f, s) = p - s
      BY <2>2, <3>1, <1>2, CharacterRun
    <3>4. ASSUME NEW k \in 1..p, ~UTF8_CONT(f[k])
          PROVE  Starts(f[k]) /\ Run(f, k) = Need(f[k])
      <4>1. k <= s
        BY <3>1, <3>4 DEF InCharacter
      <4>2. CASE k = s
        BY <4>2, <3>1, <3>2, <3>3 DEF InCharacter
      <4>3. CASE k < s
        BY <4>3, <3>1, <3>4 DEF InCharacter, Settled
      <4> QED
        BY <4>1, <4>2, <4>3
    <3> QED
      BY <3>1, <3>4 DEF InCharacter, Settled
  <2> QED
    BY <2>1, <2>2
<1>4. InCharacter(f, p + 1, Need(f[p + 1]), f[p + 1], p + 1)
  <2>1. Need(f[p + 1]) = Need(f[p + 1]) - ((p + 1) - (p + 1))
    BY <1>1, Kinds
  <2> QED
    BY <1>3, <2>1 DEF InCharacter
<1> QED
  BY <1>4 DEF Scanned

LEMMA NoCharacter ==
  ASSUME NEW f \in Seq(Byte), NEW p \in 0..Len(f), NEW b, Scanned(f, p, 0, b),
         p < Len(f), ~Starts(f[p + 1])
  PROVE  ~Accepted(f)
<1>1. CASE ~UTF8_CONT(f[p + 1])
  BY <1>1 DEF Accepted
<1>2. CASE UTF8_CONT(f[p + 1]) /\ p = 0
  BY <1>2 DEF Accepted
<1>3. CASE UTF8_CONT(f[p + 1]) /\ p > 0
  <2>1. PICK s \in 1..p : InCharacter(f, p, 0, b, s)
    BY <1>3 DEF Scanned
  <2>2. f[s] \in Byte /\ ~UTF8_CONT(f[s]) /\ Need(f[s]) = p - s
    BY <2>1, Kinds DEF InCharacter
  <2>3. s \in Nat /\ p + 1 \in s..Len(f) /\ \A n \in (s + 1)..(p + 1) : UTF8_CONT(f[n])
    BY <1>3, <2>1 DEF InCharacter
  <2>4. Run(f, s) \in Nat /\ Run(f, s) > Need(f[s])
    BY <2>2, <2>3, RunAtLeast
  <2> QED
    BY <2>2, <2>4 DEF Accepted
<1> QED
  BY <1>1, <1>2, <1>3

LEMMA WholeText ==
  ASSUME NEW f \in Seq(Byte), NEW b, f # <<>>, Scanned(f, Len(f), 0, b)
  PROVE  Accepted(f)
<1>1. Len(f) \in 1..Len(f)
  BY EmptySeq
<1>2. PICK s \in 1..Len(f) : InCharacter(f, Len(f), 0, b, s)
  BY <1>1 DEF Scanned
<1>3. Run(f, s) = Len(f) - s
  BY <1>1, <1>2, CharacterRun
<1>4. f[s] \in Byte /\ Need(f[s]) \in 0..3
  BY Kinds
<1>5. Run(f, s) = Need(f[s]) \/ (s + Run(f, s) = Len(f) /\ Run(f, s) \in 1..Need(f[s]))
  BY <1>2, <1>3, <1>4 DEF InCharacter
<1>6. ASSUME NEW k \in DOMAIN f, ~UTF8_CONT(f[k])
      PROVE  /\ Starts(f[k])
             /\ \/ Run(f, k) = Need(f[k])
                \/ k + Run(f, k) = Len(f) /\ Run(f, k) \in 1..Need(f[k])
  <2>1. k \in 1..Len(f) /\ k <= s
    BY <1>2, <1>6 DEF InCharacter
  <2>2. CASE k = s
    BY <2>2, <1>2, <1>5 DEF InCharacter
  <2>3. CASE k < s
    BY <2>1, <2>3, <1>2, <1>6 DEF InCharacter, Settled
  <2> QED
    BY <2>1, <2>2, <2>3
<1> QED
  BY <1>2, <1>6 DEF InCharacter, Settled, Accepted

LEMMA OneMoreByte ==
  ASSUME NEW f \in Seq(Byte), NEW p \in 0..Len(f), NEW d \in Nat, NEW b,
         Scanned(f, p, d, b), d > 0, p < Len(f), UTF8_CONT(f[p + 1])
  PROVE  Scanned(f, p + 1, d - 1, f[p + 1])
<1>1. PICK s \in 1..p : InCharacter(f, p, d, b, s)
  BY DEF Scanned
<1>2. Need(f[s]) \in 0..3
  BY Kinds
<1>3. InCharacter(f, p + 1, d - 1, f[p + 1], s)
  <2>1. d - 1 = Need(f[s]) - (p + 1 - s)
    BY <1>1, <1>2 DEF InCharacter
  <2>2. \A n \in (s + 1)..(p + 1) : UTF8_CONT(f[n])
    BY <1>1 DEF InCharacter
  <2> QED
    BY <1>1, <2>1, <2>2 DEF InCharacter
<1> QED
  BY <1>3 DEF Scanned

\* At the end of the file the last byte stands in for one that is missing.
LEMMA SameByteAgain ==
  ASSUME NEW f \in Seq(Byte), NEW d \in Nat, NEW b,
         Scanned(f, Len(f), d, b), d > 0, UTF8_CONT(b)
  PROVE  Scanned(f, Len(f), d - 1, b)
<1>1. PICK s \in 1..Len(f) : InCharacter(f, Len(f), d, b, s)
  BY DEF Scanned
<1>2. f[s] \in Byte /\ Need(f[s]) \in 0..3 /\ ~UTF8_CONT(f[s])
  BY <1>1, Kinds DEF InCharacter
<1>3. Len(f) > s
  BY <1>1, <1>2 DEF InCharacter
<1>4. InCharacter(f, Len(f), d - 1, b, s)
  BY <1>1, <1>2, <1>3 DEF InCharacter
<1> QED
  BY <1>4 DEF Scanned

\* A character that is too short is none.
LEMMA TooShort ==
  ASSUME NEW f \in Seq(Byte), NEW p \in 0..Len(f), NEW d \in Nat, NEW b,
         Scanned(f, p, d, b), d > 0,
         IF p = Len(f) THEN ~UTF8_CONT(b) ELSE ~UTF8_CONT(f[p + 1])
  PROVE  ~Accepted(f)
<1>1. PICK s \in 1..p : InCharacter(f, p, d, b, s)
  BY DEF Scanned
<1>2. f[s] \in Byte /\ Need(f[s]) \in 0..3 /\ ~UTF8_CONT(f[s])
  BY <1>1, Kinds DEF InCharacter
<1>3. Run(f, s) = p - s
  BY <1>1, CharacterRun
<1>4. p = Len(f) => p = s
  BY <1>1 DEF InCharacter
<1>5. Need(f[s]) > p - s
  BY <1>1, <1>2, <1>4 DEF InCharacter
<1> QED
  BY <1>2, <1>3, <1>4, <1>5 DEF Accepted

-----------------------------------------------------------------------------
(***************************************************************************)
(* The inductive invariant.                                                *)
(***************************************************************************)
Tests == {"empty", "ASCII", "UTF8", "ISO8859", "UTF16L", "UTF16B"}

\* What the tests done so far, and the bytes this one has read, say of file f.
FileInv(f) ==
  /\ pos <= Len(f)
  /\ test = "empty" => pos = 0
  /\ test # "empty" => f # <<>>
  /\ test \in {"ASCII", "ISO8859"} => pos = 0 \/ buffer = f[pos]
  /\ test = "ASCII" => \A k \in 1..pos : ASCII(f[k])
  /\ test \in {"UTF8", "ISO8859", "UTF16L", "UTF16B"} => ~AllText(f)
  /\ test = "UTF8" => Scanned(f, pos, due, buffer)
  /\ test # "UTF8" => due = 0
  /\ test \in {"ISO8859", "UTF16L", "UTF16B"} => ~Accepted(f)
  /\ test = "ISO8859" => \A k \in 1..pos : ASCII(f[k]) \/ AtLeastA0(f[k])
  /\ test \in {"UTF16L", "UTF16B"} => ~IsISO(f) /\ pos = 0
  /\ test = "UTF16B" => ~(Len(f) > 1 /\ f[1] = "FF" /\ f[2] = "FE")

ArgInv ==
  /\ test \in {"measure", "open"} => pos = 0 /\ due = 0
  /\ test = "measure" => i = 1
  /\ test # "measure" => \A k \in DOMAIN argv : max_length >= argv[k].length
  /\ test \in Tests => i <= Len(argv) /\ Content \in Seq(Byte) /\ FileInv(Content)

\* Every line printed is right.
PrintedInv ==
  /\ Len(printed) = i - 1
  /\ \A k \in 1..(i - 1) :
       /\ printed[k].column = max_length + 2
       /\ Fits(argv[k].content) => printed[k].type = Verdict(argv[k].content)

IInv == TypeOK /\ argv \in Files /\ ArgInv /\ PrintedInv

\* What the tests in their order say of a file.
LEMMA Verdicts ==
  ASSUME NEW f \in Seq(Byte)
  PROVE  /\ f # Missing
         /\ f = <<>> => Verdict(f) = "empty"
         /\ f # <<>> => Verdict(f) =
              IF AllText(f) THEN "ASCII"
              ELSE IF Accepted(f) THEN "UTF8"
              ELSE IF IsISO(f) THEN "ISO8859"
              ELSE IF Len(f) > 1 /\ f[1] = "FF" /\ f[2] = "FE" THEN "UTF16L"
              ELSE IF Len(f) > 1 /\ f[1] = "FE" /\ f[2] = "FF" THEN "UTF16B"
              ELSE "data"
<1>1. f # Missing
  BY FileTypeAssumption
<1>2. CASE f = <<>>
  <2>1. DOMAIN f = {}
    BY <1>2
  <2>2. ~CutShort(f)
    BY <2>1 DEF CutShort
  <2> QED
    BY <1>1, <1>2, <2>2 DEF Verdict, Classify
<1>3. CASE f # <<>>
  <2>1. AllText(f) => ~CutShort(f)
    <3>1. ASSUME NEW k \in DOMAIN f, ASCII(f[k]) PROVE f[k] \notin Leads
      BY <3>1 DEF ASCII, Leads
    <3> QED
      BY <3>1 DEF AllText, CutShort
  <2>2. Accepted(f) <=> IsUTF8(f) \/ CutShort(f)
    BY <1>3, Text
  <2> QED
    BY <1>1, <1>3, <2>1, <2>2 DEF Verdict, Classify
<1> QED
  BY <1>2, <1>3

LEMMA MissingVerdict == Verdict(Missing) = "ERROR"
<1>1. <<>> \in Seq(Byte)
  OBVIOUS
<1>2. Missing # <<>>
  BY <1>1, FileTypeAssumption
<1> QED
  BY <1>2 DEF Verdict, Classify

\* A length below IntLimit is its own int.
LEMMA ShortLength ==
  ASSUME NEW n \in 0..(IntLimit - 1)
  PROVE  AsInt(n) = n
<1>1. IntLimit \in Nat /\ IntLimit > 0
  BY FileTypeAssumption
<1> DEFINE a == n + IntLimit
           b == 2 * IntLimit
<1>2. a \in Nat /\ b \in Nat /\ b > 0 /\ a < b
  BY <1>1
<1>3. \A x, y \in Nat : y > 0 /\ x < y => x % y = x
  BY SMT
<1>4. a % b = a
  <2> HIDE DEF a, b
  <2> QED
    BY <1>2, <1>3
<1> QED
  BY <1>1, <1>4 DEF AsInt

\* The size of a file that is short enough.
LEMMA SizeIsLength ==
  ASSUME Content \in Seq(Byte)
  PROVE  /\ Fits(Content) => Size = Len(Content) /\ Size # -IntLimit
         /\ Size # 0 => Content # <<>>
<1>1. IntLimit \in Nat /\ IntLimit > 0 /\ Len(Content) \in Nat /\ Content # Missing
  BY FileTypeAssumption
<1>2. Fits(Content) => Size = Len(Content)
  BY <1>1, ShortLength DEF Fits, Size
<1>3. Content = <<>> => Size = 0
  <2>1. 0 \in 0..(IntLimit - 1)
    BY <1>1
  <2>2. Content = <<>> => Len(Content) = 0
    BY EmptySeq
  <2> QED
    BY <2>1, <2>2, ShortLength DEF Size
<1> QED
  BY <1>1, <1>2, <1>3

LEMMA Arguments ==
  ASSUME argv \in Files, NEW k \in DOMAIN argv
  PROVE  /\ k \in 1..Len(argv)
         /\ argv[k].length \in Nat
         /\ argv[k].content \in Seq(Byte) \cup {Missing}
<1> DEFINE S == [length : Nat, content : Seq(Byte) \cup {Missing}]
<1>1. argv \in Seq(S)
  BY DEF Files
<1> HIDE DEF S
<1>2. k \in 1..Len(argv) /\ argv[k] \in S
  BY <1>1
<1> QED
  BY <1>2 DEF S

\* A line with the right type keeps the invariant.
LEMMA LineKeeps ==
  ASSUME IInv, NEW type \in Types \cup {"ERROR"}, Report(type), Fits(Content) => type = Verdict(Content),
         i <= Len(argv), test # "measure", due' = 0, buffer' \in Byte,
         UNCHANGED <<argv, max_length>>
  PROVE  IInv'
<1>1. i \in DOMAIN argv /\ i \in 1..Len(argv)
  BY DEF IInv, TypeOK, Files
<1>2. argv[i].length \in Nat /\ max_length \in Int /\ max_length >= argv[i].length
  BY <1>1, Arguments DEF IInv, TypeOK, ArgInv
<1>3. argv[i].length + 1 + Pad(max_length - argv[i].length + 1) = max_length + 2
  BY <1>2 DEF Pad
<1> DEFINE new == [type |-> type, column |-> max_length + 2]
<1>4. printed' = Append(printed, new) /\ i' = i + 1 /\ test' = "open" /\ pos' = 0
  BY <1>3 DEF Report
<1>5. new \in [type : Types \cup {"ERROR"}, column : Nat]
  BY <1>2
<1>6. TypeOK'
  <2>1. printed' \in Seq([type : Types \cup {"ERROR"}, column : Nat])
    BY <1>4, <1>5, AppendProperties DEF IInv, TypeOK
  <2>2. i' \in 1..(Len(argv') + 1)
    BY <1>1, <1>4
  <2> QED
    BY <1>2, <1>4, <2>1, <2>2 DEF TypeOK
<1>7. PrintedInv'
  <2>1. /\ Len(printed) = i - 1 /\ Len(printed') = i
        /\ \A k \in 1..(i - 1) : printed'[k] = printed[k]
        /\ printed'[i] = new
    <3>1. Len(printed) = i - 1 /\ printed \in Seq([type : Types \cup {"ERROR"}, column : Nat])
      BY DEF IInv, PrintedInv, TypeOK
    <3> QED
      BY <3>1, <1>1, <1>4, <1>5, AppendProperties
  <2>2. ASSUME NEW k \in 1..(i' - 1)
        PROVE  /\ printed'[k].column = max_length' + 2
               /\ Fits(argv'[k].content) => printed'[k].type = Verdict(argv'[k].content)
    <3>1. CASE k = i
      <4>1. argv'[k].content = Content
        BY <3>1 DEF Content
      <4> QED
        BY <3>1, <4>1, <2>1
    <3>2. CASE k # i
      <4>1. k \in 1..(i - 1) /\ printed'[k] = printed[k]
        BY <3>2, <1>1, <1>4, <2>1, <2>2
      <4>2. /\ printed[k].column = max_length + 2
            /\ Fits(argv[k].content) => printed[k].type = Verdict(argv[k].content)
        BY <4>1, <1>4 DEF IInv, PrintedInv
      <4> QED
        BY <4>1, <4>2
    <3> QED
      BY <3>1, <3>2
  <2> QED
    BY <1>4, <1>1, <2>1, <2>2 DEF PrintedInv
<1>8. ArgInv'
  <2>1. \A k \in DOMAIN argv : max_length >= argv[k].length
    BY DEF IInv, ArgInv
  <2> QED
    BY <1>4, <2>1 DEF ArgInv, Tests
<1>9. (argv \in Files)'
  BY DEF IInv
<1> QED
  BY <1>6, <1>7, <1>8, <1>9 DEF IInv

\* So does a step inside a file that prints nothing.
LEMMA StayKeeps ==
  ASSUME IInv, test # "measure", i <= Len(argv), Content \in Seq(Byte),
         test' \in Tests, pos' \in Nat, buffer' \in Byte, due' \in 0..3,
         UNCHANGED <<argv, i, max_length, printed>>, FileInv(Content)'
  PROVE  IInv'
<1>1. Content' = Content
  BY DEF Content
<1>2. TypeOK'
  <2>1. test' \in {"measure", "open", "empty", "ASCII", "UTF8", "ISO8859", "UTF16L", "UTF16B", "done"}
    BY DEF Tests
  <2> QED
    BY <2>1 DEF IInv, TypeOK
<1>3. ArgInv'
  <2>1. test' \notin {"measure", "open"}
    BY DEF Tests
  <2> QED
    BY <1>1, <2>1 DEF IInv, ArgInv
<1> QED
  BY <1>2, <1>3 DEF IInv, PrintedInv

-----------------------------------------------------------------------------
LEMMA InitInv == Init => IInv
<1> SUFFICES ASSUME Init PROVE IInv
  OBVIOUS
<1>1. argv \in Files /\ max_length \in Int
  BY FileTypeAssumption DEF Init, Files
<1>2. Len(argv) \in Nat
  BY <1>1 DEF Files
<1>3. printed = <<>> /\ printed \in Seq([type : Types \cup {"ERROR"}, column : Nat]) /\ Len(printed) = 0
  BY EmptySeq DEF Init
<1>4. TypeOK
  BY <1>1, <1>2, <1>3 DEF Init, TypeOK, Byte
<1> QED
  BY <1>1, <1>3, <1>4 DEF Init, IInv, ArgInv, PrintedInv, Tests

LEMMA Measure == IInv /\ determine_max_length => IInv'
<1> SUFFICES ASSUME IInv, determine_max_length PROVE IInv'
  OBVIOUS
<1>1. i = 1 /\ pos = 0 /\ due = 0 /\ test' = "open" /\ UNCHANGED <<argv, i, pos, buffer, due, printed>>
  BY DEF determine_max_length, inputs, IInv, ArgInv
<1>2. /\ max_length' \in {max_length} \cup {argv[k].length : k \in DOMAIN argv}
      /\ \A k \in DOMAIN argv : max_length' >= argv[k].length
  BY DEF determine_max_length
<1>3. max_length' \in Int
  <2>1. ASSUME NEW k \in DOMAIN argv PROVE argv[k].length \in Int
    BY Arguments DEF IInv
  <2> QED
    BY <1>2, <2>1 DEF IInv, TypeOK
<1>4. TypeOK'
  BY <1>1, <1>3 DEF IInv, TypeOK
<1> QED
  BY <1>1, <1>2, <1>4 DEF IInv, ArgInv, PrintedInv, Tests

LEMMA Open == IInv /\ OpenNext => IInv'
<1> SUFFICES ASSUME IInv, OpenNext PROVE IInv'
  OBVIOUS
<1>1. test = "open" /\ pos = 0 /\ due = 0 /\ UNCHANGED <<argv, buffer, due, max_length>>
      /\ buffer \in Byte
  BY DEF OpenNext, inputs, IInv, ArgInv, TypeOK
<1>2. CASE i > Len(argv)
  <2>1. test' = "done" /\ UNCHANGED <<i, pos, printed>>
    BY <1>2 DEF OpenNext
  <2>2. TypeOK'
    BY <1>1, <2>1 DEF IInv, TypeOK
  <2> QED
    BY <1>1, <2>1, <2>2 DEF IInv, ArgInv, PrintedInv, Tests
<1>3. CASE i <= Len(argv) /\ Content = Missing
  <2>1. Report("ERROR") /\ "ERROR" = Verdict(Content)
    <3>1. ~(i > Len(argv))
      BY <1>3 DEF IInv, TypeOK, Files
    <3> QED
      BY <1>3, <3>1, MissingVerdict DEF OpenNext
  <2> QED
    BY <1>1, <1>3, <2>1, LineKeeps
<1>4. CASE i <= Len(argv) /\ Content # Missing
  <2>1. ~(i > Len(argv)) /\ i \in DOMAIN argv
    BY <1>4 DEF IInv, TypeOK, Files
  <2>2. test' = "empty" /\ UNCHANGED <<i, pos, printed>>
    BY <1>4, <2>1 DEF OpenNext
  <2>3. Content \in Seq(Byte)
    BY <1>4, <2>1, Arguments DEF IInv, Content
  <2>4. FileInv(Content)'
    BY <1>1, <2>2 DEF FileInv
  <2>5. test' \in Tests /\ pos' \in Nat /\ buffer' \in Byte /\ due' \in 0..3
    BY <1>1, <2>2 DEF Tests
  <2> QED
    BY <1>1, <1>4, <2>2, <2>3, <2>4, <2>5, StayKeeps
<1> QED
  BY <1>2, <1>3, <1>4 DEF IInv, TypeOK, Files

\* What every test starts from.
LEMMA Inside ==
  ASSUME IInv, test \in Tests
  PROVE  /\ i \in 1..Len(argv) /\ i <= Len(argv) /\ test # "measure"
         /\ Content \in Seq(Byte) /\ Len(Content) \in Nat
         /\ FileInv(Content)
         /\ pos \in Nat /\ buffer \in Byte /\ due \in 0..3
         /\ pos \in 0..Len(Content) /\ Byte_read \in Byte /\ After_read \in 0..Len(Content)
         /\ test # "empty" => Content # <<>> /\ Len(Content) > 0
<1>1. /\ i <= Len(argv) /\ test # "measure" /\ Content \in Seq(Byte) /\ FileInv(Content)
      /\ pos \in Nat /\ buffer \in Byte /\ due \in 0..3 /\ i \in 1..(Len(argv) + 1)
      /\ Len(argv) \in Nat
  BY DEF IInv, ArgInv, TypeOK, Tests, Files
<1>2. test # "empty" => Content # <<>> /\ Len(Content) > 0
  BY <1>1, EmptySeq DEF FileInv
<1>3. pos \in 0..Len(Content) /\ Byte_read \in Byte /\ After_read \in 0..Len(Content)
  <2>1. pos \in 0..Len(Content)
    BY <1>1 DEF FileInv
  <2>2. pos # Len(Content) => Content[pos + 1] \in Byte
    BY <1>1, <2>1
  <2> QED
    BY <1>1, <2>1, <2>2 DEF Byte_read, After_read, AtEnd
<1> QED
  BY <1>1, <1>2, <1>3

LEMMA Empty == IInv /\ determine_if_empty => IInv'
<1> SUFFICES ASSUME IInv, determine_if_empty PROVE IInv'
  OBVIOUS
<1>1. test = "empty" /\ test \in Tests /\ UNCHANGED <<argv, buffer, due, max_length>>
  BY DEF determine_if_empty, inputs, Tests
<1>2. due = 0 /\ pos = 0
  BY <1>1, Inside DEF FileInv
<1>3. CASE Size = 0
  <2>1. Report("empty") /\ "empty" \in Types
    BY <1>3 DEF determine_if_empty, Types
  <2>2. Fits(Content) => "empty" = Verdict(Content)
    BY <1>1, <1>3, Inside, SizeIsLength, Verdicts, EmptySeq
  <2> QED
    BY <1>1, <1>2, <2>1, <2>2, Inside, LineKeeps
<1>4. CASE Size # 0
  <2>1. test' = "ASCII" /\ pos' = 0 /\ UNCHANGED <<i, printed>> /\ Content # <<>>
    BY <1>1, <1>4, Inside, SizeIsLength DEF determine_if_empty, GoOn
  <2>2. FileInv(Content)'
    BY <1>1, <1>2, <1>4, <2>1, Inside DEF FileInv, Content
  <2> QED
    BY <1>1, <2>1, <2>2, Inside, StayKeeps DEF Tests
<1> QED
  BY <1>3, <1>4

\* A loop over size bytes ends after the last byte of a file that is short
\* enough; in one that is not it may read the last byte again and again.
LEMMA Turns ==
  ASSUME IInv, test \in Tests
  PROVE  /\ Fits(Content) => (InTurns <=> ~AtEnd)
         /\ AtEnd => Byte_read = buffer /\ After_read = pos
         /\ ~AtEnd => /\ Byte_read = Content[pos + 1] /\ After_read = pos + 1
                      /\ pos + 1 \in DOMAIN Content
BY Inside, SizeIsLength DEF InTurns, AtEnd, Byte_read, After_read

LEMMA Ascii == IInv /\ determine_if_ASCII => IInv'
<1> SUFFICES ASSUME IInv, determine_if_ASCII PROVE IInv'
  OBVIOUS
<1>1. test = "ASCII" /\ test \in Tests /\ UNCHANGED <<argv, due, max_length>>
  BY DEF determine_if_ASCII, inputs, Tests
<1>2. /\ due = 0 /\ \A k \in 1..pos : ASCII(Content[k])
      /\ pos = 0 \/ buffer = Content[pos]
  BY <1>1, Inside DEF FileInv
<1>3. CASE ~InTurns
  <2>1. Report("ASCII") /\ buffer' \in Byte
    BY <1>1, <1>3, Inside DEF determine_if_ASCII
  <2>2. Fits(Content) => AllText(Content)
    BY <1>1, <1>2, <1>3, Inside, Turns DEF AllText, AtEnd
  <2>3. (Fits(Content) => "ASCII" = Verdict(Content)) /\ "ASCII" \in Types
    BY <1>1, <2>2, Inside, Verdicts DEF Types
  <2> QED
    BY <1>1, <1>2, <2>1, <2>3, Inside, LineKeeps
<1>4. CASE InTurns
  <2>1. buffer' = Byte_read /\ buffer' \in Byte /\ Content' = Content
    BY <1>1, <1>4, Inside DEF determine_if_ASCII, GoOn, Content
  <2>2. CASE ASCII(buffer')
    <3>1. pos' = After_read /\ UNCHANGED <<i, test, printed>>
      BY <1>4, <2>2 DEF determine_if_ASCII
    <3>2. \A k \in 1..After_read : ASCII(Content[k])
      BY <1>1, <1>2, <2>1, <2>2, Inside, Turns
    <3>3. After_read = 0 \/ buffer' = Content[After_read]
      BY <1>1, <1>2, <2>1, Turns
    <3>4. FileInv(Content)'
      BY <1>1, <1>2, <2>1, <3>1, <3>2, <3>3, Inside DEF FileInv
    <3> QED
      BY <1>1, <2>1, <3>1, <3>4, Inside, StayKeeps
  <2>3. CASE ~ASCII(buffer')
    <3>1. test' = "UTF8" /\ pos' = 0 /\ UNCHANGED <<i, printed>>
      BY <1>4, <2>3 DEF determine_if_ASCII, GoOn
    <3>2. ~AllText(Content)
      <4>1. CASE AtEnd
        BY <1>1, <1>2, <2>1, <2>3, <4>1, Inside, Turns DEF AtEnd
      <4>2. CASE ~AtEnd
        BY <1>1, <2>1, <2>3, <4>2, Turns DEF AllText
      <4> QED
        BY <4>1, <4>2
    <3>3. FileInv(Content)'
      BY <1>1, <1>2, <2>1, <3>1, <3>2, Inside DEF FileInv, Scanned
    <3> QED
      BY <1>1, <2>1, <3>1, <3>3, Inside, StayKeeps DEF Tests
  <2> QED
    BY <2>2, <2>3
<1> QED
  BY <1>3, <1>4

LEMMA Utf8 == IInv /\ determine_if_UTF8 => IInv'
<1> SUFFICES ASSUME IInv, determine_if_UTF8 PROVE IInv'
  OBVIOUS
<1>1. test = "UTF8" /\ test \in Tests /\ due = 0 /\ UNCHANGED <<argv, max_length>>
  BY DEF determine_if_UTF8, inputs, Tests
<1>2. pos <= Len(Content) /\ ~AllText(Content) /\ Scanned(Content, pos, 0, buffer)
  BY <1>1, Inside DEF FileInv
<1>3. CASE AtEnd
  <2>1. Report("UTF8") /\ buffer' \in Byte /\ due' = 0
    BY <1>1, <1>3, Inside DEF determine_if_UTF8
  <2>2. Accepted(Content)
    BY <1>1, <1>2, <1>3, Inside, WholeText DEF AtEnd
  <2>3. "UTF8" = Verdict(Content) /\ "UTF8" \in Types
    BY <1>1, <1>2, <2>2, Inside, Verdicts DEF Types
  <2> QED
    BY <1>1, <2>1, <2>3, Inside, LineKeeps
<1>4. CASE ~AtEnd
  <2>1. /\ buffer' = Content[pos + 1] /\ buffer' \in Byte /\ pos < Len(Content)
        /\ pos \in 0..Len(Content)
    BY <1>1, <1>2, <1>4, Inside DEF determine_if_UTF8, AtEnd, Byte_read
  <2>2. CASE Starts(buffer')
    <3>1. /\ pos' = pos + 1 /\ UNCHANGED <<i, test, printed>>
          /\ due' = IF ASCII(buffer') THEN 0 ELSE Continuations(buffer')
      BY <1>4, <2>2 DEF determine_if_UTF8, Starts, After_read
    <3>2. due' = Need(buffer') /\ due' \in 0..3
      BY <2>1, <2>2, <3>1, Kinds DEF Starts
    <3>3. Scanned(Content, pos + 1, Need(buffer'), buffer')
      BY <1>1, <1>2, <2>1, <2>2, Inside, NextCharacter
    <3>4. Content' = Content
      BY <1>1, <3>1 DEF Content
    <3>5. FileInv(Content)'
      BY <1>1, <1>2, <2>1, <3>1, <3>2, <3>3, <3>4, Inside DEF FileInv
    <3> QED
      BY <1>1, <2>1, <3>1, <3>2, <3>5, Inside, StayKeeps
  <2>3. CASE ~Starts(buffer')
    <3>1. test' = "ISO8859" /\ pos' = 0 /\ due' = 0 /\ UNCHANGED <<i, printed>>
      BY <1>1, <1>4, <2>3 DEF determine_if_UTF8, GoOn, Starts
    <3>2. ~Accepted(Content)
      BY <1>1, <1>2, <2>1, <2>3, Inside, NoCharacter
    <3>3. Content' = Content
      BY <1>1, <3>1 DEF Content
    <3>4. FileInv(Content)'
      BY <1>1, <1>2, <3>1, <3>2, <3>3, Inside DEF FileInv
    <3> QED
      BY <1>1, <2>1, <3>1, <3>4, Inside, StayKeeps DEF Tests
  <2> QED
    BY <2>2, <2>3
<1> QED
  BY <1>3, <1>4

LEMMA Continuation == IInv /\ UTF8_continuation => IInv'
<1> SUFFICES ASSUME IInv, UTF8_continuation PROVE IInv'
  OBVIOUS
<1>1. test = "UTF8" /\ test \in Tests /\ due > 0 /\ UNCHANGED <<argv, max_length>>
  BY DEF UTF8_continuation, inputs, Tests
<1>2. /\ pos \in 0..Len(Content) /\ ~AllText(Content) /\ Scanned(Content, pos, due, buffer)
      /\ due \in Nat
  BY <1>1, Inside DEF FileInv
<1>3. /\ buffer' = IF pos = Len(Content) THEN buffer ELSE Content[pos + 1]
      /\ buffer' \in Byte
  BY <1>1, <1>2, Inside DEF UTF8_continuation, AtEnd, Byte_read
<1> DEFINE after == IF pos = Len(Content) THEN pos ELSE pos + 1
<1>4. after \in Nat /\ after <= Len(Content)
  BY <1>1, <1>2, Inside
<1>5. CASE UTF8_CONT(buffer')
  <2>1. pos' = after /\ due' = due - 1 /\ UNCHANGED <<i, test, printed>>
    BY <1>5 DEF UTF8_continuation, AtEnd, After_read
  <2>2. due' \in 0..3 /\ Content' = Content
    BY <1>1, <2>1, Inside DEF Content
  <2>3. Scanned(Content, after, due - 1, buffer')
    <3>1. CASE pos = Len(Content)
      BY <1>1, <1>2, <1>3, <1>5, <3>1, Inside, SameByteAgain
    <3>2. CASE pos # Len(Content)
      <4>1. pos < Len(Content) /\ UTF8_CONT(Content[pos + 1])
        BY <1>1, <1>2, <1>3, <1>5, <3>2, Inside
      <4> QED
        BY <1>1, <1>2, <1>3, <3>2, <4>1, Inside, OneMoreByte
    <3> QED
      BY <3>1, <3>2
  <2>4. FileInv(Content)'
    BY <1>1, <1>2, <1>4, <2>1, <2>2, <2>3, Inside DEF FileInv
  <2> QED
    BY <1>1, <1>3, <1>4, <2>1, <2>2, <2>4, Inside, StayKeeps
<1>6. CASE ~UTF8_CONT(buffer')
  <2>1. test' = "ISO8859" /\ pos' = 0 /\ due' = 0 /\ UNCHANGED <<i, printed>>
    BY <1>6 DEF UTF8_continuation, GoOn
  <2>2. ~Accepted(Content)
    BY <1>1, <1>2, <1>3, <1>6, Inside, TooShort
  <2>3. Content' = Content
    BY <1>1, <2>1 DEF Content
  <2>4. FileInv(Content)'
    BY <1>1, <1>2, <2>1, <2>2, <2>3, Inside DEF FileInv
  <2> QED
    BY <1>1, <1>3, <2>1, <2>4, Inside, StayKeeps DEF Tests
<1> QED
  BY <1>5, <1>6

LEMMA Iso == IInv /\ determine_if_ISO => IInv'
<1> SUFFICES ASSUME IInv, determine_if_ISO PROVE IInv'
  OBVIOUS
<1>1. test = "ISO8859" /\ test \in Tests /\ UNCHANGED <<argv, due, max_length>>
  BY DEF determine_if_ISO, inputs, Tests
<1>2. /\ due = 0 /\ ~AllText(Content) /\ ~Accepted(Content)
      /\ \A k \in 1..pos : ASCII(Content[k]) \/ AtLeastA0(Content[k])
      /\ pos = 0 \/ buffer = Content[pos]
  BY <1>1, Inside DEF FileInv
<1>3. CASE ~InTurns
  <2>1. Report("ISO8859") /\ buffer' \in Byte
    BY <1>1, <1>3, Inside DEF determine_if_ISO
  <2>2. Fits(Content) => IsISO(Content)
    BY <1>1, <1>2, <1>3, Inside, Turns DEF IsISO, AtEnd
  <2>3. (Fits(Content) => "ISO8859" = Verdict(Content)) /\ "ISO8859" \in Types
    BY <1>1, <1>2, <2>2, Inside, Verdicts DEF Types
  <2> QED
    BY <1>1, <1>2, <2>1, <2>3, Inside, LineKeeps
<1>4. CASE InTurns
  <2>1. buffer' = Byte_read /\ buffer' \in Byte /\ Content' = Content
    BY <1>1, <1>4, Inside DEF determine_if_ISO, GoOn, Content
  <2>2. CASE ASCII(buffer') \/ AtLeastA0(buffer')
    <3>1. pos' = After_read /\ UNCHANGED <<i, test, printed>>
      BY <1>4, <2>2 DEF determine_if_ISO
    <3>2. \A k \in 1..After_read : ASCII(Content[k]) \/ AtLeastA0(Content[k])
      BY <1>1, <1>2, <2>1, <2>2, Inside, Turns
    <3>3. After_read = 0 \/ buffer' = Content[After_read]
      BY <1>1, <1>2, <2>1, Turns
    <3>4. FileInv(Content)'
      BY <1>1, <1>2, <2>1, <3>1, <3>2, <3>3, Inside DEF FileInv
    <3> QED
      BY <1>1, <2>1, <3>1, <3>4, Inside, StayKeeps
  <2>3. CASE ~(ASCII(buffer') \/ AtLeastA0(buffer'))
    <3>1. test' = "UTF16L" /\ pos' = 0 /\ UNCHANGED <<i, printed>>
      BY <1>4, <2>3 DEF determine_if_ISO, GoOn
    <3>2. ~IsISO(Content)
      <4>1. CASE AtEnd
        BY <1>1, <1>2, <2>1, <2>3, <4>1, Inside, Turns DEF AtEnd
      <4>2. CASE ~AtEnd
        BY <1>1, <2>1, <2>3, <4>2, Turns DEF IsISO
      <4> QED
        BY <4>1, <4>2
    <3>3. FileInv(Content)'
      BY <1>1, <1>2, <2>1, <3>1, <3>2, Inside DEF FileInv
    <3> QED
      BY <1>1, <2>1, <3>1, <3>3, Inside, StayKeeps DEF Tests
  <2> QED
    BY <2>2, <2>3
<1> QED
  BY <1>3, <1>4

\* A file of one byte FE or FF is ISO-8859, so the byte order mark of a file
\* that gets this far is not read from the stack.
LEMMA Marks ==
  ASSUME IInv, test \in {"UTF16L", "UTF16B"},
         NEW first \in {"FE", "FF"}, NEW second \in Byte, NEW marked \in Marked(first, second)
  PROVE  marked <=> Len(Content) > 1 /\ Content[1] = first /\ Content[2] = second
<1>1. test \in Tests /\ pos = 0 /\ ~IsISO(Content)
  <2>1. test \in Tests
    BY DEF Tests
  <2> QED
    BY <2>1, Inside DEF FileInv
<1>2. Len(Content) \in Nat /\ Len(Content) > 0 /\ Content \in Seq(Byte)
  BY <1>1, Inside
<1> DEFINE at(k) == IF pos + k < Len(Content) THEN {Content[pos + k + 1]} ELSE Byte
<1>3. at(0) = {Content[1]}
  BY <1>1, <1>2
<1>4. Len(Content) > 1 => at(1) = {Content[2]}
  BY <1>1, <1>2
<1>5. PICK m \in at(0) \X at(1) : marked <=> m = <<first, second>>
  BY DEF Marked
<1> HIDE DEF at
<1>6. CASE Len(Content) > 1
  BY <1>3, <1>5, <1>6, <1>4
<1>7. CASE ~(Len(Content) > 1)
  <2>1. Len(Content) = 1
    <3>1. \A n \in Nat : n > 0 /\ ~(n > 1) => n = 1
      OBVIOUS
    <3>2. Len(Content) \in Nat /\ Len(Content) > 0
      BY <1>2
    <3> QED
      BY <3>1, <3>2, <1>7, Zenon
  <2>2. ~AtLeastA0(Content[1])
    BY <1>1, <1>2, <2>1 DEF IsISO
  <2>3. Content[1] # first
    BY <2>2 DEF AtLeastA0, Byte
  <2> QED
    BY <1>3, <1>5, <1>7, <2>3
<1> QED
  BY <1>6, <1>7

LEMMA Little == IInv /\ determine_if_Little_UTF16 => IInv'
<1> SUFFICES ASSUME IInv, determine_if_Little_UTF16 PROVE IInv'
  OBVIOUS
<1>1. test = "UTF16L" /\ test \in Tests /\ UNCHANGED <<argv, buffer, due, max_length>>
  BY DEF determine_if_Little_UTF16, inputs, Tests
<1>2. due = 0 /\ pos = 0 /\ ~AllText(Content) /\ ~Accepted(Content) /\ ~IsISO(Content)
  BY <1>1, Inside DEF FileInv
<1>3. PICK marked \in Marked("FF", "FE") : IF marked THEN Report("UTF16L") ELSE GoOn("UTF16B", 0)
  BY DEF determine_if_Little_UTF16
<1>4. marked <=> Len(Content) > 1 /\ Content[1] = "FF" /\ Content[2] = "FE"
  BY <1>1, Marks DEF Byte
<1>5. CASE marked
  <2>1. "UTF16L" = Verdict(Content) /\ "UTF16L" \in Types
    BY <1>1, <1>2, <1>4, <1>5, Inside, Verdicts DEF Types
  <2> QED
    BY <1>1, <1>2, <1>3, <1>5, <2>1, Inside, LineKeeps
<1>6. CASE ~marked
  <2>1. test' = "UTF16B" /\ pos' = 0 /\ UNCHANGED <<i, printed>>
    BY <1>3, <1>6 DEF GoOn
  <2>2. Content' = Content
    BY <1>1, <2>1 DEF Content
  <2>3. FileInv(Content)'
    BY <1>1, <1>2, <1>4, <1>6, <2>1, <2>2, Inside DEF FileInv
  <2> QED
    BY <1>1, <2>1, <2>3, Inside, StayKeeps DEF Tests
<1> QED
  BY <1>5, <1>6

LEMMA Big == IInv /\ determine_if_Big_UTF16 => IInv'
<1> SUFFICES ASSUME IInv, determine_if_Big_UTF16 PROVE IInv'
  OBVIOUS
<1>1. test = "UTF16B" /\ test \in Tests /\ UNCHANGED <<argv, buffer, due, max_length>>
  BY DEF determine_if_Big_UTF16, inputs, Tests
<1>2. /\ due = 0 /\ ~AllText(Content) /\ ~Accepted(Content) /\ ~IsISO(Content)
      /\ ~(Len(Content) > 1 /\ Content[1] = "FF" /\ Content[2] = "FE")
  BY <1>1, Inside DEF FileInv
<1>3. PICK marked \in Marked("FE", "FF") : Report(IF marked THEN "UTF16B" ELSE "data")
  BY DEF determine_if_Big_UTF16
<1>4. marked <=> Len(Content) > 1 /\ Content[1] = "FE" /\ Content[2] = "FF"
  BY <1>1, Marks DEF Byte
<1>5. CASE marked
  <2>1. "UTF16B" = Verdict(Content) /\ "UTF16B" \in Types /\ Report("UTF16B")
    BY <1>1, <1>2, <1>3, <1>4, <1>5, Inside, Verdicts DEF Types
  <2> QED
    BY <1>1, <1>2, <2>1, Inside, LineKeeps
<1>6. CASE ~marked
  <2>1. "data" = Verdict(Content) /\ "data" \in Types /\ Report("data")
    BY <1>1, <1>2, <1>3, <1>4, <1>6, Inside, Verdicts DEF Types
  <2> QED
    BY <1>1, <1>2, <2>1, Inside, LineKeeps
<1> QED
  BY <1>5, <1>6

-----------------------------------------------------------------------------
LEMMA NextInv == IInv /\ [Next]_vars => IInv'
<1> SUFFICES ASSUME IInv, [Next]_vars PROVE IInv'
  OBVIOUS
<1>1. CASE UNCHANGED vars
  <2>1. Content' = Content
    BY <1>1 DEF vars, Content
  <2>2. FileInv(Content)' <=> FileInv(Content)
    BY <1>1, <2>1 DEF vars, FileInv
  <2> QED
    BY <1>1, <2>1, <2>2 DEF vars, IInv, TypeOK, ArgInv, PrintedInv
<1>2. CASE Next
  BY <1>2, Measure, Open, Empty, Ascii, Utf8, Continuation, Iso, Little, Big DEF Next
<1> QED
  BY <1>1, <1>2

LEMMA Invariant == Spec => []IInv
BY InitInv, NextInv, PTL DEF Spec

\* What the invariant says of the lines printed.
LEMMA LinesRight ==
  ASSUME IInv, NEW k \in DOMAIN printed
  PROVE  /\ Fits(argv[k].content) => printed[k].type = Verdict(argv[k].content)
         /\ printed[k].column = max_length + 2
<1>1. printed \in Seq([type : Types \cup {"ERROR"}, column : Nat]) /\ Len(printed) = i - 1
  BY DEF IInv, TypeOK, PrintedInv
<1>2. k \in 1..(i - 1)
  BY <1>1
<1> QED
  BY <1>2 DEF IInv, PrintedInv

\* The positions, the byte being looked at and the lines printed have their
\* types, whatever max_length started with.
THEOREM FileTyped == Spec => []TypeOK
<1>1. IInv => TypeOK
  BY DEF IInv
<1> QED
  BY <1>1, Invariant, PTL

\* Every file shorter than 2 GiB gets its own type, in every list of arguments:
\* the tests of file.c:96 decide what Classify defines, except that a text cut
\* short inside its last character is called UTF-8.
THEOREM VerdictsRight == Spec => []VerdictRight
<1>1. IInv => VerdictRight
  BY LinesRight DEF VerdictRight
<1> QED
  BY <1>1, Invariant, PTL

\* The types stand in one column whatever max_length started with
\* (file.c:86).
THEOREM OneColumn == Spec => []Aligned
<1>1. IInv => Aligned
  BY LinesRight DEF Aligned
<1> QED
  BY <1>1, Invariant, PTL
=============================================================================
