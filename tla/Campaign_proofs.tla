---------------------------- MODULE Campaign_proofs ----------------------------
(***************************************************************************)
(* A measurement campaign keeps what it has measured, for any number of    *)
(* result files and repetitions, and however often benchmarks die, make is *)
(* interrupted or the machine goes down; and its tables hold every row at  *)
(* most once, damaged only by files that are broken or were unfinished.    *)
(***************************************************************************)
EXTENDS Campaign, FiniteSetTheorems, TLAPS

\* The output of the benchmark of f after r rows, behind k complaints (0 or 1).
Output(f, r, k) == [i \in 1..(r + k) |-> Row(f, i - k)]

\* What make is doing, as far as its files depend on it.
MakeInv ==
    /\ left \in Seq(Files) /\ alive \in BOOLEAN /\ (alive => make = "bench")
    /\ make = "bench" => left # <<>> /\ Exists(Head(left))

\* While a file is made, the output so far is that of its benchmark, and all of it once
\* the benchmark has ended by itself.
OutputInv ==
    make = "bench" =>
        \E r \in 0..Rows[Head(left)], k \in {0, 1} :
            /\ printed = Output(Head(left), r, k)
            /\ ~alive /\ Head(left) \notin broken => r = Rows[Head(left)]

IInv == DOMAIN disk \subseteq Files /\ MakeInv /\ OutputInv /\ SettledFiles
-----------------------------------------------------------------------------
\* The rows in the output of a benchmark are those it has measured.
LEMMA Counting ==
    ASSUME NEW f \in Files, NEW r \in Nat, NEW k \in {0, 1}, printed = Output(f, r, k)
    PROVE  Len(printed) - Cardinality(Complaints) = r
<1>1. Len(printed) = r + k /\ DOMAIN printed = 1..(r + k)
  BY DEF Output
<1>2. \A i \in 1..(r + k) : printed[i].row = i - k /\ (i - k = 0 => printed[i] = Row(f, 0))
  BY DEF Output, Row
<1>3. CASE k = 0
  <2>1. Complaints = {}
    BY <1>1, <1>2, <1>3 DEF Complaints, Range
  <2> QED
    BY <1>1, <1>3, <2>1, FS_EmptySet
<1>4. CASE k = 1
  <2>1. 1 \in DOMAIN printed /\ printed[1] = Row(f, 0) /\ printed[1].row = 0
    BY <1>1, <1>2, <1>4
  <2>2. \A i \in DOMAIN printed : printed[i].row = 0 => printed[i] = Row(f, 0)
    BY <1>1, <1>2, <1>4
  <2>3. Complaints = {Row(f, 0)}
    BY <2>1, <2>2 DEF Complaints, Range
  <2>4. Cardinality(Complaints) = 1
    BY <2>3, FS_Singleton
  <2> QED
    BY <1>1, <1>4, <2>4
<1> QED
  BY <1>3, <1>4

\* The output grows by one row.
LEMMA Growing ==
    ASSUME NEW f \in Files, NEW r \in Nat, NEW k \in {0, 1}
    PROVE  Append(Output(f, r, k), Row(f, r + 1)) = Output(f, r + 1, k)
BY DEF Output

\* The complete output of a benchmark is what a settled file holds.
LEMMA Complete ==
    ASSUME NEW f \in Files, NEW k \in {0, 1}
    PROVE  LET text == Output(f, Rows[f], k)
           IN  /\ RowsOf(text) \in {OneToN(Rows[f]), <<0>> \o OneToN(Rows[f])}
               /\ \A p \in Range(text) : p.ends
               /\ text # <<>>
<1> DEFINE text == Output(f, Rows[f], k)
<1>1. Rows[f] \in Nat \ {0}
  BY RowsAssumption
<1>2. DOMAIN text = 1..(Rows[f] + k) /\ \A i \in DOMAIN text : text[i].row = i - k /\ text[i].ends
  BY DEF Output, Row
<1> HIDE DEF text
<1>3. RowsOf(text) = [i \in 1..(Rows[f] + k) |-> i - k]
  BY <1>2 DEF RowsOf
<1>4. RowsOf(text) \in {OneToN(Rows[f]), <<0>> \o OneToN(Rows[f])}
  <2>1. CASE k = 0
    BY <1>1, <1>3, <2>1 DEF OneToN
  <2>2. CASE k = 1
    <3>1. <<0>> \o OneToN(Rows[f]) = [i \in 1..(1 + Rows[f]) |-> i - 1]
      BY <1>1 DEF OneToN
    <3> QED
      BY <1>1, <1>3, <2>2, <3>1
  <2> QED
    BY <2>1, <2>2
<1>5. \A p \in Range(text) : p.ends
  BY <1>2 DEF Range
<1>6. text # <<>>
  BY <1>1, <1>2
<1> QED
  BY <1>4, <1>5, <1>6 DEF text
-----------------------------------------------------------------------------
\* Whatever happens to make, only the file being made changes or disappears.
THEOREM NothingMeasuredAgain == Spec => MeasuredOnce
<1>1. ASSUME [Next]_vars
      PROVE  \A f \in DOMAIN disk \ Making : f \in DOMAIN disk' /\ disk'[f] = disk[f]
  <2> SUFFICES ASSUME NEW f \in DOMAIN disk, f \notin Making
               PROVE  f \in DOMAIN disk' /\ disk'[f] = disk[f]
    OBVIOUS
  <2>1. CASE Launch
    <3>1. f # Head(left) /\ disk' = With(disk, Head(left), <<>>)
      BY <2>1 DEF Launch, UpToDate, Exists
    <3> QED
      BY <3>1 DEF With
  <2>2. CASE GrepWrites
    <3>1. PICK text : f # Head(left) /\ disk' = With(disk, Head(left), text)
      BY <2>2 DEF GrepWrites, Making
    <3> QED
      BY <3>1 DEF With
  <2>3. CASE GrepEnds
    <3>1. f # Head(left) /\ disk' = With(disk, Head(left), printed)
      BY <2>3 DEF GrepEnds, Making
    <3> QED
      BY <3>1 DEF With
  <2>4. CASE Interrupt
    BY <2>4 DEF Interrupt, Making, Without
  <2>5. CASE UNCHANGED disk
    BY <2>5
  <2>6. \/ Launch \/ GrepWrites \/ GrepEnds \/ Interrupt \/ UNCHANGED disk
    BY <1>1 DEF Next, Make, StartMake, SetupFails, SetupDone, Skip, PrintRow, BenchmarkEnds,
                BenchmarkDies, MakeDone, Crash, StartParse, CatFile, ParseDone, Finished, vars, world
  <2> QED
    BY <2>1, <2>2, <2>3, <2>4, <2>5, <2>6
<1> QED
  BY <1>1, PTL DEF Spec, MeasuredOnce
-----------------------------------------------------------------------------
(* The steps *)

\* A step that leaves the files, their excuses and make alone keeps the invariant.
LEMMA Elsewhere ==
    ASSUME IInv, UNCHANGED <<disk, broken, make, left, printed, alive>>, failed => failed'
    PROVE  IInv'
BY DEF IInv, MakeInv, OutputInv, SettledFiles, Making, Exists

\* A step of make between two files keeps it, if it leaves the files alone.
LEMMA BetweenFiles ==
    ASSUME IInv, make # "bench", make' # "bench", alive' = FALSE, left' \in Seq(Files),
           UNCHANGED <<disk, broken>>, failed => failed'
    PROVE  IInv'
<1>1. Making = {} /\ Making' = {}
  BY DEF Making
<1>2. MakeInv' /\ OutputInv'
  BY DEF MakeInv, OutputInv
<1>3. SettledFiles'
  BY <1>1 DEF IInv, SettledFiles
<1> QED
  BY <1>2, <1>3 DEF IInv

\* A recipe starts with an empty file, which is being made.
LEMMA LaunchStep == IInv /\ Launch => IInv'
<1> SUFFICES ASSUME IInv, Launch PROVE IInv'
  OBVIOUS
<1> DEFINE f == Head(left)
<1>1. /\ make = "list" /\ make' = "bench" /\ alive' /\ left # <<>>
      /\ UNCHANGED <<broken, left, failed>> /\ disk' = With(disk, f, <<>>)
      /\ printed' \in {<<>>, <<Row(f, 0)>>}
  BY DEF Launch
<1>2. f \in Files /\ left \in Seq(Files)
  BY <1>1 DEF IInv, MakeInv
<1>3. DOMAIN disk' = DOMAIN disk \cup {f} /\ \A g \in DOMAIN disk \ {f} : disk'[g] = disk[g]
  BY <1>1 DEF With
<1>4. Making = {} /\ Making' = {f}
  BY <1>1 DEF Making
<1>5. MakeInv'
  BY <1>1, <1>2, <1>3 DEF MakeInv, Exists
<1>6. OutputInv'
  <2>1. <<>> = Output(f, 0, 0) /\ <<Row(f, 0)>> = Output(f, 0, 1)
    BY DEF Output
  <2>2. 0 \in 0..Rows[f]
    BY <1>2, RowsAssumption
  <2> QED
    BY <1>1, <2>1, <2>2 DEF OutputInv
<1>7. SettledFiles'
  BY <1>1, <1>3, <1>4 DEF IInv, SettledFiles
<1> QED
  BY <1>2, <1>3, <1>5, <1>6, <1>7 DEF IInv

\* The benchmark prints a row, ends, or dies.
LEMMA BenchmarkStep ==
    ASSUME IInv, PrintRow \/ BenchmarkEnds \/ BenchmarkDies
    PROVE  IInv'
<1> DEFINE f == Head(left)
<1>1. /\ alive /\ make = "bench" /\ f \in Files /\ left \in Seq(Files)
      /\ UNCHANGED <<disk, make, left, failed>> /\ alive' \in BOOLEAN
      /\ Making' = Making /\ f \in Making /\ left # <<>> /\ Exists(f)
  <2>1. /\ alive /\ UNCHANGED <<disk, make, left, failed>>
        /\ alive' = alive \/ alive' = FALSE
    BY DEF PrintRow, BenchmarkEnds, BenchmarkDies, world
  <2>2. make = "bench" /\ left \in Seq(Files) /\ left # <<>> /\ Exists(f) /\ alive \in BOOLEAN
    BY <2>1 DEF IInv, MakeInv
  <2>3. f \in Files
    BY <2>2
  <2> QED
    BY <2>1, <2>2, <2>3 DEF Making
<1>2. PICK r \in 0..Rows[f], k \in {0, 1} : printed = Output(f, r, k)
  BY <1>1 DEF IInv, OutputInv
<1>3. Len(printed) - Cardinality(Complaints) = r /\ Rows[f] \in Nat
  BY <1>1, <1>2, Counting, RowsAssumption
<1>4. OutputInv'
  <2>1. CASE PrintRow
    <3>1. alive' /\ r < Rows[f] /\ printed' = Append(printed, Row(f, r + 1))
      BY <1>1, <1>3, <2>1 DEF PrintRow
    <3>2. printed' = Output(f, r + 1, k) /\ r + 1 \in 0..Rows[f]
      <4>1. r \in Nat /\ r + 1 \in 0..Rows[f]
        BY <1>3, <3>1
      <4> HIDE DEF f
      <4> QED
        BY <1>1, <1>2, <3>1, <4>1, Growing
    <3> QED
      BY <1>1, <3>1, <3>2 DEF OutputInv
  <2>2. CASE BenchmarkEnds
    <3>1. r = Rows[f] /\ printed' = printed
      BY <1>3, <2>2 DEF BenchmarkEnds
    <3> QED
      BY <1>1, <1>2, <3>1 DEF OutputInv
  <2>3. CASE BenchmarkDies
    <3>1. f \in broken' /\ printed' = printed
      BY <2>3 DEF BenchmarkDies
    <3> QED
      BY <1>1, <1>2, <3>1 DEF OutputInv
  <2> QED
    BY <2>1, <2>2, <2>3
<1>5. broken' \in {broken, broken \cup {f}}
  BY DEF PrintRow, BenchmarkEnds, BenchmarkDies, world
<1> QED
  BY <1>1, <1>4, <1>5 DEF IInv, MakeInv, Exists, SettledFiles

\* grep writes a part of the output: the file is still being made.
LEMMA WriteStep == IInv /\ GrepWrites => IInv'
<1> SUFFICES ASSUME IInv, GrepWrites PROVE IInv'
  OBVIOUS
<1>1. PICK text : make = "bench" /\ disk' = With(disk, Head(left), text)
  BY DEF GrepWrites
<1>2. UNCHANGED <<broken, make, left, printed, alive, failed>>
  BY DEF GrepWrites, maker
<1>3. left # <<>> /\ Head(left) \in DOMAIN disk /\ Making = {Head(left)} /\ Making' = Making
  BY <1>1, <1>2 DEF IInv, MakeInv, Exists, Making
<1>4. DOMAIN disk' = DOMAIN disk /\ \A g \in DOMAIN disk \ Making : disk'[g] = disk[g]
  BY <1>1, <1>3 DEF With
<1> QED
  BY <1>2, <1>3, <1>4 DEF IInv, MakeInv, OutputInv, SettledFiles, Exists

\* grep writes the rest.  If the benchmark has ended by itself the file is complete; if it
\* has printed nothing, make fails.
LEMMA FileEnds == IInv /\ GrepEnds => IInv'
<1> SUFFICES ASSUME IInv, GrepEnds PROVE IInv'
  OBVIOUS
<1> DEFINE f == Head(left)
<1>1. /\ make = "bench" /\ make' # "bench" /\ ~alive /\ UNCHANGED <<broken, alive>>
      /\ disk' = With(disk, f, printed)
      /\ left' \in {Tail(left), <<>>}
      /\ printed = <<>> => failed'
      /\ failed => failed'
  BY DEF GrepEnds
<1>2. left \in Seq(Files) /\ left # <<>> /\ f \in DOMAIN disk /\ alive \in BOOLEAN
  BY <1>1 DEF IInv, MakeInv, Exists
<1>3. f \in Files /\ left' \in Seq(Files)
  <2>1. f \in Files /\ Tail(left) \in Seq(Files) /\ <<>> \in Seq(Files)
    BY <1>2
  <2> QED
    BY <1>1, <2>1
<1>4. Making = {f} /\ Making' = {}
  BY <1>1 DEF Making
<1>5. /\ DOMAIN disk' = DOMAIN disk /\ disk'[f] = printed
      /\ \A g \in DOMAIN disk \ {f} : disk'[g] = disk[g]
  BY <1>1, <1>2 DEF With
<1>6. ASSUME f \notin broken
      PROVE  /\ RowsOf(printed) \in {OneToN(Rows[f]), <<0>> \o OneToN(Rows[f])}
             /\ \A p \in Range(printed) : p.ends
  <2>1. PICK k \in {0, 1} : printed = Output(f, Rows[f], k)
    BY <1>1, <1>6 DEF IInv, OutputInv
  <2> HIDE DEF f
  <2> QED
    BY <1>3, <2>1, Complete
<1>7. SettledFiles'
  <2> SUFFICES ASSUME NEW g \in DOMAIN disk
               PROVE  /\ g \notin broken =>
                            /\ RowsOf(disk'[g]) \in {OneToN(Rows[g]), <<0>> \o OneToN(Rows[g])}
                            /\ \A p \in Range(disk'[g]) : p.ends
                      /\ disk'[g] = <<>> => failed'
    BY <1>1, <1>4, <1>5 DEF SettledFiles
  <2>1. CASE g = f
    BY <1>1, <1>5, <1>6, <2>1
  <2>2. CASE g # f
    BY <1>1, <1>4, <1>5, <2>2 DEF IInv, SettledFiles
  <2> QED
    BY <2>1, <2>2
<1>8. MakeInv' /\ OutputInv'
  BY <1>1, <1>2, <1>3 DEF MakeInv, OutputInv
<1> QED
  BY <1>5, <1>7, <1>8 DEF IInv

\* Ctrl-C deletes the file being made; a crash leaves it, and is remembered.
LEMMA StopStep ==
    ASSUME IInv, Interrupt \/ Crash
    PROVE  IInv'
<1>1. make' = "off" /\ left' = <<>> /\ alive' = FALSE /\ failed' = TRUE /\ Making' = {}
  BY DEF Interrupt, Crash, Stopped, Making
<1>2. /\ DOMAIN disk' \subseteq DOMAIN disk /\ \A f \in DOMAIN disk' : disk'[f] = disk[f]
      /\ broken \subseteq broken'
      /\ Making \cap DOMAIN disk' \subseteq broken'
  <2>1. CASE Interrupt
    BY <2>1 DEF Interrupt, Without, Making
  <2>2. CASE Crash
    BY <2>2 DEF Crash, Making
  <2> QED
    BY <2>1, <2>2
<1>3. MakeInv' /\ OutputInv'
  <2>1. <<>> \in Seq(Files)
    OBVIOUS
  <2> QED
    BY <1>1, <2>1 DEF MakeInv, OutputInv
<1>4. SettledFiles'
  BY <1>1, <1>2 DEF IInv, SettledFiles
<1> QED
  BY <1>2, <1>3, <1>4 DEF IInv

LEMMA Invariance == Spec => []IInv
<1>1. Init => IInv
  <2> SUFFICES ASSUME Init PROVE IInv
    OBVIOUS
  <2>1. /\ DOMAIN disk = {} /\ make = "off" /\ left = <<>> /\ alive = FALSE
        /\ <<>> \in Seq(Files)
    <3>1. <<>> \in Seq(Files) /\ DOMAIN <<>> = {}
      OBVIOUS
    <3> QED
      BY <3>1 DEF Init
  <2> QED
    BY <2>1 DEF IInv, MakeInv, OutputInv, SettledFiles
<1>2. IInv /\ [Next]_vars => IInv'
  <2> SUFFICES ASSUME IInv, [Next]_vars PROVE IInv'
    OBVIOUS
  <2>1. CASE StartMake
    <3>1. left' = Results /\ Results \in Seq(Files) /\ alive = FALSE /\ make = "off"
      BY <2>1, ListedAssumption DEF StartMake, IInv, MakeInv
    <3> QED
      BY <2>1, <3>1, BetweenFiles DEF StartMake, world
  <2>2. CASE SetupFails \/ SetupDone \/ MakeDone
    <3>1. make # "bench" /\ make' # "bench" /\ UNCHANGED <<disk, broken, alive>>
      BY <2>2 DEF SetupFails, SetupDone, MakeDone, world
    <3>2. alive' = FALSE
      BY <3>1 DEF IInv, MakeInv
    <3>3. left' \in {left, <<>>} /\ (failed' = failed \/ failed' = TRUE)
      BY <2>2 DEF SetupFails, SetupDone, MakeDone
    <3>4. <<>> \in Seq(Files) /\ left \in Seq(Files)
      BY DEF IInv, MakeInv
    <3>5. left' \in Seq(Files)
      BY <3>3, <3>4
    <3>6. failed => failed'
      BY <3>3
    <3> QED
      BY <3>1, <3>2, <3>5, <3>6, BetweenFiles
  <2>3. CASE Skip
    <3>1. left \in Seq(Files) /\ left # <<>> /\ make = "list" /\ alive = FALSE
      BY <2>3 DEF IInv, MakeInv, Skip
    <3>2. Tail(left) \in Seq(Files)
      BY <3>1
    <3> QED
      BY <2>3, <3>1, <3>2, BetweenFiles DEF Skip, world
  <2>4. CASE Launch
    BY <2>4, LaunchStep
  <2>5. CASE PrintRow \/ BenchmarkEnds \/ BenchmarkDies
    BY <2>5, BenchmarkStep
  <2>6. CASE GrepWrites
    BY <2>6, WriteStep
  <2>7. CASE GrepEnds
    BY <2>7, FileEnds
  <2>8. CASE Interrupt \/ Crash
    BY <2>8, StopStep
  <2>9. CASE (\E k \in Kinds : StartParse(k)) \/ CatFile \/ ParseDone \/ UNCHANGED vars
    <3>1. UNCHANGED <<disk, broken, make, left, printed, alive, failed>>
      BY <2>9 DEF StartParse, CatFile, ParseDone, vars, world, maker
    <3> QED
      BY <3>1, Elsewhere
  <2> QED
    BY <2>1, <2>2, <2>3, <2>4, <2>5, <2>6, <2>7, <2>8, <2>9 DEF Next, Make, Finished
<1> QED
  BY <1>1, <1>2, PTL DEF Spec

\* However often make is run, stopped and run again, a file that is not being made has
\* every row of its benchmark unless the benchmark died or a crash came in between; and
\* make does not leave an empty file without an error.
THEOREM FilesSettled == Spec => []SettledFiles
<1>1. IInv => SettledFiles
  BY DEF IInv
<1> QED
  BY Invariance, <1>1, PTL
-----------------------------------------------------------------------------
(* The types and the tables *)

\* Text is a beginning of an output of the benchmark of f behind k complaints: its rows
\* are in order, and only the last piece can be cut off.
Beginning(f, text, k) ==
    /\ text \in Seq(Pieces(f))
    /\ \A i \in DOMAIN text : text[i].row = i - k /\ (i < Len(text) => text[i].ends)

\* That is so of every text on disk, finished or not.
TextsInv == \A f \in DOMAIN disk : \E k \in {0, 1} : Beginning(f, disk[f], k)

\* The pieces in a table have each been appended once, and those cut off come from files
\* that excuse it.
Sound(text, excused) ==
    /\ text \in Seq(UNION {Pieces(f) : f \in Files})
    /\ \A i, j \in DOMAIN text : text[i].of = text[j].of /\ text[i].row = text[j].row => i = j
    /\ \A i \in DOMAIN text : text[i].ends \/ text[i].of \in excused

\* A parse script has not yet appended any of the files that it will still append.
TableInv ==
    /\ parsing # "none" => parsing \in DOMAIN table
    /\ \A f \in cats : Kind[f] = parsing
    /\ \A k \in DOMAIN table :
          /\ Sound(table[k], broken \cup early)
          /\ \A i \in DOMAIN table[k] : Kind[table[k][i].of] = k
    /\ cats # {} => \A i \in DOMAIN table[parsing] : table[parsing][i].of \notin cats

\* The types of what the other invariants do not speak of.
RestInv ==
    /\ make \in {"off", "setup", "list", "bench"} /\ IsSuffix(left, Results)
    /\ DOMAIN table \subseteq Kinds /\ cats \subseteq Files /\ parsing \in Kinds \cup {"none"}
    /\ broken \cup early \subseteq Files /\ failed \in BOOLEAN
    /\ faults \in 0..MaxFaults /\ makes \in 0..MaxMakes /\ parses \in 0..MaxParses

\* The whole output of a benchmark is such a beginning.
LEMMA OutputBegins ==
    ASSUME NEW f \in Files, NEW r \in 0..Rows[f], NEW k \in {0, 1}
    PROVE  LET text == Output(f, r, k)
           IN  /\ Beginning(f, text, k)
               /\ Len(text) = r + k /\ \A i \in DOMAIN text : text[i].ends
<1> DEFINE text == Output(f, r, k)
<1>1. Rows[f] \in Nat
  BY RowsAssumption
<1>2. ASSUME NEW i \in 1..(r + k)
      PROVE  /\ text[i] = [of |-> f, row |-> i - k, ends |-> TRUE]
             /\ text[i] \in Pieces(f) /\ text[i].row = i - k /\ text[i].ends
  BY <1>1, <1>2 DEF Output, Row, Pieces
<1>3. text = [i \in 1..(r + k) |-> text[i]]
  BY DEF Output
<1> HIDE DEF text
<1>4. text \in Seq(Pieces(f)) /\ DOMAIN text = 1..(r + k) /\ Len(text) = r + k
  BY <1>1, <1>2, <1>3
<1> QED
  BY <1>2, <1>4 DEF text, Beginning

\* So is what grep writes of it at a time.
LEMMA WrittenBegins ==
    ASSUME NEW f \in Files, NEW k \in {0, 1}, Beginning(f, printed, k),
           \A i \in DOMAIN printed : printed[i].ends,
           NEW n \in 0..Len(printed), NEW part \in BOOLEAN
    PROVE  Beginning(f, Written(n, part), k)
<1> DEFINE piece == [printed[n + 1] EXCEPT !.ends = FALSE]
           whole == SubSeq(printed, 1, n)
<1>1. printed \in Seq(Pieces(f)) /\ \A i \in DOMAIN printed : printed[i].row = i - k
  BY DEF Beginning
<1>2. /\ whole \in Seq(Pieces(f)) /\ Len(whole) = n
      /\ \A i \in 1..n : whole[i] = printed[i]
  BY <1>1
<1>3. \A i \in 1..n : whole[i].row = i - k /\ whole[i].ends
  BY <1>1, <1>2
<1> HIDE DEF whole
<1>4. CASE part /\ n < Len(printed)
  <2>1. printed[n + 1] \in Pieces(f) /\ printed[n + 1].row = n + 1 - k
    BY <1>1, <1>4
  <2>2. piece \in Pieces(f) /\ piece.row = n + 1 - k
    <3>1. \A p \in Pieces(f) : [p EXCEPT !.ends = FALSE] \in Pieces(f)
                               /\ [p EXCEPT !.ends = FALSE].row = p.row
      BY DEF Pieces
    <3> QED
      BY <2>1, <3>1
  <2> HIDE DEF piece
  <2>3. Written(n, part) = whole \o <<piece>>
    BY <1>4 DEF Written, whole, piece
  <2>4. /\ whole \o <<piece>> \in Seq(Pieces(f)) /\ Len(whole \o <<piece>>) = n + 1
        /\ \A i \in 1..n : (whole \o <<piece>>)[i] = whole[i]
        /\ (whole \o <<piece>>)[n + 1] = piece
    BY <1>2, <2>2
  <2> QED
    BY <1>2, <1>3, <2>2, <2>3, <2>4 DEF Beginning
<1>5. CASE ~(part /\ n < Len(printed))
  <2>1. Written(n, part) = whole
    BY <1>2, <1>5 DEF Written, whole
  <2> QED
    BY <1>2, <1>3, <2>1 DEF Beginning
<1> QED
  BY <1>4, <1>5

\* Nothing but the recipe and who stops it touches the files.
LEMMA TextsStep ==
    ASSUME IInv, TextsInv, [Next]_vars
    PROVE  TextsInv'
<1> DEFINE f == Head(left)
<1>1. ASSUME NEW text, NEW k \in {0, 1}, disk' = With(disk, f, text), Beginning(f, text, k)
      PROVE  TextsInv'
  BY <1>1 DEF TextsInv, With
<1>2. CASE Launch
  <2>1. disk' = With(disk, f, <<>>)
    BY <1>2 DEF Launch
  <2>2. Beginning(f, <<>>, 0)
    BY DEF Beginning
  <2> HIDE DEF f
  <2> QED
    BY <1>1, <2>1, <2>2
<1>3. ASSUME make = "bench"
      PROVE  f \in Files /\ \E k \in {0, 1} :
                 Beginning(f, printed, k) /\ \A i \in DOMAIN printed : printed[i].ends
  <2>1. left \in Seq(Files) /\ left # <<>>
    BY <1>3 DEF IInv, MakeInv
  <2>2. f \in Files
    BY <2>1
  <2>3. PICK r \in 0..Rows[f], k \in {0, 1} : printed = Output(f, r, k)
    BY <1>3 DEF IInv, OutputInv
  <2> HIDE DEF f
  <2> QED
    BY <2>2, <2>3, OutputBegins
<1>4. CASE GrepWrites
  <2>1. PICK n \in 0..Len(printed), part \in BOOLEAN :
            make = "bench" /\ disk' = With(disk, f, Written(n, part))
    BY <1>4 DEF GrepWrites
  <2>2. PICK k \in {0, 1} : Beginning(f, printed, k) /\ \A i \in DOMAIN printed : printed[i].ends
    BY <1>3, <2>1
  <2>3. f \in Files
    BY <1>3, <2>1
  <2> HIDE DEF f
  <2>4. Beginning(f, Written(n, part), k)
    BY <2>1, <2>2, <2>3, WrittenBegins
  <2> QED
    BY <1>1, <2>1, <2>4
<1>5. CASE GrepEnds
  <2>1. make = "bench" /\ disk' = With(disk, f, printed)
    BY <1>5 DEF GrepEnds
  <2>2. PICK k \in {0, 1} : Beginning(f, printed, k)
    BY <1>3, <2>1
  <2> HIDE DEF f
  <2> QED
    BY <1>1, <2>1, <2>2
<1>6. CASE Interrupt
  BY <1>6 DEF Interrupt, Without, TextsInv
<1>7. CASE UNCHANGED disk
  BY <1>7 DEF TextsInv
<1>8. \/ Launch \/ GrepWrites \/ GrepEnds \/ Interrupt \/ UNCHANGED disk
  BY DEF Next, Make, StartMake, SetupFails, SetupDone, Skip, PrintRow, BenchmarkEnds,
         BenchmarkDies, MakeDone, Crash, StartParse, CatFile, ParseDone, Finished, vars, world
<1> QED
  BY <1>2, <1>4, <1>5, <1>6, <1>7, <1>8

\* A file is appended to a table that has nothing of it.
LEMMA Appending ==
    ASSUME NEW f \in Files, NEW k \in {0, 1}, NEW d, Beginning(f, d, k),
           NEW text, NEW excused, Sound(text, excused), NEW more, excused \subseteq more,
           \A i \in DOMAIN text : text[i].of # f,
           (\A i \in DOMAIN d : d[i].ends) \/ f \in more
    PROVE  /\ Sound(text \o d, more)
           /\ \A i \in DOMAIN (text \o d) : \/ (text \o d)[i].of = f
                                            \/ i \in DOMAIN text /\ (text \o d)[i] = text[i]
<1> DEFINE All == UNION {Pieces(g) : g \in Files}
           both == text \o d
<1>1. text \in Seq(All) /\ d \in Seq(Pieces(f)) /\ Pieces(f) \subseteq All
  BY DEF Sound, Beginning
<1>2. d \in Seq(All)
  BY <1>1
<1> HIDE DEF All
<1>3. /\ both \in Seq(All) /\ DOMAIN both = 1..(Len(text) + Len(d))
      /\ DOMAIN text = 1..Len(text) /\ DOMAIN d = 1..Len(d) /\ Len(text) \in Nat /\ Len(d) \in Nat
      /\ \A i \in DOMAIN both : both[i] = IF i <= Len(text) THEN text[i] ELSE d[i - Len(text)]
  BY <1>1, <1>2
<1> HIDE DEF both
<1>4. \A i \in DOMAIN d : d[i].of = f /\ d[i].row = i - k
  <2>1. \A i \in DOMAIN d : d[i] \in Pieces(f) /\ d[i].row = i - k
    BY <1>1 DEF Beginning
  <2> QED
    BY <2>1 DEF Pieces
<1>5. ASSUME NEW i \in DOMAIN both
      PROVE  \/ i \in DOMAIN text /\ both[i] = text[i]
             \/ i - Len(text) \in DOMAIN d /\ both[i] = d[i - Len(text)] /\ i \notin DOMAIN text
  BY <1>3
<1>6. ASSUME NEW i \in DOMAIN both, NEW j \in DOMAIN both,
             both[i].of = both[j].of, both[i].row = both[j].row
      PROVE  i = j
  <2>1. CASE i \in DOMAIN text /\ both[i] = text[i]
    <3>1. j \in DOMAIN text /\ both[j] = text[j]
      BY <1>4, <1>5, <1>6, <2>1
    <3> QED
      BY <1>6, <2>1, <3>1 DEF Sound
  <2>2. CASE i - Len(text) \in DOMAIN d /\ both[i] = d[i - Len(text)]
    <3>1. j - Len(text) \in DOMAIN d /\ both[j] = d[j - Len(text)]
      BY <1>4, <1>5, <1>6, <2>2
    <3>2. i - Len(text) - k = j - Len(text) - k
      BY <1>4, <1>6, <2>2, <3>1
    <3> QED
      BY <1>3, <3>2
  <2> QED
    BY <1>5, <2>1, <2>2
<1>7. ASSUME NEW i \in DOMAIN both PROVE both[i].ends \/ both[i].of \in more
  BY <1>4, <1>5 DEF Sound
<1>8. ASSUME NEW i \in DOMAIN both
      PROVE  both[i].of = f \/ (i \in DOMAIN text /\ both[i] = text[i])
  BY <1>4, <1>5
<1> QED
  BY <1>3, <1>6, <1>7, <1>8 DEF Sound, both, All

\* More files can be excused.
LEMMA MoreExcused ==
    ASSUME NEW text, NEW excused, NEW more, excused \subseteq more, Sound(text, excused)
    PROVE  Sound(text, more)
BY DEF Sound

\* Every step keeps the tables sound: only CatFile appends, and only what it has not yet.
LEMMA TableStep ==
    ASSUME IInv, TextsInv, TableInv, cats \subseteq Files, [Next]_vars
    PROVE  TableInv'
<1>1. ASSUME NEW k \in Kinds, StartParse(k) PROVE TableInv'
  <2>1. /\ parsing' = k /\ cats' = {f \in Files : Kind[f] = k /\ Exists(f)}
        /\ table' = With(table, k, <<>>) /\ UNCHANGED <<broken, early>>
    BY <1>1 DEF StartParse, world
  <2>2. /\ DOMAIN table' = DOMAIN table \cup {k} /\ table'[k] = <<>>
        /\ \A j \in DOMAIN table \ {k} : table'[j] = table[j]
    BY <2>1 DEF With
  <2>3. Sound(<<>>, broken \cup early) /\ DOMAIN <<>> = {}
    BY DEF Sound
  <2>4. \A j \in DOMAIN table' : /\ Sound(table'[j], broken' \cup early')
                                 /\ \A i \in DOMAIN table'[j] : Kind[table'[j][i].of] = j
    BY <2>1, <2>2, <2>3 DEF TableInv
  <2>5. \A i \in DOMAIN table'[parsing'] : table'[parsing'][i].of \notin cats'
    BY <2>1, <2>2, <2>3
  <2> QED
    BY <2>1, <2>2, <2>4, <2>5 DEF TableInv
<1>2. CASE CatFile
  <2>1. PICK f \in cats :
            /\ parsing # "none" /\ cats' = cats \ {f}
            /\ table' = IF Exists(f) THEN With(table, parsing, table[parsing] \o disk[f]) ELSE table
            /\ early' = early \cup ({f} \cap Making)
            /\ UNCHANGED <<parsing, broken>>
    BY <1>2 DEF CatFile, world
  <2> DEFINE text == table[parsing]
  <2>2. /\ parsing \in DOMAIN table /\ Kind[f] = parsing /\ f \in Files
        /\ \A i \in DOMAIN text : text[i].of \notin cats
        /\ broken \cup early \subseteq broken' \cup early'
    BY <2>1 DEF TableInv
  <2>3. \A k \in DOMAIN table : Sound(table[k], broken' \cup early')
    BY <2>2, MoreExcused DEF TableInv
  <2>4. CASE ~Exists(f)
    BY <2>1, <2>2, <2>3, <2>4 DEF TableInv
  <2>5. CASE Exists(f)
    <3> DEFINE both == text \o disk[f]
    <3>1. PICK k \in {0, 1} : Beginning(f, disk[f], k)
      BY <2>5 DEF TextsInv, Exists
    <3>2. (\A i \in DOMAIN disk[f] : disk[f][i].ends) \/ f \in broken' \cup early'
      BY <2>1, <2>5 DEF IInv, SettledFiles, Exists, Range
    <3>3. Sound(text, broken \cup early) /\ \A i \in DOMAIN text : text[i].of # f
      BY <2>1, <2>2 DEF TableInv
    <3>4. /\ Sound(both, broken' \cup early')
          /\ \A i \in DOMAIN both : \/ both[i].of = f
                                    \/ i \in DOMAIN text /\ both[i] = text[i]
      <4> DEFINE d == disk[f]
                 excused == broken \cup early
                 more == broken' \cup early'
      <4>1. /\ f \in Files /\ Beginning(f, d, k) /\ Sound(text, excused) /\ excused \subseteq more
            /\ \A i \in DOMAIN text : text[i].of # f
            /\ (\A i \in DOMAIN d : d[i].ends) \/ f \in more
        BY <2>2, <3>1, <3>2, <3>3
      <4> HIDE DEF text, d, excused, more
      <4>2. /\ Sound(text \o d, more)
            /\ \A i \in DOMAIN (text \o d) : \/ (text \o d)[i].of = f
                                             \/ i \in DOMAIN text /\ (text \o d)[i] = text[i]
        BY <4>1, Appending
      <4> QED
        BY <4>2 DEF text, d, more
    <3>5. /\ DOMAIN table' = DOMAIN table /\ table'[parsing] = both
          /\ \A j \in DOMAIN table \ {parsing} : table'[j] = table[j]
      BY <2>1, <2>2, <2>5 DEF With
    <3> HIDE DEF both
    <3>6. \A i \in DOMAIN both : Kind[both[i].of] = parsing /\ both[i].of \notin cats'
      BY <2>1, <2>2, <3>4 DEF TableInv
    <3>7. \A j \in DOMAIN table' : /\ Sound(table'[j], broken' \cup early')
                                   /\ \A i \in DOMAIN table'[j] : Kind[table'[j][i].of] = j
      BY <2>3, <3>4, <3>5, <3>6 DEF TableInv
    <3> QED
      BY <2>1, <2>2, <3>5, <3>6, <3>7 DEF TableInv
  <2> QED
    BY <2>4, <2>5
<1>3. CASE ParseDone \/ Crash
  <2>1. /\ cats' = {} /\ parsing' = "none" /\ table' = table
        /\ broken \cup early \subseteq broken' \cup early'
    BY <1>3 DEF ParseDone, Crash, world
  <2>2. \A k \in DOMAIN table : Sound(table[k], broken' \cup early')
    BY <2>1, MoreExcused DEF TableInv
  <2> QED
    BY <2>1, <2>2 DEF TableInv
<1>4. CASE UNCHANGED <<table, cats, parsing, early>>
  <2>1. broken \subseteq broken'
    BY DEF Next, Make, StartMake, SetupFails, SetupDone, Skip, Launch, PrintRow, BenchmarkEnds,
           BenchmarkDies, GrepWrites, GrepEnds, MakeDone, Interrupt, Crash, StartParse, CatFile,
           ParseDone, Finished, vars, world
  <2>2. \A k \in DOMAIN table : Sound(table[k], broken' \cup early')
    BY <1>4, <2>1, MoreExcused DEF TableInv
  <2> QED
    BY <1>4, <2>2 DEF TableInv
<1>5. \/ \E k \in Kinds : StartParse(k)
      \/ CatFile \/ ParseDone \/ Crash \/ UNCHANGED <<table, cats, parsing, early>>
  BY DEF Next, Make, StartMake, SetupFails, SetupDone, Skip, Launch, PrintRow, BenchmarkEnds,
         BenchmarkDies, GrepWrites, GrepEnds, MakeDone, Interrupt, Finished, vars, parser
<1> QED
  BY <1>1, <1>2, <1>3, <1>4, <1>5

\* What make has still to look at is the end of its list.
LEMMA SuffixIs ==
    ASSUME NEW T, NEW s \in Seq(T), NEW t \in Seq(T)
    PROVE  IsSuffix(s, t) <=>
              Len(s) <= Len(t) /\ \A i \in 1..Len(s) : s[i] = t[Len(t) - Len(s) + i]
<1> DEFINE a == Reverse(s)
           b == Reverse(t)
<1>1. /\ a \in Seq(T) /\ Len(a) = Len(s) /\ \A i \in 1..Len(s) : a[i] = s[Len(s) - i + 1]
      /\ b \in Seq(T) /\ Len(b) = Len(t) /\ \A i \in 1..Len(t) : b[i] = t[Len(t) - i + 1]
  BY DEF Reverse
<1>2. IsSuffix(s, t) <=> Len(a) <= Len(b) /\ SubSeq(a, 1, Len(a)) = SubSeq(b, 1, Len(a))
  BY DEF IsSuffix, IsPrefix
<1> HIDE DEF a, b
<1>3. ASSUME Len(s) <= Len(t)
      PROVE  SubSeq(a, 1, Len(a)) = SubSeq(b, 1, Len(a)) <=> \A i \in 1..Len(s) : a[i] = b[i]
  <2>1. /\ SubSeq(a, 1, Len(a)) = [i \in 1..Len(s) |-> a[i]]
        /\ SubSeq(b, 1, Len(a)) = [i \in 1..Len(s) |-> b[i]]
    BY <1>1, <1>3
  <2> QED
    BY <2>1
<1>4. ASSUME Len(s) <= Len(t)
      PROVE  (\A i \in 1..Len(s) : a[i] = b[i])
                <=> \A i \in 1..Len(s) : s[i] = t[Len(t) - Len(s) + i]
  <2>1. ASSUME \A i \in 1..Len(s) : a[i] = b[i], NEW i \in 1..Len(s)
        PROVE  s[i] = t[Len(t) - Len(s) + i]
    <3>1. Len(s) - i + 1 \in 1..Len(s) /\ Len(s) - (Len(s) - i + 1) + 1 = i
      OBVIOUS
    <3>2. a[Len(s) - i + 1] = b[Len(s) - i + 1]
      BY <2>1, <3>1
    <3>3. a[Len(s) - i + 1] = s[i]
      BY <1>1, <3>1
    <3>4. b[Len(s) - i + 1] = t[Len(t) - Len(s) + i]
      BY <1>1, <1>4, <3>1
    <3> QED
      BY <3>2, <3>3, <3>4
  <2>2. ASSUME \A i \in 1..Len(s) : s[i] = t[Len(t) - Len(s) + i], NEW i \in 1..Len(s)
        PROVE  a[i] = b[i]
    <3>1. Len(s) - i + 1 \in 1..Len(s)
      OBVIOUS
    <3>2. s[Len(s) - i + 1] = t[Len(t) - i + 1]
      BY <2>2, <3>1
    <3> QED
      BY <1>1, <1>4, <3>2
  <2> QED
    BY <2>1, <2>2
<1> QED
  BY <1>1, <1>2, <1>3, <1>4

\* It stays so when make goes on to the next file.
LEMMA SuffixTail ==
    ASSUME NEW T, NEW s \in Seq(T), NEW t \in Seq(T), IsSuffix(s, t), s # <<>>
    PROVE  IsSuffix(Tail(s), t)
<1>1. Len(s) <= Len(t) /\ \A i \in 1..Len(s) : s[i] = t[Len(t) - Len(s) + i]
  BY SuffixIs
<1>2. /\ Tail(s) \in Seq(T) /\ Len(Tail(s)) = Len(s) - 1
      /\ \A i \in 1..(Len(s) - 1) : Tail(s)[i] = s[i + 1]
  OBVIOUS
<1>3. \A i \in 1..Len(Tail(s)) : Tail(s)[i] = t[Len(t) - Len(Tail(s)) + i]
  <2> SUFFICES ASSUME NEW i \in 1..Len(Tail(s))
               PROVE  Tail(s)[i] = t[Len(t) - Len(Tail(s)) + i]
    OBVIOUS
  <2>1. i + 1 \in 1..Len(s) /\ Len(t) - Len(s) + (i + 1) = Len(t) - Len(Tail(s)) + i
    BY <1>2
  <2> QED
    BY <1>1, <1>2, <2>1
<1>4. Len(Tail(s)) <= Len(t)
  BY <1>1, <1>2
<1> DEFINE rest == Tail(s)
<1> HIDE DEF rest
<1>5. /\ rest \in Seq(T) /\ Len(rest) <= Len(t)
      /\ \A i \in 1..Len(rest) : rest[i] = t[Len(t) - Len(rest) + i]
  BY <1>2, <1>3, <1>4 DEF rest
<1>6. IsSuffix(rest, t)
  BY <1>5, SuffixIs
<1> QED
  BY <1>6 DEF rest

\* Nothing left is an end of the list.
LEMMA EmptySuffix ==
    ASSUME NEW T, NEW t \in Seq(T)
    PROVE  IsSuffix(<<>>, t)
<1> DEFINE s == <<>>
<1>1. s \in Seq(T) /\ Len(s) = 0 /\ Len(t) \in Nat
  OBVIOUS
<1> HIDE DEF s
<1>2. Len(s) <= Len(t) /\ 1..Len(s) = {}
  BY <1>1
<1>3. IsSuffix(s, t)
  BY <1>1, <1>2, SuffixIs
<1> QED
  BY <1>3 DEF s

\* The other types are kept.
LEMMA RestStep ==
    ASSUME IInv, RestInv, [Next]_vars
    PROVE  RestInv'
<1>1. /\ left \in Seq(Files) /\ Results \in Seq(Files)
      /\ make = "bench" => left # <<>> /\ Head(left) \in Files
  <2>1. left \in Seq(Files) /\ (make = "bench" => left # <<>>)
    BY DEF IInv, MakeInv
  <2> QED
    BY <2>1, ListedAssumption
<1>2. Making \subseteq Files /\ (alive => make = "bench")
  BY <1>1 DEF Making, IInv, MakeInv
<1>3. {MaxFaults, MaxMakes, MaxParses} \subseteq Nat
  BY BoundsAssumption
<1>4. make' \in {"off", "setup", "list", "bench"}
  BY DEF RestInv, Next, Make, StartMake, SetupFails, SetupDone, Skip, Launch, PrintRow,
         BenchmarkEnds, BenchmarkDies, GrepWrites, GrepEnds, MakeDone, Interrupt, Crash, Stopped,
         StartParse, CatFile, ParseDone, Finished, vars, maker
<1>5. IsSuffix(left', Results)
  <2>1. IsSuffix(Results, Results) /\ IsSuffix(<<>>, Results)
    <3>1. IsSuffix(Results, Results)
      BY <1>1, SuffixIs
    <3> QED
      BY <1>1, <3>1, EmptySuffix
  <2>2. ASSUME left # <<>> PROVE IsSuffix(Tail(left), Results)
    BY <1>1, <2>2, SuffixTail DEF RestInv
  <2>3. left' \in {left, Results, <<>>} \/ (left # <<>> /\ left' = Tail(left))
    BY <1>1 DEF Next, Make, StartMake, SetupFails, SetupDone, Skip, Launch, PrintRow,
         BenchmarkEnds, BenchmarkDies, GrepWrites, GrepEnds, MakeDone, Interrupt, Crash, Stopped,
         StartParse, CatFile, ParseDone, Finished, vars, maker
  <2> QED
    BY <2>1, <2>2, <2>3 DEF RestInv
<1>6. /\ DOMAIN table' \subseteq Kinds /\ cats' \subseteq Files
      /\ parsing' \in Kinds \cup {"none"} /\ early' \subseteq Files /\ parses' \in 0..MaxParses
  <2>1. CASE \E k \in Kinds : StartParse(k)
    BY <1>3, <2>1 DEF RestInv, StartParse, With
  <2>2. CASE CatFile
    BY <1>2, <1>3, <2>2 DEF RestInv, CatFile, With
  <2>3. CASE ParseDone \/ Crash
    BY <2>3 DEF RestInv, ParseDone, Crash
  <2>4. CASE UNCHANGED parser
    BY <2>4 DEF RestInv, parser
  <2> QED
    BY <2>1, <2>2, <2>3, <2>4
    DEF Next, Make, StartMake, SetupFails, SetupDone, Skip, Launch, PrintRow, BenchmarkEnds,
        BenchmarkDies, GrepWrites, GrepEnds, MakeDone, Interrupt, Finished, vars, parser
<1>7. broken' \subseteq Files /\ faults' \in 0..MaxFaults
  <2>1. CASE BenchmarkDies \/ Interrupt \/ Crash
    BY <1>1, <1>2, <1>3, <2>1 DEF RestInv, BenchmarkDies, Interrupt, Crash
  <2>2. CASE UNCHANGED <<broken, faults>>
    BY <2>2 DEF RestInv
  <2> QED
    BY <2>1, <2>2
    DEF Next, Make, StartMake, SetupFails, SetupDone, Skip, Launch, PrintRow, BenchmarkEnds,
        GrepWrites, GrepEnds, MakeDone, StartParse, CatFile, ParseDone, Finished, vars, world
<1>8. failed' \in BOOLEAN
  BY DEF RestInv, Next, Make, StartMake, SetupFails, SetupDone, Skip, Launch, PrintRow,
         BenchmarkEnds, BenchmarkDies, GrepWrites, GrepEnds, MakeDone, Interrupt, Crash, Stopped,
         StartParse, CatFile, ParseDone, Finished, vars, maker
<1>9. makes' \in 0..MaxMakes
  <2>1. CASE StartMake
    BY <1>3, <2>1 DEF RestInv, StartMake
  <2>2. CASE UNCHANGED makes
    BY <2>2 DEF RestInv
  <2> QED
    BY <2>1, <2>2
    DEF Next, Make, SetupFails, SetupDone, Skip, Launch, PrintRow, BenchmarkEnds, BenchmarkDies,
        GrepWrites, GrepEnds, MakeDone, Interrupt, Crash, StartParse, CatFile, ParseDone,
        Finished, vars
<1> QED
  BY <1>4, <1>5, <1>6, <1>7, <1>8, <1>9 DEF RestInv

\* The four parts together are inductive.
LEMMA TablesInvariance == Spec => [](IInv /\ TextsInv /\ TableInv /\ RestInv)
<1>1. Init => TextsInv /\ TableInv /\ RestInv
  <2> SUFFICES ASSUME Init PROVE TextsInv /\ TableInv /\ RestInv
    OBVIOUS
  <2>1. DOMAIN disk = {} /\ DOMAIN table = {}
    <3>1. DOMAIN <<>> = {}
      OBVIOUS
    <3> QED
      BY <3>1 DEF Init
  <2>2. IsSuffix(left, Results)
    <3>1. IsSuffix(<<>>, Results)
      BY ListedAssumption, EmptySuffix
    <3> QED
      BY <3>1 DEF Init
  <2>3. TextsInv /\ TableInv
    BY <2>1 DEF Init, TextsInv, TableInv
  <2>4. RestInv
    <3>1. 0 \in 0..MaxFaults /\ 0 \in 0..MaxMakes /\ 0 \in 0..MaxParses
      BY BoundsAssumption
    <3>2. /\ make = "off" /\ failed = FALSE /\ parsing = "none" /\ cats = {}
          /\ broken = {} /\ early = {} /\ faults = 0 /\ makes = 0 /\ parses = 0
      BY DEF Init
    <3> QED
      BY <2>1, <2>2, <3>1, <3>2 DEF RestInv
  <2> QED
    BY <2>3, <2>4
<1>2. /\ IInv /\ TextsInv /\ TableInv /\ RestInv /\ [Next]_vars
      => TextsInv' /\ TableInv' /\ RestInv'
  BY TextsStep, TableStep, RestStep DEF RestInv
<1> QED
  BY <1>1, <1>2, Invariance, PTL DEF Spec

\* The state of a campaign keeps its types: a result file holds only output of its own
\* benchmark, a table only rows of its own kind, and no benchmark prints more rows than it
\* was asked for, whatever dies, is interrupted or is parsed.
THEOREM TypeCorrect == Spec => []TypeOK
<1>1. IInv /\ TextsInv /\ TableInv /\ RestInv => TypeOK
  <2> SUFFICES ASSUME IInv, TextsInv, TableInv, RestInv PROVE TypeOK
    OBVIOUS
  <2>1. \A f \in DOMAIN disk : Range(disk[f]) \subseteq Pieces(f)
    BY DEF TextsInv, Beginning, Range
  <2>2. \A f \in Making : Exists(f) /\ Range(printed) \subseteq Pieces(f)
    <3> SUFFICES ASSUME make = "bench"
                 PROVE  Exists(Head(left)) /\ Range(printed) \subseteq Pieces(Head(left))
      BY DEF Making
    <3> DEFINE f == Head(left)
    <3>1. left \in Seq(Files) /\ left # <<>> /\ Exists(f)
      BY DEF IInv, MakeInv
    <3>2. f \in Files
      BY <3>1
    <3>3. PICK r \in 0..Rows[f], k \in {0, 1} : printed = Output(f, r, k)
      BY DEF IInv, OutputInv
    <3> HIDE DEF f
    <3>4. Beginning(f, printed, k)
      BY <3>2, <3>3, OutputBegins
    <3>5. Range(printed) \subseteq Pieces(f)
      BY <3>4 DEF Beginning, Range
    <3> QED
      BY <3>1, <3>5 DEF f
  <2>3. \A k \in DOMAIN table : \A p \in Range(table[k]) : Kind[p.of] = k
    BY DEF TableInv, Range
  <2> QED
    BY <2>1, <2>2, <2>3 DEF TypeOK, RestInv, IInv, MakeInv
<1> QED
  BY <1>1, TablesInvariance, PTL

\* No measurement counts twice in a table, and a row of it is damaged only next to a file
\* whose benchmark died, that a crash hit, or that was read while it was being made, for any
\* number of files, and however make and the parse scripts interleave.
THEOREM TablesSound == Spec => []TableSound
<1>1. TableInv => TableSound
  <2> SUFFICES ASSUME TableInv, NEW k \in DOMAIN table
               PROVE  LET text == table[k] IN
                      /\ IsInjective([i \in DOMAIN text |-> <<text[i].of, text[i].row>>])
                      /\ \A i \in DOMAIN text : Damaged(text, i) =>
                            ({text[i].of} \cup {text[j].of : j \in {i - 1} \ {0}})
                               \cap (broken \cup early) # {}
    BY DEF TableSound
  <2> DEFINE text == table[k]
  <2>1. /\ text \in Seq(UNION {Pieces(f) : f \in Files})
        /\ \A i, j \in DOMAIN text : text[i].of = text[j].of /\ text[i].row = text[j].row => i = j
        /\ \A i \in DOMAIN text : text[i].ends \/ text[i].of \in broken \cup early
    BY DEF TableInv, Sound
  <2>2. DOMAIN text = 1..Len(text) /\ Len(text) \in Nat
    BY <2>1
  <2> HIDE DEF text
  <2>3. IsInjective([i \in DOMAIN text |-> <<text[i].of, text[i].row>>])
    BY <2>1 DEF IsInjective
  <2>4. ASSUME NEW i \in DOMAIN text, Damaged(text, i)
        PROVE  ({text[i].of} \cup {text[j].of : j \in {i - 1} \ {0}}) \cap (broken \cup early) # {}
    <3>1. CASE ~text[i].ends
      BY <2>1, <3>1
    <3>2. CASE i > 1 /\ ~text[i - 1].ends
      <4>1. i - 1 \in DOMAIN text /\ i - 1 \in {i - 1} \ {0}
        BY <2>2, <3>2
      <4>2. text[i - 1].of \in broken \cup early
        BY <2>1, <3>2, <4>1
      <4>3. text[i - 1].of \in {text[j].of : j \in {i - 1} \ {0}}
        BY <4>1
      <4> QED
        BY <4>2, <4>3
    <3> QED
      BY <2>4, <3>1, <3>2 DEF Damaged
  <2> QED
    BY <2>3, <2>4 DEF text
<1> QED
  BY <1>1, TablesInvariance, PTL
=============================================================================
