------------------------------- MODULE Campaign -------------------------------
(***************************************************************************)
(* A measurement campaign: utils/Makefile, the rows the benchmarks print,  *)
(* and utils/parse_{msg,buf,opti}.sh.                                      *)
(*                                                                         *)
(* make goes through the result files of its goal.  A file that exists is  *)
(* up to date, because the files have no prerequisites; for any other a    *)
(* shell runs the benchmark into "grep -v cset > file" and returns the     *)
(* status of grep.  A benchmark can die, the user can interrupt make (who  *)
(* then deletes the file it was making), and the machine can go down with  *)
(* any part of the output written.  Nothing else tells a finished file     *)
(* from a broken one.  The user runs make again and again, and parses what *)
(* there is whenever he likes, while make is running too.                  *)
(*                                                                         *)
(* A text is a sequence of pieces.  A piece is a row, or the complaint     *)
(* about missing real-time rights that the benchmark prints first, and     *)
(* ends in a newline unless its file was cut off in the middle of it.      *)
(***************************************************************************)
EXTENDS Integers, Sequences, FiniteSets, SequencesExt

CONSTANTS
    Results,      \* the result files of the goal, in the order of the Makefile's list
    Listed,       \* the same files in the order of ls
    Kind,         \* Kind[f]: "msg", "buf" or "opti"
    Rows,         \* Rows[f]: the rows its benchmark prints, one per repetition
    RtPrio,       \* the files whose benchmark is started with -t
    MaxFaults,    \* bound: benchmarks that die, interrupts and crashes
    MaxMakes,     \* bound: times the user starts make
    MaxParses     \* bound: times the user starts a parse script

Files == ToSet(Results)
Kinds == {Kind[f] : f \in Files}

ASSUME ListedAssumption ==
    /\ Results \in Seq(Files) /\ IsInjective(Results)
    /\ ToSet(Listed) = Files /\ IsInjective(Listed)
ASSUME RowsAssumption == Rows \in [Files -> Nat \ {0}] /\ RtPrio \subseteq Files
ASSUME BoundsAssumption == {MaxFaults, MaxMakes, MaxParses} \subseteq Nat

VARIABLES
    disk,     \* disk[f]: the text of result file f, for the files that exist
    make,     \* what make is doing: off, setup, list, bench
    left,     \* the result files make has still to look at
    printed,  \* what the benchmark has printed into the pipe
    alive,    \* the benchmark is running
    table,    \* table[k]: the text of perf-data/k.csv, for those that exist
    cats,     \* the files a parse script has listed and not yet appended
    parsing,  \* the kind being parsed, or "none"
    \* history variables
    broken,   \* the files whose benchmark died, or that were being made in a crash
    early,    \* the files a parse script has read while they were being made
    failed,   \* a make has ended with an error, or not by itself
    faults, makes, parses

world == <<disk, broken, faults>>
maker == <<make, left, printed, alive, failed>>
parser == <<table, cats, parsing, early, parses>>
vars == <<disk, make, left, printed, alive, table, cats, parsing,
          broken, early, failed, faults, makes, parses>>

\* The file the recipe is being run for.
Making == IF make = "bench" THEN {Head(left)} ELSE {}

Exists(f) == f \in DOMAIN disk
With(d, f, text) == [g \in DOMAIN d \cup {f} |-> IF g = f THEN text ELSE d[g]]
Without(d, f) == [g \in DOMAIN d \ {f} |-> d[g]]

\* A row of the benchmark of f; row 0 is its complaint about real-time rights.
Row(f, n) == [of |-> f, row |-> n, ends |-> TRUE]
Complaints == {p \in Range(printed) : p.row = 0}

Init ==
    /\ disk = <<>> /\ table = <<>>
    /\ make = "off" /\ left = <<>> /\ printed = <<>> /\ alive = FALSE
    /\ cats = {} /\ parsing = "none"
    /\ broken = {} /\ early = {} /\ failed = FALSE /\ faults = 0 /\ makes = 0 /\ parses = 0
-----------------------------------------------------------------------------
(* make *)

\* The user runs make: setup is phony and comes first every time.
StartMake ==
    /\ make = "off" /\ makes < MaxMakes
    /\ make' = "setup" /\ makes' = makes + 1 /\ left' = Results
    /\ UNCHANGED <<world, printed, alive, failed, parser>>

\* One of the three setup scripts fails: make stops before any result.
SetupFails ==
    /\ make = "setup"
    /\ make' = "off" /\ left' = <<>> /\ failed' = TRUE
    /\ UNCHANGED <<world, printed, alive, makes, parser>>

SetupDone ==
    /\ make = "setup"
    /\ make' = "list"
    /\ UNCHANGED <<world, left, printed, alive, failed, makes, parser>>

\* Mutant: the files depend on setup, which is always newer.
UpToDate_Phony(f) == FALSE /\ Exists(f)

\* A file that exists has nothing to be older than: there is nothing to do for it.
UpToDate(f) == Exists(f)

\* The next file is up to date.
Skip ==
    /\ make = "list" /\ left # <<>> /\ UpToDate(Head(left))
    /\ left' = Tail(left)
    /\ UNCHANGED <<world, make, printed, alive, failed, makes, parser>>

\* The recipe of the next file: the shell creates it empty and starts the benchmark,
\* which with -t may be denied real-time scheduling, says so on cout, and goes on.
Launch ==
    /\ make = "list" /\ left # <<>> /\ ~UpToDate(Head(left))
    /\ LET f == Head(left) IN
       /\ disk' = With(disk, f, <<>>)
       /\ printed' \in {<<>>} \cup (IF f \in RtPrio THEN {<<Row(f, 0)>>} ELSE {})
    /\ make' = "bench" /\ alive' = TRUE
    /\ UNCHANGED <<broken, faults, left, failed, makes, parser>>

\* Mutant: one repetition too many.
PrintRow_OneMore ==
    /\ alive
    /\ LET f == Head(left)
           n == Len(printed) - Cardinality(Complaints)
       IN  n <= Rows[f] /\ printed' = Append(printed, Row(f, n + 1))
    /\ UNCHANGED <<world, make, left, alive, failed, makes, parser>>

\* The benchmark has measured, and prints a row with its newline.
PrintRow ==
    /\ alive
    /\ LET f == Head(left)
           n == Len(printed) - Cardinality(Complaints)
       IN  n < Rows[f] /\ printed' = Append(printed, Row(f, n + 1))
    /\ UNCHANGED <<world, make, left, alive, failed, makes, parser>>

\* main returns after its last repetition.
BenchmarkEnds ==
    /\ alive /\ Len(printed) - Cardinality(Complaints) = Rows[Head(left)]
    /\ alive' = FALSE
    /\ UNCHANGED <<world, make, left, printed, failed, makes, parser>>

\* The benchmark dies, or cset never gets to start it.
BenchmarkDies ==
    /\ alive /\ faults < MaxFaults
    /\ alive' = FALSE /\ faults' = faults + 1
    /\ broken' = broken \cup {Head(left)}
    /\ UNCHANGED <<disk, make, left, printed, failed, makes, parser>>

\* Whole pieces of the output, and perhaps a part of the next: what a full buffer of
\* grep has brought to the file.
Written(n, part) ==
    SubSeq(printed, 1, n)
        \o IF part /\ n < Len(printed) THEN <<[printed[n + 1] EXCEPT !.ends = FALSE]>> ELSE <<>>

WholePieces(text) == {i \in DOMAIN text : text[i].ends}

\* grep's buffer is full, and a block of it goes to the file.
GrepWrites ==
    /\ make = "bench"
    /\ \E n \in 0..Len(printed), part \in BOOLEAN :
          /\ WholePieces(disk[Head(left)]) \subseteq 1..n
          /\ Len(Written(n, part)) >= Len(disk[Head(left)])
          /\ disk' = With(disk, Head(left), Written(n, part))
    /\ disk' # disk
    /\ UNCHANGED <<broken, faults, maker, makes, parser>>

\* grep reads the end of its input and writes the rest of its output.  It succeeds when
\* there has been a line to print; otherwise make stops, and leaves the file as it is.
GrepEnds ==
    /\ make = "bench" /\ ~alive
    /\ disk' = With(disk, Head(left), printed)
    /\ printed' = <<>>
    /\ IF printed # <<>>
       THEN make' = "list" /\ left' = Tail(left) /\ UNCHANGED failed
       ELSE make' = "off" /\ left' = <<>> /\ failed' = TRUE
    /\ UNCHANGED <<broken, faults, alive, makes, parser>>

\* Every file of the goal has been made or was there.
MakeDone ==
    /\ make = "list" /\ left = <<>>
    /\ make' = "off"
    /\ UNCHANGED <<world, left, printed, alive, failed, makes, parser>>

Stopped == make' = "off" /\ left' = <<>> /\ printed' = <<>> /\ alive' = FALSE /\ failed' = TRUE

\* Mutant: make keeps the file (.PRECIOUS).
Interrupt_Keeps ==
    /\ make # "off" /\ faults < MaxFaults
    /\ Stopped /\ faults' = faults + 1
    /\ UNCHANGED <<disk, broken, makes, parser>>

\* Ctrl-C ends the recipe; make deletes the file it was making.
Interrupt ==
    /\ make # "off" /\ faults < MaxFaults
    /\ Stopped /\ faults' = faults + 1
    /\ disk' = IF make = "bench" THEN Without(disk, Head(left)) ELSE disk
    /\ UNCHANGED <<broken, makes, parser>>

\* The machine goes down with make and a parse script: files stay as far as written.  What has
\* been written is taken to be on the disk, though no recipe syncs.
Crash ==
    /\ make # "off" \/ parsing # "none"
    /\ faults < MaxFaults
    /\ Stopped /\ faults' = faults + 1
    /\ broken' = IF make = "bench" THEN broken \cup {Head(left)} ELSE broken
    /\ parsing' = "none" /\ cats' = {}
    /\ UNCHANGED <<disk, table, early, parses, makes>>
-----------------------------------------------------------------------------
(* parse_msg.sh, parse_buf.sh and parse_opti.sh *)

\* Mutant: the old table is not removed.
StartParse_Append(k) ==
    /\ parsing = "none" /\ parses < MaxParses
    /\ parsing' = k /\ parses' = parses + 1
    /\ cats' = {f \in Files : Kind[f] = k /\ Exists(f)}
    /\ table' = IF k \in DOMAIN table THEN table ELSE With(table, k, <<>>)
    /\ UNCHANGED <<world, maker, makes, early>>

\* ls is listed; the old table is removed and the new one gets its header line.
StartParse(k) ==
    /\ parsing = "none" /\ parses < MaxParses
    /\ parsing' = k /\ parses' = parses + 1
    /\ cats' = {f \in Files : Kind[f] = k /\ Exists(f)}
    /\ table' = With(table, k, <<>>)
    /\ UNCHANGED <<world, maker, makes, early>>

\* ls has listed f before g.
Before(f, g) == \E i, j \in DOMAIN Listed : i < j /\ Listed[i] = f /\ Listed[j] = g

\* cat $f >> ${outfile} for the next file of the list; one that is gone adds nothing.
CatFile ==
    /\ parsing # "none"
    /\ \E f \in cats :
          /\ \A g \in cats \ {f} : Before(f, g)
          /\ cats' = cats \ {f}
          /\ table' = IF Exists(f) THEN With(table, parsing, table[parsing] \o disk[f]) ELSE table
          /\ early' = early \cup ({f} \cap Making)
    /\ UNCHANGED <<world, maker, makes, parsing, parses>>

ParseDone ==
    /\ parsing # "none" /\ cats = {}
    /\ parsing' = "none"
    /\ UNCHANGED <<world, maker, makes, table, cats, early, parses>>
-----------------------------------------------------------------------------
Finished ==
    /\ make = "off" /\ makes = MaxMakes /\ parsing = "none" /\ parses = MaxParses
    /\ UNCHANGED vars

Make == SetupDone \/ Skip \/ Launch \/ PrintRow \/ BenchmarkEnds \/ GrepEnds \/ MakeDone

Next ==
    \/ StartMake \/ Make \/ SetupFails \/ BenchmarkDies \/ GrepWrites \/ Interrupt \/ Crash
    \/ \E k \in Kinds : StartParse(k)
    \/ CatFile \/ ParseDone \/ Finished

Spec == Init /\ [][Next]_vars
-----------------------------------------------------------------------------
(* Properties *)

Pieces(f) == [of : {f}, row : 0..Rows[f], ends : BOOLEAN]

\* Every variable has its type: a file holds only output of its own benchmark, and no
\* benchmark prints more rows than it was asked for.
TypeOK ==
    /\ DOMAIN disk \subseteq Files /\ \A f \in DOMAIN disk : Range(disk[f]) \subseteq Pieces(f)
    /\ make \in {"off", "setup", "list", "bench"} /\ IsSuffix(left, Results)
    /\ (make = "bench" => left # <<>>) /\ alive \in BOOLEAN /\ (alive => make = "bench")
    /\ \A f \in Making : Exists(f) /\ Range(printed) \subseteq Pieces(f)
    /\ DOMAIN table \subseteq Kinds
    /\ \A k \in DOMAIN table : \A p \in Range(table[k]) : Kind[p.of] = k
    /\ cats \subseteq Files /\ parsing \in Kinds \cup {"none"}
    /\ broken \cup early \subseteq Files /\ failed \in BOOLEAN
    /\ faults \in 0..MaxFaults /\ makes \in 0..MaxMakes /\ parses \in 0..MaxParses

\* However often make is run again, what has been measured is neither measured again
\* nor changed: only the file being made changes or disappears.  So a campaign can be
\* stopped and taken up again, and a broken file stays broken as well.
MeasuredOnce ==
    [][\A f \in DOMAIN disk \ Making : f \in DOMAIN disk' /\ disk'[f] = disk[f]]_vars

RowsOf(text) == [i \in DOMAIN text |-> text[i].row]
OneToN(n) == [i \in 1..n |-> i]

\* What a file that is not being made can be.  With the status of grep for that of the
\* benchmark and no .DELETE_ON_ERROR make leaves files that are short; but the files of
\* benchmarks that neither died nor were caught by a crash have every row, once and in
\* order, behind at most the complaint, and an empty file is never left without an error.
SettledFiles ==
    \A f \in DOMAIN disk \ Making :
        /\ f \notin broken =>
              /\ RowsOf(disk[f]) \in {OneToN(Rows[f]), <<0>> \o OneToN(Rows[f])}
              /\ \A p \in Range(disk[f]) : p.ends
        /\ disk[f] = <<>> => failed

\* The line of piece i of a text is damaged: cut off, or glued to one that was.
Damaged(text, i) == ~text[i].ends \/ (i > 1 /\ ~text[i - 1].ends)

\* No measurement counts twice in a table; and a broken file, or one read while it was
\* being made, can cost a row of its neighbour in the list, but none of any other file.
TableSound ==
    \A k \in DOMAIN table :
        LET text == table[k] IN
        /\ IsInjective([i \in DOMAIN text |-> <<text[i].of, text[i].row>>])
        /\ \A i \in DOMAIN text : Damaged(text, i) =>
               ({text[i].of} \cup {text[j].of : j \in {i - 1} \ {0}}) \cap (broken \cup early) # {}
===============================================================================
