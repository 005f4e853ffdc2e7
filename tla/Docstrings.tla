------------------------------ MODULE Docstrings ------------------------------
(***************************************************************************)
(* update_pydoc.py as the build of the Python bindings runs it: "scrape"   *)
(* (module DocScrape) writes the docstrings to a file, "sub" puts them     *)
(* into copies of the templates of python/bindings/docstrings.  "copy" is  *)
(* run instead of both when there is no Doxygen.                           *)
(*                                                                         *)
(* A template is a sequence of placeholders.  What stands between the      *)
(* delimiters of one is a docstring; a placeholder whose text before the   *)
(* docstring has been replaced as well is broken.  Placeholders are names  *)
(* of C variables: none begins with the name of an operator.               *)
(***************************************************************************)
EXTENDS DocScrape

CONSTANTS Templates,   \* [stem, placeholders], in the order of glob
          Filters      \* the values of --filter: <<>> or a qualified name

VARIABLES filter, file, key, text, written, status_file

sub_vars == <<filter, file, key, text, written, status_file>>
vars == <<scrape_vars, sub_vars>>

\* str.startswith of qualified names, word by word in the last name of the prefix.
StartsWith(name, prefix) ==
    /\ Len(name) >= Len(prefix)
    /\ \A i \in 1..Len(prefix) - 1 : name[i] = prefix[i]
    /\ prefix # <<>> => IsPrefix(Last(prefix), name[Len(prefix)])

\* The entries that are tried on a file: with a filter, those of the class the file is
\* named after.
Entries(f) ==
    SelectSeq(output, LAMBDA e :
        filter # <<>> => StartsWith(e.key, filter)
                             /\ StartsWith(e.key, Append(filter, Templates[f].stem)))

Blank == [intact |-> TRUE, value |-> <<>>]
Template(f) == [i \in DOMAIN Templates[f].placeholders |-> Blank]

\* doc_key: the names of a key are joined with underscores, as their words are.
doc_key(k) == FlattenSeq(k)

PartStyle(part) == IF part.what = "text" THEN Data(part.of).comment ELSE "plain"
StyleOf(value) == IF value = <<>> THEN "none" ELSE PartStyle(value[1])
HasParen(value) == \E i \in DOMAIN value : PartStyle(value[i]) = "paren"

\* Mutant: the pattern does not name the placeholder.
Matches_Anywhere(f, content, k) ==
    {i \in DOMAIN content : content[i].intact /\ ~HasParen(content[i].value)}

\* The key goes into the pattern as it is, so a bar in it parts the pattern.  Behind that of
\* operator| stands only what every placeholder has before its docstring, and between those of
\* operator|| nothing.  What else is special in the name of an operator only keeps the pattern
\* from matching, like any name that no placeholder has.
PartedBy(k, operator) == Last(k) = <<operator>>
Parted(k) == PartedBy(k, "operator|") \/ PartedBy(k, "operator||")

\* The pattern finds a placeholder by its name, or any one if it is parted, unless a
\* parenthesis has been put into it; with nothing for a name it finds the end of any docstring.
Matches(f, content, k) ==
    {i \in DOMAIN content :
        \/ PartedBy(k, "operator||")
        \/ /\ content[i].intact /\ ~HasParen(content[i].value)
           /\ PartedBy(k, "operator|") \/ Templates[f].placeholders[i] = doc_key(k)}

\* r'\1' + value: digits at the start of the docstring belong to the number of the
\* group.  Two octal digits make a character of it, which replaces what group 1 had
\* matched; any other digit makes a group there is not, whether the pattern matches
\* or not, as does a name the pattern cannot be made of.  With operator|| the docstring takes
\* the place of all that stands behind the last parenthesis.
Substituted(old, e) ==
    IF ~PartedBy(e.key, "operator||")
    THEN [intact |-> StyleOf(e.value) # "octal", value |-> e.value]
    ELSE IF HasParen(old.value) THEN [old EXCEPT !.value = @ \o e.value]
    ELSE [intact |-> FALSE, value |-> e.value]
Raises(e) == StyleOf(e.value) = "digit" \/ \E i \in DOMAIN e.key : e.key[i] = <<"operator[]">>

Init ==
    /\ ScrapeInit
    /\ filter \in Filters
    /\ file = 1
    /\ key = 0
    /\ text = <<>>
    /\ written = <<>>
    /\ status_file = <<>>

Scrape == ScrapeNext /\ UNCHANGED sub_vars

\* sub_docstring_in_pydoc_h: the next template is read.
Read ==
    /\ pc = "dumped"
    /\ file \in DOMAIN Templates
    /\ key = 0
    /\ text' = Template(file)
    /\ key' = 1
    /\ UNCHANGED <<scrape_vars, filter, file, written, status_file>>

\* One entry is tried on the text; what it raises leaves the text as it was.
Substitute ==
    /\ pc = "dumped"
    /\ key >= 1 /\ key \in DOMAIN Entries(file)
    /\ LET e == Entries(file)[key]
           found == Matches(file, text, e.key)
           i == CHOOSE m \in found : \A n \in found : m <= n
       IN IF Raises(e)
          THEN /\ status_file' = Append(status_file, <<"FAIL", file>>)
               /\ UNCHANGED text
          ELSE IF found = {} THEN UNCHANGED <<text, status_file>>
          ELSE /\ text' = [text EXCEPT ![i] = Substituted(@, e)]
               /\ status_file' = Append(status_file, <<"PASS", file>>)
    /\ key' = key + 1
    /\ UNCHANGED <<scrape_vars, filter, file, written>>

Write ==
    /\ pc = "dumped"
    /\ key >= 1 /\ key > Len(Entries(file))
    /\ written' = Append(written, text)
    /\ file' = file + 1
    /\ key' = 0
    /\ UNCHANGED <<scrape_vars, filter, text, status_file>>

\* copy_docstring_templates: one file, DONE after the last.
Copy ==
    /\ pc = "index" /\ at = 1 /\ written = <<>>
    /\ pc' = "copied"
    /\ written' = [f \in DOMAIN Templates |-> Template(f)]
    /\ status_file' = <<<<"DONE", 0>>>>
    /\ UNCHANGED <<world, at, parsed, members, blocks, blocks2, make_funcs, output,
                   filter, file, key, text>>

Next == Scrape \/ Read \/ Substitute \/ Write \/ Copy

Spec == Init /\ [][Next]_vars

-------------------------------------------------------------------------------
\* Properties

Escapes == {"Exception", "AttributeError", "FileNotFoundError", "ValueError", "NoSuchMember",
            "Duplicate"}

TypeOK ==
    /\ pc \in {"index", "blocks", "block entries", "block2 entries", "functions", "classes",
               "dumped", "copied"} \cup Escapes
    /\ parsed \in [Compounds -> {"no", "yes", "error"}]
    /\ \A i, j \in DOMAIN output : output[i].key = output[j].key => i = j
    /\ Len(written) <= Len(Templates)
    /\ pc \notin {"dumped", "copied"} => written = <<>> /\ status_file = <<>>

Flattened(c) == get_cls(world[c].kind) = "DoxyNamespace"
                    \/ (get_cls(world[c].kind) = "DoxyFile" /\ IsHeader(c))
SoundClass(c) == get_cls(world[c].kind) = "DoxyClass" /\ world[c].xml = "ok"
\* The functions of headers and namespaces, each file's first of a name.
FreeFunctions == UNION {ToSet(Of("DoxyFunction", process_memberdefs(c))) :
                            c \in {d \in Compounds : Flattened(d)}}
Makes(c) == {f \in FreeFunctions : ObjName(f) = make_name(world[c].name)}
Befriended(c) == \E m \in DOMAIN world[c].members :
                     /\ world[c].members[m].kind = "friend"
                     /\ <<world[c].members[m].name>> = make_name(world[c].name)
OldBlock(c) == SoundClass(c) /\ (Befriended(c) \/ Makes(c) # {})
Files(c) == {d \in Compounds : Flattened(d)
                 /\ world[d].name = [world[c].name EXCEPT ![Len(world[c].name)] = Append(@, ".h")]}

\* One bad file must not cost the docstrings of the rest: ParsingError is caught per
\* function and class.  What does end a scrape without a result is a compound of a kind
\* the index does not know, a header, namespace or class file that is missing or has a defect
\* that compound.parse stumbles over, a header or namespace file that is not well formed (its
\* _parse uses the data before it looks at the error), and a block of the old style whose make
\* function is not found exactly once or whose header is not the only file of its name.
ScrapeFailsOnlyFor ==
    LET fatal == \/ \E c \in Compounds :
                        \/ get_cls(world[c].kind) = "none"
                        \/ Flattened(c) /\ world[c].xml # "ok"
                        \/ get_cls(world[c].kind) = "DoxyClass"
                              /\ world[c].xml \in {"missing", "defective"}
                        \/ OldBlock(c) /\ (Cardinality(Makes(c)) # 1 \/ Cardinality(Files(c)) > 1)
    IN /\ pc \in Escapes => fatal
       /\ pc = "dumped" => ~fatal

ValueOf(k) == LET hits == {i \in DOMAIN output : output[i].key = k} IN
              IF hits = {} THEN <<Part("none", <<>>)>>
              ELSE output[CHOOSE i \in hits : TRUE].value
Conversion(o) == Data(o).name = <<"operator ">>
IsNewBlock(c) == SoundClass(c) /\ \E m, n \in DOMAIN world[c].members :
    /\ world[c].members[m].kind = "function" /\ world[c].members[m].name = <<"make">>
    /\ world[c].members[n].kind = "typedef" /\ world[c].members[n].name = <<"sptr">>

\* A finished scrape has an entry for every class that can be read, and one for each of
\* its methods with the method's own comment, whatever else the index lists.
SoundClassesCovered ==
    pc = "dumped" =>
        \A c \in Compounds :
            SoundClass(c) /\ world[c].name[1] # <<"std">> =>
                /\ \E i \in DOMAIN output : output[i].key = world[c].name
                /\ \A o \in ToSet(Of("DoxyFunction", process_memberdefs(c))) :
                       ~Conversion(o) /\ ~(IsNewBlock(c) /\ Data(o).name = <<"make">>) =>
                           ValueOf(Append(world[c].name, Data(o).name)) = combine_descriptions(o)

\* The loops over functions and classes come after those over blocks and write to the
\* same dictionary: what they write never takes the place of the text that a block and
\* its make function share.
MakeTextKept ==
    pc = "dumped" =>
        \A c \in Compounds :
            /\ OldBlock(c) => \A f \in Makes(c) :
                   LET file_text == [d \in Files(c) |-> combine_descriptions(<<d>>)]
                       shared == combine_descriptions(<<c>>) \o combine_descriptions(f)
                                     \o FlattenSeq(SetToSeq({file_text[d] : d \in Files(c)}))
                   IN {ValueOf(DefKey(f)), ValueOf(world[c].name)} = {shared \o Args(<<c>>)}
            /\ IsNewBlock(c) /\ ~OldBlock(c) =>
                   /\ ValueOf(world[c].name) = ValueOf(Append(world[c].name, <<"make">>))
                   /\ combine_descriptions(<<c>>)
                          \o <<Part("constructor", <<c>>)>> = SubSeq(ValueOf(world[c].name), 1,
                                 1 + Len(combine_descriptions(<<c>>)))

\* A docstring in a written file is that of an entry with the name of its placeholder.
\* Different qualified names can become the same placeholder: the last entry stays,
\* unless a parenthesis kept the pattern from finding the one before it.
OwnDocstring(f, i) ==
    LET mine == SelectSeq(Entries(f), LAMBDA e :
                    doc_key(e.key) = Templates[f].placeholders[i] /\ ~Raises(e))
        values == {mine[j].value : j \in DOMAIN mine}
    IN IF \E v \in values : HasParen(v) \/ StyleOf(v) = "octal"
       THEN written[f][i].value \in values
       ELSE written[f][i].value = IF mine = <<>> THEN <<>> ELSE Last(mine).value

\* A placeholder that stays blank though there is text for it is accounted for: the
\* status file has a FAIL line for its file.
BlankIsExplained(f, i) ==
    LET mine == SelectSeq(Entries(f), LAMBDA e : doc_key(e.key) = Templates[f].placeholders[i])
    IN /\ written[f][i] = Blank
       /\ mine # <<>> /\ \A j \in DOMAIN mine : mine[j].value # <<>>
       => <<"FAIL", f>> \in ToSet(status_file)

\* Every placeholder of every written file has its own docstring, or a blank one that is
\* explained, if no entry whose key parts the pattern was tried on the file.
PlaceholdersFilled ==
    pc = "dumped" => \A f \in DOMAIN written :
        (\A e \in ToSet(Entries(f)) : ~Parted(e.key)) =>
            \A i \in DOMAIN written[f] : OwnDocstring(f, i) /\ BlankIsExplained(f, i)

\* What update_pydoc.py says of an entry it cannot handle, "be permissive, TODO log, but just
\* leave the docstring blank": a placeholder has a docstring of its own or a blank one.
OwnOrBlank ==
    pc = "dumped" => \A f \in DOMAIN written : \A i \in DOMAIN written[f] :
        written[f][i] = Blank \/ OwnDocstring(f, i)

===============================================================================
