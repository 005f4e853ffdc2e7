------------------------------- MODULE DocScrape -------------------------------
(***************************************************************************)
(* "update_pydoc.py scrape": the objects of docs/doxygen/doxyxml (base.py, *)
(* doxyindex.py), which are parsed when they are first asked for           *)
(* something, and get_docstrings_dict, which writes a docstring for every  *)
(* block, function and class that index.xml lists.                         *)
(*                                                                         *)
(* A name is a sequence of words (those between the underscores), a        *)
(* qualified name a sequence of names (those between the "::").  A comment *)
(* is what combine_descriptions makes of it, see Styles; a docstring is    *)
(* the sequence of comments it is put together from.                       *)
(***************************************************************************)
EXTENDS Integers, Sequences, SequencesExt, FiniteSets

CONSTANTS Worlds      \* the contents of the xml directory to scrape

\* What matters of a comment later: it is empty, holds a closing parenthesis, starts
\* with a digit or with two octal digits.
Styles == {"none", "plain", "paren", "digit", "octal"}

VARIABLES world,       \* the compounds of index.xml, in its order
          pc,          \* where get_docstrings_dict is
          at,          \* the position in the loop it is in
          parsed,      \* per compound: "no", "yes" or "error" (_parsed and _error)
          members,     \* per object: _members, 0 is the index
          blocks,      \* in_category(Block) and in_category(Block2), as far as found
          blocks2,
          make_funcs,  \* the names of the make functions dealt with
          output       \* the dictionary, [key, value] in the order of insertion

scrape_vars == <<world, pc, at, parsed, members, blocks, blocks2, make_funcs, output>>

-------------------------------------------------------------------------------
\* Objects: <<c>> is the object of compound c, <<c, m>> of its member definition m.

Compounds == 1..Len(world)
Data(o) == IF Len(o) = 1 THEN world[o[1]] ELSE world[o[1]].members[o[2]]
ObjName(o) == IF Len(o) = 1 THEN Data(o).name ELSE <<Data(o).name>>

\* DoxyOther.kinds
OtherKinds == {"variable", "struct", "union", "define", "typedef", "enum", "dir", "page",
               "signal", "slot", "property"}

\* get_cls: the first class of mem_classes that can parse an object of this kind.
get_cls(kind) ==
    CASE kind = "function" -> "DoxyFunction"
      [] kind = "class" -> "DoxyClass"
      [] kind = "file" -> "DoxyFile"
      [] kind = "namespace" -> "DoxyNamespace"
      [] kind = "group" -> "DoxyGroup"
      [] kind = "friend" -> "DoxyFriend"
      [] kind \in OtherKinds -> "DoxyOther"
      [] OTHER -> "none"
ClassOf(o) == get_cls(Data(o).kind)
Of(cat, list) == SelectSeq(list, LAMBDA o : ClassOf(o) = cat)

IsHeader(c) == Last(Last(world[c].name)) = ".h"

\* process_memberdefs: the member definitions of all sections, the first of each name.
process_memberdefs(c) ==
    LET mems == world[c].members
        first == {m \in DOMAIN mems : \A n \in 1..m - 1 : mems[n].name # mems[m].name}
    IN SelectSeq([m \in DOMAIN mems |-> <<c, m>>], LAMBDA o : o[2] \in first)

\* Mutant: a class looks at its data before it looks at the error, as files do.
ParseResult_NoErrorCheck(c) ==
    CASE world[c].xml = "missing" -> "FileNotFoundError"
      [] world[c].xml = "defective" -> "ValueError"
      [] world[c].xml = "malformed" -> "AttributeError"
      [] world[c].xml = "ok" -> "yes"

\* retrieve_data: only a file that is not well formed (ExpatError) is noted.  One that is not
\* there is not caught, nor is what compound.parse raises at a defect of a well-formed one: a
\* ValueError, which here stands for a TypeError as well (see Stuck in XmlBuild).
retrieve_data(c) ==
    CASE world[c].xml = "missing" -> "FileNotFoundError"
      [] world[c].xml = "defective" -> "ValueError"
      [] world[c].xml = "malformed" -> "error"
      [] world[c].xml = "ok" -> "yes"

\* The _parse of the classes that read a file of their own: a class looks at the error
\* first, a file or namespace stumbles over the data it did not get.
DoxyClass_parse(c) == retrieve_data(c)
DoxyFile_parse(c) == IF retrieve_data(c) = "error" THEN "AttributeError" ELSE retrieve_data(c)
DoxyNamespace_parse(c) ==
    IF retrieve_data(c) = "error" THEN "AttributeError" ELSE retrieve_data(c)
ParseResult(c) ==
    CASE world[c].kind = "class" -> DoxyClass_parse(c)
      [] world[c].kind = "file" -> DoxyFile_parse(c)
      [] world[c].kind = "namespace" -> DoxyNamespace_parse(c)

\* get_member(name, cat) of an object with these members: the name before the first
\* "::" is looked up among the members of the category; functions, friends and
\* files have no members of a category themselves.
get_member(mems, cat, qname) ==
    LET found == SelectSeq(Of(cat, mems), LAMBDA o : ObjName(o) = <<qname[1]>>) IN
    CASE found = <<>> -> [error |-> "NoSuchMember", member |-> <<>>]
      [] Len(found) > 1 -> [error |-> "Duplicate", member |-> <<>>]
      [] Len(qname) > 1 -> [error |-> "NoSuchMember", member |-> <<>>]
      [] OTHER -> [error |-> "none", member |-> found[1]]

\* make_name: "make" goes after the first underscore, "::" or not.
make_name(qname) ==
    LET split == {i \in DOMAIN qname : Len(qname[i]) > 1}
        i == IF split = {} THEN Len(qname) ELSE CHOOSE k \in split : \A j \in split : k <= j
    IN [qname EXCEPT ![i] = <<@[1], "make">> \o (IF Len(@) > 1 THEN Tail(@) ELSE <<"">>)]

-------------------------------------------------------------------------------
\* Docstrings: sequences of parts, the comment of an object, the text that stands
\* before a make function's, or the list of parameters.

Part(what, o) == [what |-> what, of |-> o]
combine_descriptions(o) == IF Data(o).comment = "none" THEN <<>> ELSE <<Part("text", o)>>
\* The parameters of an object: those its comment documents, for a function without any
\* those it is declared with.
Params(o) ==
    Data(o).params = "documented" \/ (ClassOf(o) = "DoxyFunction" /\ Data(o).params = "declared")
Args(o) == IF Params(o) THEN <<Part("args", o)>> ELSE <<>>

\* Mutant: an entry is added whether the key is known or not.
Update_Append(dict, key, value) == Append(dict, [key |-> key, value |-> value])

\* dict.update with one entry: the place of a known key stays.
Update(dict, key, value) ==
    LET known == {i \in DOMAIN dict : dict[i].key = key} IN
    IF known = {} THEN Append(dict, [key |-> key, value |-> value])
    ELSE [i \in DOMAIN dict |-> IF i \in known THEN [key |-> key, value |-> value] ELSE dict[i]]

\* make_entry: no entry for a conversion operator.
make_entry(dict, key, value) ==
    IF \E i \in DOMAIN key : key[i] = <<"operator ">> THEN dict ELSE Update(dict, key, value)

\* The key of a function that make_entry is given no name for: its definition's.
DefKey(o) == Data(o).definition

\* make_class_entry: the class, then its methods.
make_class_entry(dict, k, description, params, ignored) ==
    LET methods == SelectSeq(Of("DoxyFunction", members[k[1]]),
                             LAMBDA f : Data(f).name \notin ignored)
    IN FoldLeft(LAMBDA d, f : make_entry(d, Append(ObjName(k), Data(f).name),
                                         combine_descriptions(f)),
                make_entry(dict, ObjName(k), description \o params), methods)

\* make_block_entry: class, make function and file describe a block together.
BlockDescription(b, make, file) ==
    combine_descriptions(b) \o combine_descriptions(make)
        \o (IF file = <<>> THEN <<>> ELSE combine_descriptions(file))
make_block_entry(dict, b, make, file) ==
    LET text == BlockDescription(b, make, file) IN
    make_entry(make_class_entry(dict, b, text, Args(b), {}), DefKey(make), text \o Args(b))

\* make_block2_entry: class and make method do.
Block2Description(b, make) ==
    combine_descriptions(b) \o <<Part("constructor", b)>> \o combine_descriptions(make)
make_block2_entry(dict, b, make) ==
    LET text == Block2Description(b, make) IN
    make_entry(make_class_entry(dict, b, text, Args(make), {<<"make">>}),
               Append(ObjName(b), <<"make">>), text \o Args(make))

-------------------------------------------------------------------------------
ScrapeInit ==
    /\ world \in Worlds
    /\ pc = "index"
    /\ at = 1
    /\ parsed = [c \in Compounds |-> "no"]
    /\ members = [o \in 0..Len(world) |-> <<>>]
    /\ blocks = <<>>
    /\ blocks2 = <<>>
    /\ make_funcs = {}
    /\ output = <<>>

Escape(exception) ==
    /\ pc' = exception
    /\ UNCHANGED <<world, at, parsed, members, blocks, blocks2, make_funcs, output>>

Goto(label) == pc' = label /\ at' = 1
Onward == at' = at + 1 /\ UNCHANGED pc

\* DoxyIndex._parse, one compound: the members of headers and namespaces become members
\* of the index; get_cls is asked a second time, outside of convert_mem's try.
IndexCompound ==
    /\ pc = "index"
    /\ at \in Compounds
    /\ LET cls == get_cls(world[at].kind)
           flattened == cls = "DoxyNamespace" \/ (cls = "DoxyFile" /\ IsHeader(at))
           result == ParseResult(at)
       IN CASE cls = "none" -> Escape("Exception")
            [] flattened /\ result # "yes" -> Escape(result)
            [] flattened /\ result = "yes" ->
                 /\ parsed' = [parsed EXCEPT ![at] = "yes"]
                 /\ members' = [members EXCEPT ![at] = process_memberdefs(at),
                                               ![0] = @ \o process_memberdefs(at) \o <<<<at>>>>]
                 /\ Onward
                 /\ UNCHANGED <<world, blocks, blocks2, make_funcs, output>>
            [] cls = "DoxyFile" /\ ~flattened ->
                 /\ Onward
                 /\ UNCHANGED <<world, parsed, members, blocks, blocks2, make_funcs, output>>
            [] OTHER ->
                 /\ members' = [members EXCEPT ![0] = Append(@, <<at>>)]
                 /\ Onward
                 /\ UNCHANGED <<world, parsed, blocks, blocks2, make_funcs, output>>

Indexed ==
    /\ pc = "index"
    /\ at \notin Compounds
    /\ Goto("blocks")
    /\ UNCHANGED <<world, parsed, members, blocks, blocks2, make_funcs, output>>

\* item.error(): the class is parsed if it has not been.
Asked(c) ==
    [parsed EXCEPT ![c] = IF @ = "no" THEN ParseResult(c) ELSE @]
\* Then its members are remembered.
AskedMembers(c) ==
    [members EXCEPT ![c] = IF Asked(c)[c] = "yes" THEN process_memberdefs(c) ELSE <<>>]

\* Block.includes for the next member of the index: a class with a friend or, next to
\* it, a function named after it.  has_member knows NoSuchMember only.
FindBlock ==
    /\ pc = "blocks"
    /\ at \in DOMAIN members[0]
    /\ LET o == members[0][at] IN
       IF ClassOf(o) # "DoxyClass"
       THEN /\ Onward
            /\ UNCHANGED <<world, parsed, members, blocks, blocks2, make_funcs, output>>
       ELSE LET c == o[1]
                name == make_name(world[c].name)
                friend == get_member(AskedMembers(c)[c], "DoxyFriend", name)
                func == get_member(members[0], "DoxyFunction", name)
                sound == Asked(c)[c] = "yes"
                isBlock == sound /\ (friend.error = "none" \/ func.error = "none")
            IN CASE Asked(c)[c] \notin {"yes", "error"} -> Escape(Asked(c)[c])
                 [] sound /\ friend.error # "none" /\ func.error = "Duplicate" ->
                        Escape("Duplicate")
                 [] OTHER ->
                        /\ parsed' = Asked(c)
                        /\ members' = AskedMembers(c)
                        /\ blocks' = IF isBlock THEN Append(blocks, o) ELSE blocks
                        /\ Onward
                        /\ UNCHANGED <<world, blocks2, make_funcs, output>>

\* Block2.includes: a class with a method make and a type sptr.
IsBlock2(o) ==
    /\ ClassOf(o) = "DoxyClass"
    /\ parsed[o[1]] = "yes"
    /\ get_member(members[o[1]], "DoxyFunction", <<<<"make">>>>).error = "none"
    /\ get_member(members[o[1]], "DoxyOther", <<<<"sptr">>>>).error = "none"

FindBlocks2 ==
    /\ pc = "blocks"
    /\ at \notin DOMAIN members[0]
    /\ blocks2' = SelectSeq(members[0], IsBlock2)
    /\ Goto("block entries")
    /\ UNCHANGED <<world, parsed, members, blocks, make_funcs, output>>

\* Mutant: the make function is not remembered as dealt with.
BlockEntry_Forgets ==
    /\ pc = "block entries"
    /\ at \in DOMAIN blocks
    /\ LET b == blocks[at]
           make == get_member(members[0], "DoxyFunction", make_name(ObjName(b)))
       IN output' = IF make.error = "none"
                    THEN make_block_entry(output, b, make.member, <<>>) ELSE output
    /\ Onward
    /\ UNCHANGED <<world, parsed, members, blocks, blocks2, make_funcs>>

\* One round of the loop over the blocks: the make function must be a function the
\* index knows by that name, and the file, if there is one, the only one of its name.
BlockEntry ==
    /\ pc = "block entries"
    /\ at \in DOMAIN blocks
    /\ LET b == blocks[at]
           name == ObjName(b)
           make == get_member(members[0], "DoxyFunction", make_name(name))
           file == get_member(members[0], "DoxyFile",
                              [name EXCEPT ![Len(name)] = Append(@, ".h")])
       IN CASE make.error # "none" -> Escape(make.error)
            [] make.error = "none" /\ ObjName(make.member) \in make_funcs ->
                 /\ Onward
                 /\ UNCHANGED <<world, parsed, members, blocks, blocks2, make_funcs, output>>
            [] make.error = "none" /\ ObjName(make.member) \notin make_funcs
                   /\ file.error = "Duplicate" -> Escape("Duplicate")
            [] OTHER ->
                 /\ make_funcs' = make_funcs \cup {ObjName(make.member)}
                 /\ output' = make_block_entry(output, b, make.member, file.member)
                 /\ Onward
                 /\ UNCHANGED <<world, parsed, members, blocks, blocks2>>

BlocksDone ==
    /\ pc = "block entries"
    /\ at \notin DOMAIN blocks
    /\ Goto("block2 entries")
    /\ UNCHANGED <<world, parsed, members, blocks, blocks2, make_funcs, output>>

\* Mutant: make methods are remembered by the name they all have.
Block2Entry_ByMethod ==
    /\ pc = "block2 entries"
    /\ at \in DOMAIN blocks2
    /\ LET b == blocks2[at]
           make == get_member(members[b[1]], "DoxyFunction", <<<<"make">>>>).member
       IN IF <<"make">> \in make_funcs THEN UNCHANGED <<make_funcs, output>>
          ELSE /\ make_funcs' = make_funcs \cup {<<"make">>}
               /\ output' = make_block2_entry(output, b, make)
    /\ Onward
    /\ UNCHANGED <<world, parsed, members, blocks, blocks2>>

\* The loop over the new blocks: the make method goes by its qualified name.
Block2Entry ==
    /\ pc = "block2 entries"
    /\ at \in DOMAIN blocks2
    /\ LET b == blocks2[at]
           make == get_member(members[b[1]], "DoxyFunction", <<<<"make">>>>).member
           name == Append(ObjName(b), <<"make">>)
       IN IF name \in make_funcs THEN UNCHANGED <<make_funcs, output>>
          ELSE /\ make_funcs' = make_funcs \cup {name}
               /\ output' = make_block2_entry(output, b, make)
    /\ Onward
    /\ UNCHANGED <<world, parsed, members, blocks, blocks2>>

\* The two lists that the rest of get_docstrings_dict goes through.
Funcs == SelectSeq(Of("DoxyFunction", members[0]), LAMBDA f : ObjName(f) \notin make_funcs)
BlockNames == {ObjName(blocks[i]) : i \in DOMAIN blocks}
                  \cup {ObjName(blocks2[i]) : i \in DOMAIN blocks2}
Klasses == SelectSeq(Of("DoxyClass", members[0]),
                     LAMBDA k : ObjName(k) \notin BlockNames /\ ObjName(k)[1] # <<"std">>)

Blocks2Done ==
    /\ pc = "block2 entries"
    /\ at \notin DOMAIN blocks2
    /\ Goto("functions")
    /\ UNCHANGED <<world, parsed, members, blocks, blocks2, make_funcs, output>>

FunctionEntry ==
    /\ pc = "functions"
    /\ at \in DOMAIN Funcs
    /\ output' = make_entry(output, DefKey(Funcs[at]), combine_descriptions(Funcs[at]))
    /\ Onward
    /\ UNCHANGED <<world, parsed, members, blocks, blocks2, make_funcs>>

FunctionsDone ==
    /\ pc = "functions"
    /\ at \notin DOMAIN Funcs
    /\ Goto("classes")
    /\ UNCHANGED <<world, parsed, members, blocks, blocks2, make_funcs, output>>

\* A class whose file could not be parsed raises ParsingError at its params: no entry.
ClassEntry ==
    /\ pc = "classes"
    /\ at \in DOMAIN Klasses
    /\ LET k == Klasses[at] IN
       output' = IF parsed[k[1]] = "error" THEN output
                 ELSE make_class_entry(output, k, combine_descriptions(k), Args(k), {})
    /\ Onward
    /\ UNCHANGED <<world, parsed, members, blocks, blocks2, make_funcs>>

\* json.dump
Dump ==
    /\ pc = "classes"
    /\ at \notin DOMAIN Klasses
    /\ Goto("dumped")
    /\ UNCHANGED <<world, parsed, members, blocks, blocks2, make_funcs, output>>

ScrapeNext ==
    \/ IndexCompound \/ Indexed \/ FindBlock \/ FindBlocks2 \/ BlockEntry \/ BlocksDone
    \/ Block2Entry \/ Blocks2Done \/ FunctionEntry \/ FunctionsDone \/ ClassEntry \/ Dump

===============================================================================
