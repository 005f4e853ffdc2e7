----------------------------- MODULE MCDocstrings -----------------------------
(***************************************************************************)
(* The xml directories for Docstrings: up to three of the compounds below, *)
(* in the order in which Doxygen lists kinds of compounds.                 *)
(***************************************************************************)
EXTENDS Docstrings

Mem(kind, name, definition, comment, params) ==
    [kind |-> kind, name |-> name, definition |-> definition, comment |-> comment,
     params |-> params]
Compound(kind, name, xml, comment, params, mems) ==
    [kind |-> kind, name |-> name, xml |-> xml, comment |-> comment, params |-> params,
     members |-> mems]

GR == <<"gr">>
A == <<GR, <<"a">>>>
B == <<GR, <<"b">>>>
FooBar == <<<<"foo", "bar">>>>
FooMakeBar == <<"foo", "make", "bar">>
Sptr == Mem("typedef", <<"sptr">>, <<>>, "none", "none")
Make(name, comment) == Mem("function", <<"make">>, Append(name, <<"make">>), comment, "declared")
MakeBar(comment) == Mem("function", FooMakeBar, <<FooMakeBar>>, comment, "documented")

\* Blocks of the new style: comments that matter to sub, and an overloaded make.
NewBlock(name, comment, comment2) ==
    Compound("class", name, "ok", comment, "none",
        <<Make(name, comment2), Sptr, Make(name, "none")>>)

\* A class with an operator.
Operators(name) ==
    Compound("class", B, "ok", "plain", "none", <<Mem("function", <<name>>, <<>>, "plain", "none")>>)

Candidates == <<
    NewBlock(A, "plain", "plain"), NewBlock(A, "none", "paren"), NewBlock(A, "octal", "none"),
    NewBlock(B, "digit", "plain"), NewBlock(A, "paren", "plain"),
    Compound("class", A, "malformed", "none", "none", <<>>),
    Compound("class", B, "ok", "plain", "documented",
        <<Mem("function", <<"set">>, <<>>, "plain", "none"),
          Mem("function", <<"set">>, <<>>, "digit", "none"),
          Mem("function", <<"operator ">>, <<>>, "plain", "none")>>),
    Compound("class", B, "missing", "none", "none", <<>>),
    Compound("class", B, "ok", "octal", "none", <<Mem("function", <<"operator[]">>, <<>>, "plain", "none")>>),
    Compound("class", B, "defective", "none", "none", <<>>),
    Operators("operator|"), Operators("operator||"),
    Compound("class", FooBar, "ok", "plain", "none", <<Mem("friend", FooMakeBar, <<>>, "none", "none")>>),
    Compound("class", FooBar, "ok", "plain", "documented", <<Mem("event", <<"e">>, <<>>, "none", "none")>>),
    Compound("class", <<<<"std">>, <<"x">>>>, "ok", "plain", "none", <<>>),
    Compound("struct", <<GR, <<"s">>>>, "malformed", "none", "none", <<>>),
    Compound("namespace", <<GR>>, "ok", "none", "none",
        <<Mem("function", <<"a", "make">>, <<GR, <<"a", "make">>>>, "plain", "none"), MakeBar("plain")>>),
    Compound("namespace", <<<<"n">>>>, "defective", "none", "none", <<>>),
    Compound("file", <<<<"foo", "bar", ".h">>>>, "ok", "plain", "none", <<MakeBar("plain")>>),
    Compound("file", <<<<"foo", "bar", ".h">>>>, "ok", "none", "none", <<>>),
    Compound("file", <<<<"b", ".h">>>>, "malformed", "none", "none", <<>>),
    Compound("file", <<<<"b", ".h">>>>, "defective", "none", "none", <<>>),
    Compound("file", <<<<"b", ".cc">>>>, "malformed", "none", "none", <<>>),
    Compound("group", <<<<"block">>>>, "ok", "none", "none", <<>>),
    Compound("concept", <<<<"c">>>>, "ok", "none", "none", <<>>) >>

\* No two compounds of a directory are classes of one name.
Distinct(s) == \A i, j \in s : /\ i # j
                               /\ Candidates[i].kind = "class" /\ Candidates[j].kind = "class"
                               => Candidates[i].name # Candidates[j].name
MCWorlds ==
    {LET order == SetToSortSeq(s, <) IN [i \in DOMAIN order |-> Candidates[order[i]]] :
         s \in {t \in {{}} \cup {{i, j, k} : i, j, k \in DOMAIN Candidates} : Distinct(t)}}

MCTemplates == <<
    [stem |-> <<"a">>, placeholders |-> <<<<"gr", "a">>, <<"gr", "a", "make">>>>],
    [stem |-> <<"b">>, placeholders |-> <<<<"gr", "b">>, <<"gr", "b", "set">>>>] >>
MCFilters == {<<>>, <<GR>>}

\* A class with operator|, and the filter the bindings are built with.
MCOperatorWorlds == {<<Operators("operator|")>>}
MCBindingsFilter == {<<GR>>}

===============================================================================
