------------------------------ MODULE DoxygenXml ------------------------------
(***************************************************************************)
(* What docs/doxygen/doxyxml takes from the objects that module XmlBuild   *)
(* builds: description of text.py, which makes one text of the words of a  *)
(* comment, and the parameters that doxyindex.py reads.                    *)
(***************************************************************************)
EXTENDS XmlBuild, SequencesExt

-------------------------------------------------------------------------------
\* text.py and the readers of doxyindex.py

Break == <<0>>    \* the blank line after a paragraph; a place no word has

\* The words of an object, in the order of its content.
RECURSIVE description_bit(_)
description_bit(obj) ==
    LET content == obj.fields[ContentOf(obj.class)] IN
    FlattenSeq([i \in DOMAIN content |->
        LET item == content[i] IN
        (IF item.category = "complex" THEN description_bit(item.value) ELSE item.value)
            \o (IF item.name = "para" THEN <<Break>> ELSE <<>>)])

\* strip: no blank line at either end.
description(obj) ==
    LET bits == description_bit(obj)
        words == {i \in DOMAIN bits : bits[i] # Break}
    IN IF words = {} THEN <<>>
       ELSE SubSeq(bits, CHOOSE i \in words : \A j \in words : i <= j,
                         CHOOSE i \in words : \A j \in words : j <= i)

\* DoxyParameterItem: the first of the names a description of parameters is for.
ParameterItem(item) ==
    LET names == FlattenSeq([i \in DOMAIN item.fields.parameternamelist |->
                     item.fields.parameternamelist[i].fields.parametername])
    IN [name |-> description(names[1]),
        description |-> description(item.fields.parameterdescription[1])]

\* set_parameters: the parameter lists of the paragraphs of a detailed description.
set_parameters(desc) ==
    LET paras == SelectSeq(desc.fields.content_, LAMBDA item : /\ item.category = "complex"
                                                       /\ item.value.class = "docParaType")
        lists == FlattenSeq([i \in DOMAIN paras |-> paras[i].value.fields.parameterlist])
        items == FlattenSeq([i \in DOMAIN lists |-> lists[i].fields.parameteritem])
    IN [i \in DOMAIN items |-> ParameterItem(items[i])]

-------------------------------------------------------------------------------
\* Properties

\* The words of an element, those of the elements inside it included, in the order of
\* the document; skip: the elements that do not count.
RECURSIVE Words(_, _)
Words(node, skip) ==
    IF node.kind # "element" THEN <<node.path>>
    ELSE IF node.name \in skip THEN <<>>
    ELSE FlattenSeq([i \in DOMAIN node.kids |-> Words(node.kids[i], skip)])

\* What stands between a description and its words when nothing but Doxygen's own
\* structure does: everything else is markup.
Structure == {"detaileddescription", "para", "title", "sect1", "sect2", "sect3", "sect4",
              "internal", "ref"}
RECURSIVE MarkupIn(_)
MarkupIn(node) ==
    IF node.kind # "element" THEN {}
    ELSE ({node.name} \ Structure) \cup UNION {MarkupIn(node.kids[i]) : i \in DOMAIN node.kids}

IsDescription == status = "done" /\ class = "descriptionType"
Described == SelectSeq(description(built[1]), LAMBDA w : w # Break)

\* The words of a description are those of the comment that no markup encloses, each
\* once and in the order of the comment, with the text of links and of every section in
\* its place (docParaTypeSub keeps content apart from content_, and description_bit
\* takes the one or the other).
PlainWordsInOrder ==
    IsDescription /\ doc.name = "detaileddescription"
        => Described = Words(doc, MarkupIn(doc) \cup {"#cdata-section"})

\* Two paragraphs never run together: between words of different paragraphs stands a
\* blank line (the doctest of doxyxml/__init__.py lines 44 to 47).
RECURSIVE ParaOf(_, _)
ParaOf(node, word) ==
    CASE node.name = "para" -> node.path
      [] node.kids = <<>> -> <<>>
      [] OTHER -> ParaOf(node.kids[word[Len(node.path) + 1]], word)
ParagraphsApart ==
    IsDescription =>
        LET text == description(built[1]) IN
        \A i \in 1..Len(text) - 1 :
            LET para == IF text[i] = Break THEN <<>> ELSE ParaOf(doc, text[i]) IN
            para # <<>> /\ text[i + 1] # Break => ParaOf(doc, text[i + 1]) = para

\* The words under the elements of the comment that are called name.
RECURSIVE Under(_, _)
Under(node, name) ==
    IF node.name = name THEN <<node>>
    ELSE FlattenSeq([i \in DOMAIN node.kids |-> Under(node.kids[i], name)])

\* Every parameter a top-level paragraph documents is found, in order, under the first
\* of its names.
ParametersFound ==
    IsDescription /\ doc.name = "detaileddescription" =>
        LET items == FlattenSeq([i \in DOMAIN doc.kids |->
                         IF doc.kids[i].name = "para" THEN Under(doc.kids[i], "parameteritem")
                         ELSE <<>>])
            found == set_parameters(built[1])
        IN /\ Len(found) = Len(items)
           /\ \A i \in DOMAIN items :
                  /\ found[i].name = <<Head(Words(items[i], {}))>>
                  /\ found[i].description = <<Last(Words(items[i], {}))>>

\* A description is read with its words, its paragraphs and its parameters.
DescriptionFaithful == PlainWordsInOrder /\ ParagraphsApart /\ ParametersFound

===============================================================================
