----------------------------- MODULE MCDoxygenXml -----------------------------
(***************************************************************************)
(* Documents for DoxygenXml: elements of every class with up to two        *)
(* children of every kind the class reads or does not read, and            *)
(* descriptions with up to two paragraphs or sections.                     *)
(***************************************************************************)
EXTENDS DoxygenXml

Named(name, kids) == Element(name, "ok", kids)
UpTo2(S) == {<<>>} \cup {<<a>> : a \in S} \cup {<<a, b>> : a \in S, b \in S}

\* The children an element of class c may have: text, an element nothing reads (with
\* defects a reader would stumble on), and the elements the class reads, sound and not.
Children(c) ==
    {Text, CData, Named("bold", <<Text>>), Element("bold", "junk", <<Named("sub", <<>>)>>)}
        \cup {Named(k, <<Text>>) : k \in DOMAIN c.kids}
        \cup {Named(k, <<Named("bold", <<>>)>>) : k \in {n \in DOMAIN c.kids : IsText(c.kids[n].how)}}
        \cup {Element(k, "junk", <<Text>>) : k \in {n \in DOMAIN c.kids : ~IsText(c.kids[n].how)}}

Shallow ==
    UNION {LET c == ClassNamed(fc[1], fc[2]) IN
           {[file |-> fc[1], class |-> fc[2], node |-> Named("element", s)] : s \in UpTo2(Children(c))}
           \cup {[file |-> fc[1], class |-> fc[2], node |-> Element("element", at, <<>>)] :
                     at \in {"none", "junk"}} : fc \in Classes}

Para(kids) == Named("para", kids)
Names(n) == Named("parameternamelist", [i \in 1..n |-> Named("parametername", <<Text>>)])
Parameter(n) == Named("parameteritem",
                      <<Names(n), Named("parameterdescription", <<Para(<<Text>>)>>)>>)
Parameters == Named("parameterlist", <<Parameter(1), Parameter(2)>>)
Inline == {Text, Named("ref", <<Text>>), Named("bold", <<Text>>), Parameters,
           Named("simplesect", <<Para(<<Text>>)>>)}
Section(name, rest) == Named(name, <<Named("title", <<Text>>), Para(<<Text>>)>> \o rest)

Paragraphs == {Para(s) : s \in UpTo2(Inline)}
Blocks == {Section("sect1", <<Section("sect2", <<>>)>>),
           Named("internal", <<Para(<<Text>>), Section("sect1", <<>>)>>)}
Descriptions ==
    {[file |-> "compound", class |-> "descriptionType", node |-> Named("detaileddescription", s)] :
         s \in UpTo2(Paragraphs \cup Blocks)
               \cup {<<Para(<<a, b, c>>)>> : a \in Inline, b \in Inline, c \in Inline}}

\* The document with every node named by its place.
RECURSIVE Numbered(_, _)
Numbered(node, path) ==
    [node EXCEPT !.path = path,
                 !.kids = [i \in DOMAIN node.kids |-> Numbered(node.kids[i], Append(path, i))]]

MCDocuments == {[d EXCEPT !.node = Numbered(@, <<>>)] : d \in Shallow \cup Descriptions}

RECURSIVE MCNodesIn(_)
MCNodesIn(node) == {node} \cup UNION {MCNodesIn(node.kids[i]) : i \in DOMAIN node.kids}

===============================================================================
