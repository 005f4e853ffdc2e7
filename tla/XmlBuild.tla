------------------------------- MODULE XmlBuild -------------------------------
(***************************************************************************)
(* How docs/doxygen/doxyxml turns a file of Doxygen's into objects: the    *)
(* build methods of the generated classes (generated/compoundsuper.py and  *)
(* indexsuper.py, with the objects their __init__ makes).  What is taken   *)
(* from the objects is in module DoxygenXml.                               *)
(*                                                                         *)
(* An element is a record with its children; a text is a word, named by    *)
(* its place in the document, so that words are distinct and the order of  *)
(* two words can be told.  Blank text is left out.                         *)
(***************************************************************************)
EXTENDS XmlSchema, Integers, Sequences, FiniteSets

Index == INSTANCE IndexSuper
Compound == INSTANCE CompoundSuper
IndexObjects == INSTANCE IndexInit
CompoundObjects == INSTANCE CompoundInit

CONSTANTS
    Documents,    \* the elements to read, as [file, class, node]
    NodesIn(_)    \* the elements and texts that an element consists of

VARIABLES file,     \* "compound" or "index": which generated module is used
          class,    \* the class of the element
          doc,      \* the element
          stack,    \* the build calls under way, the innermost one last
          built,    \* what the outermost build has returned, at most one object
          status    \* "parse", "build", "done", or the exception raised

vars == <<file, class, doc, stack, built, status>>

-------------------------------------------------------------------------------
\* Documents

Text == [kind |-> "text", name |-> "#text", at |-> "none", path |-> <<>>, kids |-> <<>>]
CData == [Text EXCEPT !.kind = "cdata", !.name = "#cdata-section"]

\* An element.  at: it has no attributes, has those its class knows, or has words
\* where integers are expected.
Element(name, at, kids) ==
    [kind |-> "element", name |-> name, at |-> at, path |-> <<>>, kids |-> kids]

\* The generated classes, by file and name.
ClassNames(f) ==
    IF f = "index" THEN DOMAIN Index!IndexClasses ELSE DOMAIN Compound!CompoundClasses
Classes == {<<"index", c>> : c \in ClassNames("index")}
               \cup {<<"compound", c>> : c \in ClassNames("compound")}

\* What minidom hands to parse: the file is read with the classes of its root, and the children of
\* a node are nodes of the same document.
ASSUME DocumentsAssumption ==
    \A d \in Documents :
        /\ <<d.file, d.class>> \in Classes
        /\ d.node \in NodesIn(d.node)
        /\ \A n \in NodesIn(d.node) :
               /\ n.kids \in Seq(NodesIn(d.node))
               /\ n.kind # "element" => n.name \in {Text.name, CData.name}

-------------------------------------------------------------------------------
\* The classes, with the one subclass whose build does more than its superclass.

\* Mutant: the subclass keeps the text of a paragraph without that of its links.
docParaTypeSub_NoRef ==
    [Compound!docParaType EXCEPT !.kids = [parameterlist |-> Many("docParamListType"),
                                           simplesect |-> Many("docSimpleSectType")]]

docParaTypeSub ==
    [Compound!docParaType EXCEPT !.kids = [ref |-> Mixed("docRefTextType"),
                                  parameterlist |-> Many("docParamListType"),
                                  simplesect |-> Many("docSimpleSectType")]]
docParaTypeSub_init ==
    [CompoundObjects!docParaType EXCEPT !.lists = @ \cup {"parameterlist", "simplesect", "content"}]

ClassNamed(f, c) ==
    CASE f = "index" -> Index!IndexClasses[c]
      [] c = "docParaType" -> docParaTypeSub
      [] OTHER -> Compound!CompoundClasses[c]
ObjectNamed(f, c) ==
    CASE f = "index" -> IndexObjects!IndexObjects[c]
      [] c = "docParaType" -> docParaTypeSub_init
      [] OTHER -> CompoundObjects!CompoundObjects[c]

\* The object a factory returns, with the attributes build has stored: a list for
\* every field, with at most one entry if it is not a list in the code.
Fresh(f, c, node) ==
    LET stored == IF node.at = "none" THEN {} ELSE ClassNamed(f, c).strs \cup ClassNamed(f, c).ints
        o == ObjectNamed(f, c)
        text == IF "value" \in ClassNamed(f, c).text THEN {"valueOf_"} ELSE {}
    IN [class |-> c, path |-> node.path, lists |-> o.lists,
        fields |-> [k \in o.scalars \cup o.lists \cup text |->
                        IF k \in stored THEN <<node.path>> ELSE <<>>]]

BadInteger(c, node) == node.at = "junk" /\ c.ints # {}

\* MixedContainer: one entry of content_.
MixedContainer(category, name, value) ==
    [category |-> category, name |-> name, value |-> value]

\* The field that text and what stands between it are appended to; the paragraph's
\* subclass keeps one of its own, next to the text in its superclass's.
ContentOf(c) == IF c = "docParaType" THEN "content" ELSE "content_"
TextFields(c, text) ==
    IF "content" \in text THEN {"content_", ContentOf(c)} ELSE {}

\* What the enclosing buildChildren does with the object of a child element: the field
\* it goes to, which has to be a list to be appended to.
FieldFor(c, name, how) == IF how \in {"mixed", "mixedString"} THEN ContentOf(c) ELSE name
Appends(how) == how \in {"many", "strings", "mixed", "mixedString"}
Stored(obj, name, how, value) ==
    LET item == CASE how = "mixed" -> MixedContainer("complex", name, value)
                  [] how = "mixedString" -> MixedContainer("simple", name, value)
                  [] OTHER -> value
        f == FieldFor(obj.class, name, how)
    IN [obj EXCEPT !.fields[f] = IF Appends(how) THEN Append(@, item) ELSE <<item>>]
Storable(obj, name, how) == Appends(how) => FieldFor(obj.class, name, how) \in obj.lists

-------------------------------------------------------------------------------
Init ==
    \E d \in Documents :
        /\ file = d.file
        /\ class = d.class
        /\ doc = d.node
        /\ stack = <<>>
        /\ built = <<>>
        /\ status = "parse"

Frame == stack[Len(stack)]
Child == Frame.node.kids[Frame.next]
More == status = "build" /\ Frame.next <= Len(Frame.node.kids)
ClassOf(frame) == ClassNamed(file, frame.class)

\* The way the class of the current object stores children of this name.
Known(node) == node.kind = "element" /\ node.name \in DOMAIN ClassOf(Frame).kids
How == ClassOf(Frame).kids[Child.name].how
IsText(how) == how \in {"string", "strings", "mixedString"}

\* A new object and the call of its build: buildAttributes comes first.
Enter(cname, node) ==
    LET c == ClassNamed(file, cname) IN
    IF BadInteger(c, node)
    THEN status' = "ValueError" /\ UNCHANGED stack
    ELSE /\ stack' = Append(stack, [class |-> cname, node |-> node, next |-> 1,
                                    obj |-> Fresh(file, cname, node)])
         /\ status' = "build"

\* The current object becomes obj and the loop over the children goes on.
Continue(obj) ==
    stack' = [stack EXCEPT ![Len(stack)] = [Frame EXCEPT !.obj = obj, !.next = @ + 1]]

\* parse of compound.py and index.py: the root object is built.
Parse ==
    /\ status = "parse"
    /\ Enter(class, doc)
    /\ UNCHANGED <<file, class, doc, built>>

\* A text child: content_, valueOf_ or both, or neither.
BuildText ==
    /\ More
    /\ Child.kind = "text"
    /\ LET text == ClassOf(Frame).text
           lists == TextFields(Frame.class, text)
       IN IF lists \subseteq Frame.obj.lists
          THEN /\ Continue([Frame.obj EXCEPT !.fields = [k \in DOMAIN @ |->
                      CASE k \in lists -> Append(@[k], MixedContainer("text", "", <<Child.path>>))
                        [] k = "valueOf_" /\ "value" \in text -> Append(@[k], Child.path)
                        [] OTHER -> @[k]]])
               /\ UNCHANGED status
          ELSE status' = "AttributeError" /\ UNCHANGED stack
    /\ UNCHANGED <<file, class, doc, built>>

\* A CDATA child is kept in valueOf_ only.
BuildCData ==
    /\ More
    /\ Child.kind = "cdata"
    /\ Continue(IF "value" \in ClassOf(Frame).text
                THEN [Frame.obj EXCEPT !.fields.valueOf_ = Append(@, Child.path)]
                ELSE Frame.obj)
    /\ UNCHANGED <<file, class, doc, built, status>>

\* A child that is read as a string: the nodeValue of its children is joined, and that
\* of an element is None, which cannot be.
BuildString ==
    /\ More
    /\ Known(Child)
    /\ IsText(How)
    /\ IF \E i \in DOMAIN Child.kids : Child.kids[i].kind = "element"
       THEN status' = "TypeError" /\ UNCHANGED stack
       ELSE IF ~Storable(Frame.obj, Child.name, How)
       THEN status' = "AttributeError" /\ UNCHANGED stack
       ELSE /\ Continue(Stored(Frame.obj, Child.name, How,
                               [i \in DOMAIN Child.kids |-> Child.kids[i].path]))
            /\ UNCHANGED status
    /\ UNCHANGED <<file, class, doc, built>>

\* A child element with a class of its own.
BuildElement ==
    /\ More
    /\ Known(Child)
    /\ ~IsText(How)
    /\ Enter(ClassOf(Frame).kids[Child.name].class, Child)
    /\ UNCHANGED <<file, class, doc, built>>

\* No branch of buildChildren takes the child: it is dropped with all it contains.
Skip ==
    /\ More
    /\ Child.kind = "element"
    /\ ~Known(Child)
    /\ Continue(Frame.obj)
    /\ UNCHANGED <<file, class, doc, built, status>>

\* Mutant: parse builds the root object and does not return it.
Return_Nothing ==
    /\ status = "build"
    /\ Frame.next > Len(Frame.node.kids)
    /\ Len(stack) = 1
    /\ stack' = <<>>
    /\ status' = "done"
    /\ UNCHANGED <<file, class, doc, built>>

\* build returns: the caller stores the object, or parse returns it.
Return ==
    /\ status = "build"
    /\ Frame.next > Len(Frame.node.kids)
    /\ IF Len(stack) = 1
       THEN /\ built' = <<Frame.obj>>
            /\ stack' = <<>>
            /\ status' = "done"
       ELSE LET caller == stack[Len(stack) - 1]
                name == Frame.node.name
                how == ClassOf(caller).kids[name].how
            IN /\ IF Storable(caller.obj, name, how)
                  THEN /\ stack' = Append(SubSeq(stack, 1, Len(stack) - 2),
                                  [caller EXCEPT !.obj = Stored(@, name, how, Frame.obj),
                                                 !.next = @ + 1])
                       /\ UNCHANGED status
                  ELSE status' = "AttributeError" /\ UNCHANGED stack
               /\ UNCHANGED built
    /\ UNCHANGED <<file, class, doc>>

Next == Parse \/ BuildText \/ BuildCData \/ BuildString \/ BuildElement \/ Skip \/ Return

Spec == Init /\ [][Next]_vars

-------------------------------------------------------------------------------
\* Properties

Stuck == {"TypeError", "ValueError", "AttributeError"}

TypeOK ==
    /\ status \in {"parse", "build", "done"} \cup Stuck
    /\ Len(built) <= 1 /\ (built # <<>> <=> status = "done")
    /\ (status = "build") => stack # <<>>
    /\ \A i \in DOMAIN stack :
           /\ stack[i].next \in 1..Len(stack[i].node.kids) + 1
           /\ stack[i].obj.class = stack[i].class
           /\ stack[i].obj.lists \subseteq DOMAIN stack[i].obj.fields

\* The lists that doxyindex.py, base.py and update_pydoc.py loop over.
Loops == {<<"index", "DoxygenType", "compound">>, <<"compound", "compounddefType", "sectiondef">>,
          <<"compound", "compounddefType", "innergroup">>,
          <<"compound", "compounddefType", "innerclass">>,
          <<"compound", "sectiondefType", "memberdef">>, <<"compound", "memberdefType", "param">>,
          <<"compound", "docParaType", "parameterlist">>,
          <<"compound", "docParamListType", "parameteritem">>,
          <<"compound", "docParamListItem", "parameternamelist">>,
          <<"compound", "docParamNameList", "parametername">>}

\* A loop over members, parameters or compounds meets every one of the file, in its
\* order: no child element that may repeat is overwritten by the next one.
LoopsMissNothing ==
    \A i \in DOMAIN stack : \A l \in Loops :
        l[1] = file /\ l[2] = stack[i].class =>
            LET kids == stack[i].node.kids
                seen == stack[i].next - 1
                named(n) == {j \in 1..n : kids[j].name = l[3]}
                list == stack[i].obj.fields[l[3]]
            IN /\ Len(list) = Cardinality(named(seen))
               /\ \A j \in named(seen) : list[Cardinality(named(j))].path = kids[j].path

\* Whether an element of the document d of file f holds a defect when it is read as an
\* object of the class: a word where the class has an integer, or markup where it has a
\* string, in any element that is read.
Defective(f, d) ==
    LET holds[r \in ClassNames(f) \X NodesIn(d)] ==
            LET c == ClassNamed(f, r[1])
                kids == r[2].kids
            IN \/ BadInteger(c, r[2])
               \/ \E i \in DOMAIN kids :
                      /\ kids[i].kind = "element" /\ kids[i].name \in DOMAIN c.kids
                      /\ LET branch == c.kids[kids[i].name] IN
                         IF IsText(branch.how)
                         THEN \E j \in DOMAIN kids[i].kids : kids[i].kids[j].kind = "element"
                         ELSE holds[<<branch.class, kids[i]>>]
    IN holds

\* A build fails exactly when an element that is read has a word for an integer or
\* markup for a string: what no class reads can hold anything (the update may meet
\* elements newer than the Doxygen of 2009 the classes were generated for), and no
\* build appends to a field that its __init__ did not make a list.
FailsOnlyOnDefects ==
    /\ status \in Stuck => Defective(file, doc)[<<class, doc>>]
    /\ status = "done" => ~Defective(file, doc)[<<class, doc>>]

===============================================================================
