------------------------------- MODULE XmlSchema -------------------------------
(***************************************************************************)
(* The shapes a class that generateDS wrote can have: what its             *)
(* buildAttributes and buildChildren do with an attribute, a child element *)
(* and a text, given by data.  Modules CompoundSuper and IndexSuper list   *)
(* the classes, CompoundInit and IndexInit the objects they make.          *)
(***************************************************************************)
\* How buildChildren stores a child element of a given name: in a field that the
\* next one overwrites, at the end of a list, in content_ between the text around it,
\* or as the text it contains.
One(class) == [how |-> "one", class |-> class]
Many(class) == [how |-> "many", class |-> class]
Mixed(class) == [how |-> "mixed", class |-> class]
String == [how |-> "string", class |-> "none"]
Strings == [how |-> "strings", class |-> "none"]
MixedString == [how |-> "mixedString", class |-> "none"]
NoKids == << >>

\* Where buildChildren puts text between the elements: nowhere, in content_, in
\* valueOf_, or in both.
NoText == {}
Content == {"content"}
Value == {"value"}
Both == {"content", "value"}

\* strs and ints: the attributes buildAttributes stores as they are, and those it
\* turns into an integer.
Class(strs, ints, text, kids) ==
    [strs |-> strs, ints |-> ints, text |-> text, kids |-> kids]

\* The object a class makes: its fields that are None or a text, and its lists.
Object(scalars, lists) == [scalars |-> scalars, lists |-> lists]

================================================================================
