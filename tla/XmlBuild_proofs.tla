---------------------------- MODULE XmlBuild_proofs ----------------------------
(***************************************************************************)
(* The build methods of docs/doxygen/doxyxml/generated fail only on        *)
(* documents with a defect, keep every element that a reader loops over    *)
(* and keep their objects in order, for documents of any size.             *)
(*                                                                         *)
(* The tables of the classes are looked into once, class by class: a class *)
(* appends only to lists, and the objects it reads have classes of their   *)
(* own.  After that the walk is proved correct for any tables like that.   *)
(***************************************************************************)
EXTENDS XmlBuild, FiniteSetTheorems, SequenceTheorems, TLAPS

\* What DocumentsAssumption says of a document and the parts of it.
Readable(f, d) ==
    /\ f \in {"index", "compound"}
    /\ d \in NodesIn(d)
    /\ \A n \in NodesIn(d) :
           /\ n.kids \in Seq(NodesIn(d))
           /\ n.kind # "element" => n.name \in {"#text", "#cdata-section"}

-----------------------------------------------------------------------------
(* The tables *)

\* Text goes to lists, what is appended goes to a list, and a child that becomes an object has a
\* class.
Fits(f, c) ==
    LET C == ClassNamed(f, c)
        lists == ObjectNamed(f, c).lists
    IN /\ "content" \in C.text => {"content_", ContentOf(c)} \subseteq lists
       /\ \A k \in DOMAIN C.kids :
              /\ ~IsText(C.kids[k].how) => C.kids[k].class \in ClassNames(f)
              /\ Appends(C.kids[k].how) => FieldFor(c, k, C.kids[k].how) \in lists

\* The classes of index.xml.
LEMMA IndexFits == \A c \in ClassNames("index") : Fits("index", c)
<1> USE DEF Fits, ClassNamed, ObjectNamed, ContentOf, IsText, Appends, FieldFor, ClassNames,
            Index!IndexClasses, IndexObjects!IndexObjects, Index!Class, IndexObjects!Object,
            Index!NoText, Index!String, Index!Many
<1>1. Fits("index", "DoxygenType")
  BY DEF Index!DoxygenType, IndexObjects!DoxygenType
<1>2. Fits("index", "CompoundType")
  BY DEF Index!CompoundType, IndexObjects!CompoundType
<1>3. Fits("index", "MemberType")
  BY DEF Index!MemberType, IndexObjects!MemberType
<1> HIDE DEF Fits
<1> QED
  BY <1>1, <1>2, <1>3

\* The classes of the other files, with the subclass of doxyxml.
LEMMA CompoundFits == \A c \in ClassNames("compound") : Fits("compound", c)
<1> USE DEF Fits, ClassNamed, ObjectNamed, ContentOf, IsText, Appends, FieldFor, ClassNames,
            Compound!CompoundClasses, CompoundObjects!CompoundObjects, Compound!Class,
            CompoundObjects!Object, Compound!NoText, Compound!Content, Compound!Value,
            Compound!Both, Compound!NoKids, Compound!One, Compound!Many, Compound!Mixed,
            Compound!String, Compound!Strings, Compound!MixedString
<1>1. Fits("compound", "DoxygenType")
  BY DEF Compound!DoxygenType, CompoundObjects!DoxygenType
<1>2. Fits("compound", "compounddefType")
  BY DEF Compound!compounddefType, CompoundObjects!compounddefType
<1>3. Fits("compound", "listofallmembersType")
  BY DEF Compound!listofallmembersType, CompoundObjects!listofallmembersType
<1>4. Fits("compound", "memberRefType")
  BY DEF Compound!memberRefType, CompoundObjects!memberRefType
<1>5. Fits("compound", "scope")
  BY DEF Compound!scope, CompoundObjects!scope
<1>6. Fits("compound", "name")
  BY DEF Compound!name, CompoundObjects!name
<1>7. Fits("compound", "compoundRefType")
  BY DEF Compound!compoundRefType, CompoundObjects!compoundRefType
<1>8. Fits("compound", "reimplementType")
  BY DEF Compound!reimplementType, CompoundObjects!reimplementType
<1>9. Fits("compound", "incType")
  BY DEF Compound!incType, CompoundObjects!incType
<1>10. Fits("compound", "refType")
  BY DEF Compound!refType, CompoundObjects!refType
<1>11. Fits("compound", "refTextType")
  BY DEF Compound!refTextType, CompoundObjects!refTextType
<1>12. Fits("compound", "sectiondefType")
  BY DEF Compound!sectiondefType, CompoundObjects!sectiondefType
<1>13. Fits("compound", "memberdefType")
  BY DEF Compound!memberdefType, CompoundObjects!memberdefType
<1>14. Fits("compound", "definition")
  BY DEF Compound!definition, CompoundObjects!definition
<1>15. Fits("compound", "argsstring")
  BY DEF Compound!argsstring, CompoundObjects!argsstring
<1>16. Fits("compound", "read")
  BY DEF Compound!read, CompoundObjects!read
<1>17. Fits("compound", "write")
  BY DEF Compound!write, CompoundObjects!write
<1>18. Fits("compound", "bitfield")
  BY DEF Compound!bitfield, CompoundObjects!bitfield
<1>19. Fits("compound", "descriptionType")
  BY DEF Compound!descriptionType, CompoundObjects!descriptionType
<1>20. Fits("compound", "enumvalueType")
  BY DEF Compound!enumvalueType, CompoundObjects!enumvalueType
<1>21. Fits("compound", "templateparamlistType")
  BY DEF Compound!templateparamlistType, CompoundObjects!templateparamlistType
<1>22. Fits("compound", "paramType")
  BY DEF Compound!paramType, CompoundObjects!paramType
<1>23. Fits("compound", "declname")
  BY DEF Compound!declname, CompoundObjects!declname
<1>24. Fits("compound", "defname")
  BY DEF Compound!defname, CompoundObjects!defname
<1>25. Fits("compound", "array")
  BY DEF Compound!array, CompoundObjects!array
<1>26. Fits("compound", "linkedTextType")
  BY DEF Compound!linkedTextType, CompoundObjects!linkedTextType
<1>27. Fits("compound", "graphType")
  BY DEF Compound!graphType, CompoundObjects!graphType
<1>28. Fits("compound", "nodeType")
  BY DEF Compound!nodeType, CompoundObjects!nodeType
<1>29. Fits("compound", "label")
  BY DEF Compound!label, CompoundObjects!label
<1>30. Fits("compound", "childnodeType")
  BY DEF Compound!childnodeType, CompoundObjects!childnodeType
<1>31. Fits("compound", "edgelabel")
  BY DEF Compound!edgelabel, CompoundObjects!edgelabel
<1>32. Fits("compound", "linkType")
  BY DEF Compound!linkType, CompoundObjects!linkType
<1>33. Fits("compound", "listingType")
  BY DEF Compound!listingType, CompoundObjects!listingType
<1>34. Fits("compound", "codelineType")
  BY DEF Compound!codelineType, CompoundObjects!codelineType
<1>35. Fits("compound", "highlightType")
  BY DEF Compound!highlightType, CompoundObjects!highlightType
<1>36. Fits("compound", "sp")
  BY DEF Compound!sp, CompoundObjects!sp
<1>37. Fits("compound", "referenceType")
  BY DEF Compound!referenceType, CompoundObjects!referenceType
<1>38. Fits("compound", "locationType")
  BY DEF Compound!locationType, CompoundObjects!locationType
<1>39. Fits("compound", "docSect1Type")
  BY DEF Compound!docSect1Type, CompoundObjects!docSect1Type
<1>40. Fits("compound", "docSect2Type")
  BY DEF Compound!docSect2Type, CompoundObjects!docSect2Type
<1>41. Fits("compound", "docSect3Type")
  BY DEF Compound!docSect3Type, CompoundObjects!docSect3Type
<1>42. Fits("compound", "docSect4Type")
  BY DEF Compound!docSect4Type, CompoundObjects!docSect4Type
<1>43. Fits("compound", "docInternalType")
  BY DEF Compound!docInternalType, CompoundObjects!docInternalType
<1>44. Fits("compound", "docInternalS1Type")
  BY DEF Compound!docInternalS1Type, CompoundObjects!docInternalS1Type
<1>45. Fits("compound", "docInternalS2Type")
  BY DEF Compound!docInternalS2Type, CompoundObjects!docInternalS2Type
<1>46. Fits("compound", "docInternalS3Type")
  BY DEF Compound!docInternalS3Type, CompoundObjects!docInternalS3Type
<1>47. Fits("compound", "docInternalS4Type")
  BY DEF Compound!docInternalS4Type, CompoundObjects!docInternalS4Type
<1>48. Fits("compound", "docTitleType")
  BY DEF Compound!docTitleType, CompoundObjects!docTitleType
<1>49. Fits("compound", "docParaType")
  BY DEF docParaTypeSub, docParaTypeSub_init, Compound!docParaType, CompoundObjects!docParaType,
         Many, Mixed
<1>50. Fits("compound", "docMarkupType")
  BY DEF Compound!docMarkupType, CompoundObjects!docMarkupType
<1>51. Fits("compound", "docURLLink")
  BY DEF Compound!docURLLink, CompoundObjects!docURLLink
<1>52. Fits("compound", "docAnchorType")
  BY DEF Compound!docAnchorType, CompoundObjects!docAnchorType
<1>53. Fits("compound", "docFormulaType")
  BY DEF Compound!docFormulaType, CompoundObjects!docFormulaType
<1>54. Fits("compound", "docIndexEntryType")
  BY DEF Compound!docIndexEntryType, CompoundObjects!docIndexEntryType
<1>55. Fits("compound", "docListType")
  BY DEF Compound!docListType, CompoundObjects!docListType
<1>56. Fits("compound", "docListItemType")
  BY DEF Compound!docListItemType, CompoundObjects!docListItemType
<1>57. Fits("compound", "docSimpleSectType")
  BY DEF Compound!docSimpleSectType, CompoundObjects!docSimpleSectType
<1>58. Fits("compound", "docVarListEntryType")
  BY DEF Compound!docVarListEntryType, CompoundObjects!docVarListEntryType
<1>59. Fits("compound", "docVariableListType")
  BY DEF Compound!docVariableListType, CompoundObjects!docVariableListType
<1>60. Fits("compound", "docRefTextType")
  BY DEF Compound!docRefTextType, CompoundObjects!docRefTextType
<1>61. Fits("compound", "docTableType")
  BY DEF Compound!docTableType, CompoundObjects!docTableType
<1>62. Fits("compound", "docRowType")
  BY DEF Compound!docRowType, CompoundObjects!docRowType
<1>63. Fits("compound", "docEntryType")
  BY DEF Compound!docEntryType, CompoundObjects!docEntryType
<1>64. Fits("compound", "docCaptionType")
  BY DEF Compound!docCaptionType, CompoundObjects!docCaptionType
<1>65. Fits("compound", "docHeadingType")
  BY DEF Compound!docHeadingType, CompoundObjects!docHeadingType
<1>66. Fits("compound", "docImageType")
  BY DEF Compound!docImageType, CompoundObjects!docImageType
<1>67. Fits("compound", "docDotFileType")
  BY DEF Compound!docDotFileType, CompoundObjects!docDotFileType
<1>68. Fits("compound", "docTocItemType")
  BY DEF Compound!docTocItemType, CompoundObjects!docTocItemType
<1>69. Fits("compound", "docTocListType")
  BY DEF Compound!docTocListType, CompoundObjects!docTocListType
<1>70. Fits("compound", "docLanguageType")
  BY DEF Compound!docLanguageType, CompoundObjects!docLanguageType
<1>71. Fits("compound", "docParamListType")
  BY DEF Compound!docParamListType, CompoundObjects!docParamListType
<1>72. Fits("compound", "docParamListItem")
  BY DEF Compound!docParamListItem, CompoundObjects!docParamListItem
<1>73. Fits("compound", "docParamNameList")
  BY DEF Compound!docParamNameList, CompoundObjects!docParamNameList
<1>74. Fits("compound", "docParamName")
  BY DEF Compound!docParamName, CompoundObjects!docParamName
<1>75. Fits("compound", "docXRefSectType")
  BY DEF Compound!docXRefSectType, CompoundObjects!docXRefSectType
<1>76. Fits("compound", "docCopyType")
  BY DEF Compound!docCopyType, CompoundObjects!docCopyType
<1>77. Fits("compound", "docCharType")
  BY DEF Compound!docCharType, CompoundObjects!docCharType
<1>78. Fits("compound", "docEmptyType")
  BY DEF Compound!docEmptyType, CompoundObjects!docEmptyType
<1> HIDE DEF Fits
<1> QED
  BY <1>1, <1>2, <1>3, <1>4, <1>5, <1>6, <1>7, <1>8, <1>9, <1>10, <1>11, <1>12, <1>13, <1>14,
     <1>15, <1>16, <1>17, <1>18, <1>19, <1>20, <1>21, <1>22, <1>23, <1>24, <1>25, <1>26,
     <1>27, <1>28, <1>29, <1>30, <1>31, <1>32, <1>33, <1>34, <1>35, <1>36, <1>37, <1>38,
     <1>39, <1>40, <1>41, <1>42, <1>43, <1>44, <1>45, <1>46, <1>47, <1>48, <1>49, <1>50,
     <1>51, <1>52, <1>53, <1>54, <1>55, <1>56, <1>57, <1>58, <1>59, <1>60, <1>61, <1>62,
     <1>63, <1>64, <1>65, <1>66, <1>67, <1>68, <1>69, <1>70, <1>71, <1>72, <1>73, <1>74,
     <1>75, <1>76, <1>77, <1>78

\* All the classes.
LEMMA TablesFit == \A f \in {"index", "compound"} : \A c \in ClassNames(f) : Fits(f, c)
  BY IndexFits, CompoundFits

\* A loop over the field k of an object of class c: build appends to it for every child element of
\* that name and for nothing else.
LoopFits(f, c, k) ==
    LET C == ClassNamed(f, c) IN
    /\ c \in ClassNames(f)
    /\ k \in DOMAIN C.kids /\ C.kids[k].how = "many"
    /\ k \in ObjectNamed(f, c).lists
    /\ k \notin C.strs \cup C.ints
    /\ k \notin {"content", "content_", "valueOf_", "#text", "#cdata-section"}

\* Each of the loops of the readers is one.
LEMMA LoopsFit == \A l \in Loops : LoopFits(l[1], l[2], l[3])
<1> USE DEF LoopFits, ClassNamed, ObjectNamed, ClassNames, Many,
            Index!IndexClasses, IndexObjects!IndexObjects, Index!Class, IndexObjects!Object,
            Index!Many, Compound!CompoundClasses, CompoundObjects!CompoundObjects,
            Compound!Class, CompoundObjects!Object, Compound!Many, Compound!String, Compound!One
<1>1. LoopFits("index", "DoxygenType", "compound")
  BY DEF Index!DoxygenType, IndexObjects!DoxygenType
<1>2. LoopFits("compound", "compounddefType", "sectiondef")
  BY DEF Compound!compounddefType, CompoundObjects!compounddefType
<1>3. LoopFits("compound", "compounddefType", "innergroup")
  BY DEF Compound!compounddefType, CompoundObjects!compounddefType
<1>4. LoopFits("compound", "compounddefType", "innerclass")
  BY DEF Compound!compounddefType, CompoundObjects!compounddefType
<1>5. LoopFits("compound", "sectiondefType", "memberdef")
  BY DEF Compound!sectiondefType, CompoundObjects!sectiondefType
<1>6. LoopFits("compound", "memberdefType", "param")
  BY DEF Compound!memberdefType, CompoundObjects!memberdefType
<1>7. LoopFits("compound", "docParaType", "parameterlist")
  BY DEF docParaTypeSub, docParaTypeSub_init, Compound!docParaType, CompoundObjects!docParaType
<1>8. LoopFits("compound", "docParamListType", "parameteritem")
  BY DEF Compound!docParamListType, CompoundObjects!docParamListType
<1>9. LoopFits("compound", "docParamListItem", "parameternamelist")
  BY DEF Compound!docParamListItem, CompoundObjects!docParamListItem
<1>10. LoopFits("compound", "docParamNameList", "parametername")
  BY DEF Compound!docParamNameList, CompoundObjects!docParamNameList
<1> HIDE DEF LoopFits
<1> QED
  BY <1>1, <1>2, <1>3, <1>4, <1>5, <1>6, <1>7, <1>8, <1>9, <1>10 DEF Loops

-----------------------------------------------------------------------------
(* Defects *)

\* The class of the object reads the child.
Reads(f, c, kid) == kid.kind = "element" /\ kid.name \in DOMAIN ClassNamed(f, c).kids
BranchOf(f, c, kid) == ClassNamed(f, c).kids[kid.name]
HasElement(n) == \E j \in DOMAIN n.kids : n.kids[j].kind = "element"

\* Read as an object of class c, the child brings a defect with it; D: the pairs of a class and
\* an element that hold one.
Harms(f, c, kid, D) ==
    /\ Reads(f, c, kid)
    /\ IF IsText(BranchOf(f, c, kid).how) THEN HasElement(kid)
       ELSE <<BranchOf(f, c, kid).class, kid>> \in D
Broken(f, r, D) ==
    \/ BadInteger(ClassNamed(f, r[1]), r[2])
    \/ \E i \in DOMAIN r[2].kids : Harms(f, r[1], r[2].kids[i], D)

\* The pairs of a class and an element that hold a defect.
Defects(f, d) == {r \in ClassNames(f) \X NodesIn(d) : Defective(f, d)[r]}

\* Defective is a recursive function: that there is one has to be shown before its equation can be
\* used.  The largest set of pairs each of which is broken by others of the set is one.
LEMMA Unfold ==
    ASSUME NEW f, NEW d, Readable(f, d)
    PROVE  \A r \in ClassNames(f) \X NodesIn(d) :
               Defective(f, d)[r] <=> Broken(f, r, Defects(f, d))
<1> DEFINE S == ClassNames(f) \X NodesIn(d)
           Closed == {D \in SUBSET S : \A r \in D : Broken(f, r, D)}
           G == UNION Closed
           body(h, r) ==
               \/ BadInteger(ClassNamed(f, r[1]), r[2])
               \/ \E i \in DOMAIN r[2].kids :
                      /\ r[2].kids[i].kind = "element"
                      /\ r[2].kids[i].name \in DOMAIN ClassNamed(f, r[1]).kids
                      /\ IF IsText(ClassNamed(f, r[1]).kids[r[2].kids[i].name].how)
                         THEN \E j \in DOMAIN r[2].kids[i].kids :
                                  r[2].kids[i].kids[j].kind = "element"
                         ELSE h[<<ClassNamed(f, r[1]).kids[r[2].kids[i].name].class, r[2].kids[i]>>]
           Is(h) == h = [r \in S |-> body(h, r)]
<1>1. \A D, E, r : D \subseteq E /\ Broken(f, r, D) => Broken(f, r, E)
  BY DEF Broken, Harms
<1>2. G \in SUBSET S /\ \A r \in G : Broken(f, r, G)
  BY <1>1
<1>3. \A r \in S : Broken(f, r, G) => r \in G
  <2> SUFFICES ASSUME NEW r \in S, Broken(f, r, G) PROVE r \in G
    OBVIOUS
  <2>1. G \cup {r} \in Closed
    BY <1>1, <1>2
  <2> HIDE DEF Closed
  <2> QED
    BY <2>1
\* What a class reads as an object is in S.
<1>4. \A r \in S : \A i \in DOMAIN r[2].kids :
          Reads(f, r[1], r[2].kids[i]) /\ ~IsText(BranchOf(f, r[1], r[2].kids[i]).how)
              => <<BranchOf(f, r[1], r[2].kids[i]).class, r[2].kids[i]>> \in S
  <2> SUFFICES ASSUME NEW r \in S, NEW i \in DOMAIN r[2].kids, Reads(f, r[1], r[2].kids[i]),
                      ~IsText(BranchOf(f, r[1], r[2].kids[i]).how)
               PROVE  <<BranchOf(f, r[1], r[2].kids[i]).class, r[2].kids[i]>> \in S
    BY Zenon
  <2>1. r[1] \in ClassNames(f) /\ r[2] \in NodesIn(d)
    OBVIOUS
  <2>2. r[2].kids \in Seq(NodesIn(d)) /\ f \in {"index", "compound"}
    BY <2>1 DEF Readable
  <2>3. r[2].kids[i] \in NodesIn(d)
    BY <2>2
  <2>4. Fits(f, r[1])
    BY <2>1, <2>2, TablesFit
  <2>5. BranchOf(f, r[1], r[2].kids[i]).class \in ClassNames(f)
    BY <2>4, Zenon DEF Fits, Reads, BranchOf
  <2> QED
    BY <2>3, <2>5
<1> HIDE DEF G, Closed
<1>5. ASSUME NEW h, NEW r \in S
      PROVE  body(h, r) <=> Broken(f, r, {x \in S : h[x]})
  <2>1. \A i \in DOMAIN r[2].kids :
           Reads(f, r[1], r[2].kids[i]) /\ ~IsText(BranchOf(f, r[1], r[2].kids[i]).how)
           => (h[<<BranchOf(f, r[1], r[2].kids[i]).class, r[2].kids[i]>>]
                <=> <<BranchOf(f, r[1], r[2].kids[i]).class, r[2].kids[i]>> \in {x \in S : h[x]})
    BY <1>4
  <2> HIDE DEF S
  <2> QED
    BY <2>1, Zenon DEF Broken, Harms, Reads, BranchOf, HasElement
<1> DEFINE g == [r \in S |-> r \in G]
<1>6. {x \in S : g[x]} = G
  BY <1>2
<1>7. \A r \in S : body(g, r) <=> r \in G
  <2> HIDE DEF body, g
  <2> QED
    BY <1>2, <1>3, <1>5, <1>6
<1>8. Is(g)
  <2>1. \A r \in S : body(g, r) \in BOOLEAN
    OBVIOUS
  <2>2. g = [r \in S |-> r \in G]
    OBVIOUS
  <2> HIDE DEF body, g
  <2>3. [r \in S |-> r \in G] = [r \in S |-> body(g, r)]
    BY <1>7, <2>1
  <2>4. g = [r \in S |-> body(g, r)]
    BY <2>2, <2>3, Zenon
  <2> QED
    BY <2>4
<1>9. Is(Defective(f, d))
  <2>1. Defective(f, d) = CHOOSE h : Is(h)
    BY DEF Defective
  <2> HIDE DEF g, Is
  <2> QED
    BY <1>8, <2>1
<1>10. \A r \in S : Defective(f, d)[r] = body(Defective(f, d), r)
  <2> HIDE DEF body
  <2> QED
    BY <1>9
<1> HIDE DEF body, Is, g
<1> QED
  BY <1>5, <1>10 DEF Defects

-----------------------------------------------------------------------------
(* The loops *)

\* The first n children that are called k, and the field in which they are kept.
NamedUpTo(node, n, k) == {i \in 1..n : node.kids[i].name = k}
Gathered(fr, k) ==
    LET list == fr.obj.fields[k] IN
    /\ \E S : list \in Seq(S)
    /\ Len(list) = Cardinality(NamedUpTo(fr.node, fr.next - 1, k))
    /\ \A i \in NamedUpTo(fr.node, fr.next - 1, k) :
           list[Cardinality(NamedUpTo(fr.node, i, k))].path = fr.node.kids[i].path

\* One child more is one more of that name, or none.
LEMMA NamedCount ==
    ASSUME NEW node, NEW k, NEW n \in Nat
    PROVE  /\ IsFiniteSet(NamedUpTo(node, n, k)) /\ Cardinality(NamedUpTo(node, n, k)) \in Nat
           /\ Cardinality(NamedUpTo(node, 0, k)) = 0
           /\ node.kids[n + 1].name = k =>
                  Cardinality(NamedUpTo(node, n + 1, k)) = Cardinality(NamedUpTo(node, n, k)) + 1
           /\ node.kids[n + 1].name # k => NamedUpTo(node, n + 1, k) = NamedUpTo(node, n, k)
           /\ \A i \in NamedUpTo(node, n, k) :
                  Cardinality(NamedUpTo(node, i, k)) \in 1..Cardinality(NamedUpTo(node, n, k))
<1>1. ASSUME NEW m \in Nat
      PROVE  IsFiniteSet(NamedUpTo(node, m, k)) /\ Cardinality(NamedUpTo(node, m, k)) \in Nat
  <2>1. IsFiniteSet(1..m)
    BY FS_Interval
  <2>2. NamedUpTo(node, m, k) \subseteq 1..m
    BY DEF NamedUpTo
  <2>3. IsFiniteSet(NamedUpTo(node, m, k))
    BY <2>1, <2>2, FS_Subset
  <2> QED
    BY <2>3, FS_CardinalityType
<1>2. Cardinality(NamedUpTo(node, 0, k)) = 0
  <2>1. NamedUpTo(node, 0, k) = {}
    BY DEF NamedUpTo
  <2> QED
    BY <2>1, FS_EmptySet
<1>3. ASSUME node.kids[n + 1].name = k
      PROVE  Cardinality(NamedUpTo(node, n + 1, k)) = Cardinality(NamedUpTo(node, n, k)) + 1
  <2>1. NamedUpTo(node, n + 1, k) = NamedUpTo(node, n, k) \cup {n + 1}
    BY <1>3 DEF NamedUpTo
  <2>2. n + 1 \notin NamedUpTo(node, n, k)
    BY DEF NamedUpTo
  <2> QED
    BY <1>1, <2>1, <2>2, FS_AddElement
<1>4. ASSUME node.kids[n + 1].name # k
      PROVE  NamedUpTo(node, n + 1, k) = NamedUpTo(node, n, k)
  BY <1>4 DEF NamedUpTo
<1>5. ASSUME NEW i \in NamedUpTo(node, n, k)
      PROVE  Cardinality(NamedUpTo(node, i, k)) \in 1..Cardinality(NamedUpTo(node, n, k))
  <2>1. i \in 1..n /\ i \in Nat /\ i \in NamedUpTo(node, i, k)
        /\ NamedUpTo(node, i, k) \subseteq NamedUpTo(node, n, k)
    BY DEF NamedUpTo
  <2>2. Cardinality(NamedUpTo(node, i, k)) <= Cardinality(NamedUpTo(node, n, k))
    BY <1>1, <2>1, FS_Subset
  <2>3. Cardinality(NamedUpTo(node, i, k)) # 0
    BY <1>1, <2>1, FS_EmptySet
  <2> QED
    BY <1>1, <2>1, <2>2, <2>3
<1> QED
  BY <1>1, <1>2, <1>3, <1>4, <1>5

\* The field keeps up with the loop over the children if the object of a child of that name
\* is appended and nothing else is.
LEMMA GatherMore ==
    ASSUME NEW old, NEW new, NEW k, NEW item, Gathered(old, k), old.next \in Nat \ {0},
           new.node = old.node, new.next = old.next + 1,
           new.obj.fields[k] = IF old.node.kids[old.next].name = k
                               THEN Append(old.obj.fields[k], item) ELSE old.obj.fields[k],
           old.node.kids[old.next].name = k => item.path = old.node.kids[old.next].path
    PROVE  Gathered(new, k)
<1> DEFINE n == old.next - 1
           node == old.node
           list == old.obj.fields[k]
           Card(m) == Cardinality(NamedUpTo(node, m, k))
<1>1. n \in Nat /\ old.next = n + 1 /\ new.next - 1 = n + 1
  OBVIOUS
<1>2. /\ Card(n) \in Nat
      /\ node.kids[n + 1].name = k => Card(n + 1) = Card(n) + 1
      /\ node.kids[n + 1].name # k => NamedUpTo(node, n + 1, k) = NamedUpTo(node, n, k)
      /\ \A i \in NamedUpTo(node, n, k) : Card(i) \in 1..Card(n)
  BY <1>1, NamedCount, Zenon
<1>3. PICK S : list \in Seq(S)
  BY DEF Gathered
<1>4. Len(list) = Card(n) /\ \A i \in NamedUpTo(node, n, k) : list[Card(i)].path = node.kids[i].path
  BY DEF Gathered
<1>5. CASE node.kids[n + 1].name # k
  <2>1. new.obj.fields[k] = list /\ NamedUpTo(node, n + 1, k) = NamedUpTo(node, n, k)
    BY <1>1, <1>2, <1>5
  <2> HIDE DEF list, Card
  <2> QED
    BY <1>1, <1>3, <1>4, <2>1 DEF Gathered, Card
<1>6. CASE node.kids[n + 1].name = k
  <2>1. new.obj.fields[k] = Append(list, item) /\ item.path = node.kids[n + 1].path
    BY <1>1, <1>6
  <2>2. Append(list, item) \in Seq(S \cup {item}) /\ Len(Append(list, item)) = Len(list) + 1
    BY <1>3
  <2>3. ASSUME NEW i \in NamedUpTo(node, n + 1, k)
        PROVE  Append(list, item)[Card(i)].path = node.kids[i].path
    <3>1. CASE i \in NamedUpTo(node, n, k)
      <4>1. Card(i) \in 1..Len(list)
        BY <1>2, <1>4, <3>1
      <4>2. Append(list, item)[Card(i)] = list[Card(i)]
        BY <1>3, <4>1
      <4> QED
        BY <1>4, <3>1, <4>2
    <3>2. CASE i \notin NamedUpTo(node, n, k)
      <4>1. i = n + 1
        BY <1>1, <3>2 DEF NamedUpTo
      <4>2. Card(i) = Len(list) + 1
        BY <1>2, <1>4, <1>6, <4>1
      <4>3. Append(list, item)[Len(list) + 1] = item
        BY <1>3
      <4>4. Append(list, item)[Card(i)] = item
        BY <4>2, <4>3
      <4> QED
        BY <2>1, <4>1, <4>4
    <3> QED
      BY <3>1, <3>2
  <2>4. Len(Append(list, item)) = Card(n + 1)
    BY <1>2, <1>4, <1>6, <2>2
  <2> HIDE DEF list, Card
  <2> QED
    BY <1>1, <2>1, <2>2, <2>3, <2>4 DEF Gathered, Card
<1> QED
  BY <1>5, <1>6

-----------------------------------------------------------------------------
(* The build calls *)

\* A build call: its object is of its class, its element has no word for an integer, and no child
\* that is behind it holds a defect.
ObjectFits(f, fr) ==
    /\ {"class", "path", "lists", "fields"} \subseteq DOMAIN fr.obj
    /\ fr.obj.class = fr.class /\ fr.obj.path = fr.node.path
    /\ fr.obj.lists = ObjectNamed(f, fr.class).lists
    /\ fr.obj.lists \subseteq DOMAIN fr.obj.fields
FrameFits(f, d, fr) ==
    /\ {"class", "node", "next", "obj"} \subseteq DOMAIN fr
    /\ fr.class \in ClassNames(f) /\ fr.node \in NodesIn(d)
    /\ fr.next \in 1..(Len(fr.node.kids) + 1)
    /\ ObjectFits(f, fr)
    /\ ~BadInteger(ClassNamed(f, fr.class), fr.node)
    /\ \A j \in 1..(fr.next - 1) : ~Harms(f, fr.class, fr.node.kids[j], Defects(f, d))
    /\ \A l \in Loops : l[1] = f /\ l[2] = fr.class => Gathered(fr, l[3])

\* The call behind another one builds the child that the other one has come to.
Calls(f, upper, lower) ==
    LET kid == upper.node.kids[upper.next] IN
    /\ upper.next \in DOMAIN upper.node.kids
    /\ lower.node = kid
    /\ Reads(f, upper.class, kid) /\ ~IsText(BranchOf(f, upper.class, kid).how)
    /\ lower.class = BranchOf(f, upper.class, kid).class

\* A call starts with an empty list for every loop.
LEMMA NewFrame ==
    ASSUME NEW f, NEW d, Readable(f, d), NEW c \in ClassNames(f), NEW node \in NodesIn(d),
           ~BadInteger(ClassNamed(f, c), node)
    PROVE  FrameFits(f, d, [class |-> c, node |-> node, next |-> 1, obj |-> Fresh(f, c, node)])
<1> DEFINE fr == [class |-> c, node |-> node, next |-> 1, obj |-> Fresh(f, c, node)]
<1>1. /\ {"class", "node", "next", "obj"} \subseteq DOMAIN fr
      /\ fr.class = c /\ fr.node = node /\ fr.next = 1 /\ fr.obj = Fresh(f, c, node)
  OBVIOUS
<1> HIDE DEF fr
<1>2. ObjectFits(f, fr)
  BY <1>1 DEF ObjectFits, Fresh
<1>3. fr.next \in 1..(Len(fr.node.kids) + 1)
  <2>1. Len(node.kids) \in Nat
    BY DEF Readable
  <2> QED
    BY <1>1, <2>1
<1>4. ASSUME NEW l \in Loops, l[1] = f, l[2] = c PROVE Gathered(fr, l[3])
  <2> DEFINE k == l[3]
  <2>1. LoopFits(f, c, k)
    BY <1>4, LoopsFit
  <2> HIDE DEF k
  <2>2. fr.obj.fields[k] = <<>>
    BY <1>1, <2>1 DEF Fresh, LoopFits
  <2>3. NamedUpTo(fr.node, fr.next - 1, k) = {}
    BY <1>1 DEF NamedUpTo
  <2>4. Cardinality(NamedUpTo(fr.node, fr.next - 1, k)) = 0
    BY <2>3, FS_EmptySet
  <2>5. <<>> \in Seq({}) /\ Len(<<>>) = 0
    OBVIOUS
  <2>6. Gathered(fr, k)
    BY <2>2, <2>3, <2>4, <2>5 DEF Gathered
  <2> QED
    BY <2>6 DEF k
<1>5. FrameFits(f, d, fr)
  BY <1>1, <1>2, <1>3, <1>4 DEF FrameFits
<1> QED
  BY <1>5 DEF fr

\* A call that passes a child, harmless and kept where it belongs, goes on as it should.
LEMMA Advance ==
    ASSUME NEW f, NEW d, Readable(f, d), NEW fr, FrameFits(f, d, fr),
           fr.next \in DOMAIN fr.node.kids,
           ~Harms(f, fr.class, fr.node.kids[fr.next], Defects(f, d)),
           NEW obj, {"class", "path", "lists", "fields"} \subseteq DOMAIN obj,
           obj.class = fr.obj.class, obj.path = fr.obj.path, obj.lists = fr.obj.lists,
           DOMAIN obj.fields = DOMAIN fr.obj.fields,
           NEW item,
           \A l \in Loops : l[1] = f /\ l[2] = fr.class =>
               /\ obj.fields[l[3]] = IF fr.node.kids[fr.next].name = l[3]
                                     THEN Append(fr.obj.fields[l[3]], item) ELSE fr.obj.fields[l[3]]
               /\ fr.node.kids[fr.next].name = l[3] => item.path = fr.node.kids[fr.next].path
    PROVE  FrameFits(f, d, [fr EXCEPT !.obj = obj, !.next = @ + 1])
<1> DEFINE new == [fr EXCEPT !.obj = obj, !.next = @ + 1]
<1>1. /\ DOMAIN new = DOMAIN fr /\ new.class = fr.class /\ new.node = fr.node
      /\ new.next = fr.next + 1 /\ new.obj = obj
  BY DEF FrameFits
<1> HIDE DEF new
<1>2. fr.node.kids \in Seq(NodesIn(d))
      /\ fr.next \in 1..Len(fr.node.kids) /\ Len(fr.node.kids) \in Nat
  BY DEF FrameFits, Readable
<1>3. new.next \in 1..(Len(new.node.kids) + 1)
  BY <1>1, <1>2
<1>4. ObjectFits(f, new)
  BY <1>1 DEF FrameFits, ObjectFits
<1>5. \A j \in 1..(new.next - 1) : ~Harms(f, new.class, new.node.kids[j], Defects(f, d))
  <2>1. \A j \in 1..(new.next - 1) : j \in 1..(fr.next - 1) \/ j = fr.next
    BY <1>1, <1>2
  <2> QED
    BY <1>1, <2>1 DEF FrameFits
<1>6. ASSUME NEW l \in Loops, l[1] = f, l[2] = new.class PROVE Gathered(new, l[3])
  <2>1. Gathered(fr, l[3])
    BY <1>1, <1>6 DEF FrameFits
  <2>2. fr.next \in Nat \ {0}
    BY <1>2
  <2>3. /\ new.obj.fields[l[3]] = IF fr.node.kids[fr.next].name = l[3]
                                  THEN Append(fr.obj.fields[l[3]], item) ELSE fr.obj.fields[l[3]]
        /\ fr.node.kids[fr.next].name = l[3] => item.path = fr.node.kids[fr.next].path
    BY <1>1, <1>6
  <2> QED
    BY <1>1, <2>1, <2>2, <2>3, GatherMore
<1>7. FrameFits(f, d, new)
  BY <1>1, <1>3, <1>4, <1>5, <1>6 DEF FrameFits
<1> QED
  BY <1>7 DEF new

-----------------------------------------------------------------------------
(* The stack *)

\* The calls under way: each fits, builds the child its caller has come to, and if its element
\* holds a defect the document does.
StackFits(f, c, d, s) ==
    /\ \E S : s \in Seq(S)
    /\ \A i \in 1..Len(s) :
           /\ FrameFits(f, d, s[i])
           /\ <<s[i].class, s[i].node>> \in Defects(f, d) => <<c, d>> \in Defects(f, d)
    /\ \A i \in 1..(Len(s) - 1) : Calls(f, s[i], s[i + 1])
    /\ Len(s) > 0 => s[1].class = c /\ s[1].node = d

\* An element holds a defect if it has a word for an integer or a child with one.
LEMMA DefectsAre ==
    ASSUME NEW f, NEW d, Readable(f, d), NEW c \in ClassNames(f), NEW node \in NodesIn(d)
    PROVE  <<c, node>> \in Defects(f, d) <=>
               \/ BadInteger(ClassNamed(f, c), node)
               \/ \E i \in DOMAIN node.kids : Harms(f, c, node.kids[i], Defects(f, d))
<1>1. <<c, node>> \in ClassNames(f) \X NodesIn(d)
  OBVIOUS
<1>2. <<c, node>> \in Defects(f, d) <=> Defective(f, d)[<<c, node>>]
  BY <1>1 DEF Defects
<1>3. Defective(f, d)[<<c, node>>] <=> Broken(f, <<c, node>>, Defects(f, d))
  BY <1>1, Unfold
<1> QED
  BY <1>2, <1>3 DEF Broken

\* The call on top of the stack.
LEMMA TopFacts ==
    ASSUME NEW f, NEW c, NEW d, NEW s, Readable(f, d), StackFits(f, c, d, s), Len(s) > 0
    PROVE  /\ Len(s) \in Nat \ {0} /\ FrameFits(f, d, s[Len(s)])
           /\ s[Len(s)].node.kids \in Seq(NodesIn(d))
           /\ s[Len(s)].next \in 1..(Len(s[Len(s)].node.kids) + 1)
           /\ Len(s[Len(s)].node.kids) \in Nat
           /\ s[Len(s)].class \in ClassNames(f) /\ s[Len(s)].node \in NodesIn(d)
           /\ Fits(f, s[Len(s)].class) /\ ObjectFits(f, s[Len(s)])
<1>1. Len(s) \in Nat \ {0} /\ Len(s) \in 1..Len(s)
  BY DEF StackFits
<1>2. FrameFits(f, d, s[Len(s)])
  BY <1>1 DEF StackFits
<1>3. s[Len(s)].class \in ClassNames(f) /\ s[Len(s)].node \in NodesIn(d)
      /\ s[Len(s)].next \in 1..(Len(s[Len(s)].node.kids) + 1) /\ ObjectFits(f, s[Len(s)])
  BY <1>2 DEF FrameFits
<1>4. s[Len(s)].node.kids \in Seq(NodesIn(d)) /\ f \in {"index", "compound"}
  BY <1>3 DEF Readable
<1>5. Fits(f, s[Len(s)].class)
  BY <1>3, <1>4, TablesFit
<1>6. Len(s[Len(s)].node.kids) \in Nat
  BY <1>4
<1> QED
  BY <1>1, <1>2, <1>3, <1>4, <1>5, <1>6

\* A child that holds a defect gives it to the document.
LEMMA DefectRises ==
    ASSUME NEW f, NEW c, NEW d, NEW s, Readable(f, d), StackFits(f, c, d, s), Len(s) > 0,
           s[Len(s)].next <= Len(s[Len(s)].node.kids),
           Harms(f, s[Len(s)].class, s[Len(s)].node.kids[s[Len(s)].next], Defects(f, d))
    PROVE  <<c, d>> \in Defects(f, d)
<1> DEFINE fr == s[Len(s)]
<1>1. /\ Len(s) \in Nat \ {0} /\ fr.class \in ClassNames(f) /\ fr.node \in NodesIn(d)
      /\ fr.next \in DOMAIN fr.node.kids /\ Len(s) \in 1..Len(s)
  BY TopFacts
<1>2. Harms(f, fr.class, fr.node.kids[fr.next], Defects(f, d))
  OBVIOUS
<1>3. <<fr.class, fr.node>> \in Defects(f, d) => <<c, d>> \in Defects(f, d)
  BY <1>1 DEF StackFits
<1> HIDE DEF fr
<1>4. <<fr.class, fr.node>> \in Defects(f, d)
  BY <1>1, <1>2, DefectsAre
<1> QED
  BY <1>3, <1>4

\* A new call on top of the others.
LEMMA PushFits ==
    ASSUME NEW f, NEW c, NEW d, NEW s, Readable(f, d), StackFits(f, c, d, s),
           NEW fr, FrameFits(f, d, fr),
           IF Len(s) > 0 THEN Calls(f, s[Len(s)], fr) ELSE fr.class = c /\ fr.node = d
    PROVE  StackFits(f, c, d, Append(s, fr)) /\ Len(Append(s, fr)) > 0
<1> DEFINE t == Append(s, fr)
<1>1. PICK S : s \in Seq(S)
  BY DEF StackFits
<1>2. /\ t \in Seq(S \cup {fr}) /\ Len(s) \in Nat /\ Len(t) = Len(s) + 1 /\ t[Len(s) + 1] = fr
      /\ \A i \in 1..Len(s) : t[i] = s[i]
  BY <1>1
<1>3. <<fr.class, fr.node>> \in Defects(f, d) => <<c, d>> \in Defects(f, d)
  <2>1. CASE Len(s) > 0
    <3> SUFFICES ASSUME <<fr.class, fr.node>> \in Defects(f, d) PROVE <<c, d>> \in Defects(f, d)
      OBVIOUS
    <3>1. Calls(f, s[Len(s)], fr)
      BY <2>1
    <3>2. Harms(f, s[Len(s)].class, s[Len(s)].node.kids[s[Len(s)].next], Defects(f, d))
      BY <3>1 DEF Calls, Harms
    <3>3. s[Len(s)].next <= Len(s[Len(s)].node.kids)
      <4>1. s[Len(s)].node.kids \in Seq(NodesIn(d))
        BY <2>1, TopFacts
      <4>2. s[Len(s)].next \in DOMAIN s[Len(s)].node.kids
        BY <3>1 DEF Calls
      <4> QED
        BY <4>1, <4>2
    <3> QED
      BY <2>1, <3>2, <3>3, DefectRises
  <2> QED
    BY <1>2, <2>1
<1> HIDE DEF t
<1>4. \A i \in 1..Len(t) : i \in 1..Len(s) \/ i = Len(s) + 1
  BY <1>2
<1>5. \A i \in 1..Len(t) : /\ FrameFits(f, d, t[i])
                           /\ <<t[i].class, t[i].node>> \in Defects(f, d)
                                  => <<c, d>> \in Defects(f, d)
  BY <1>2, <1>3, <1>4 DEF StackFits
<1>6. \A i \in 1..(Len(t) - 1) : Calls(f, t[i], t[i + 1])
  <2> SUFFICES ASSUME NEW i \in 1..(Len(t) - 1) PROVE Calls(f, t[i], t[i + 1])
    OBVIOUS
  <2>1. CASE i = Len(s)
    BY <1>2, <2>1
  <2>2. CASE i # Len(s)
    <3>1. i \in 1..(Len(s) - 1) /\ i + 1 \in 1..Len(s) /\ i \in 1..Len(s)
      BY <1>2, <2>2
    <3> QED
      BY <1>2, <3>1 DEF StackFits
  <2> QED
    BY <2>1, <2>2
<1>7. t[1].class = c /\ t[1].node = d
  <2>1. Len(s) > 0 => t[1] = s[1]
    BY <1>2
  <2>2. ~(Len(s) > 0) => t[1] = fr
    BY <1>2
  <2> QED
    BY <2>1, <2>2 DEF StackFits
<1>8. StackFits(f, c, d, t) /\ Len(t) > 0
  BY <1>2, <1>5, <1>6, <1>7 DEF StackFits
<1> QED
  BY <1>8 DEF t

\* The calls up to one of them, which has gone on.
LEMMA CutFits ==
    ASSUME NEW f, NEW c, NEW d, NEW s, Readable(f, d), StackFits(f, c, d, s),
           NEW t, NEW T, t \in Seq(T), Len(t) \in 1..Len(s),
           \A i \in 1..(Len(t) - 1) : t[i] = s[i],
           t[Len(t)].class = s[Len(t)].class, t[Len(t)].node = s[Len(t)].node,
           FrameFits(f, d, t[Len(t)])
    PROVE  StackFits(f, c, d, t)
<1>1. Len(s) \in Nat /\ Len(t) \in Nat \ {0} /\ Len(t) <= Len(s)
  BY DEF StackFits
<1>2. \A i \in 1..Len(t) : /\ i \in 1..Len(s)
                           /\ i = Len(t) \/ i \in 1..(Len(t) - 1)
                           /\ t[i].class = s[i].class /\ t[i].node = s[i].node
  BY <1>1
<1>3. \A i \in 1..Len(t) : /\ FrameFits(f, d, t[i])
                           /\ <<t[i].class, t[i].node>> \in Defects(f, d)
                                  => <<c, d>> \in Defects(f, d)
  BY <1>2 DEF StackFits
<1>4. \A i \in 1..(Len(t) - 1) : Calls(f, t[i], t[i + 1])
  <2> SUFFICES ASSUME NEW i \in 1..(Len(t) - 1) PROVE Calls(f, t[i], t[i + 1])
    OBVIOUS
  <2>1. i \in 1..(Len(s) - 1) /\ i + 1 \in 1..Len(t)
    BY <1>1
  <2>2. Calls(f, s[i], s[i + 1]) /\ t[i] = s[i]
    BY <2>1 DEF StackFits
  <2>3. t[i + 1].class = s[i + 1].class /\ t[i + 1].node = s[i + 1].node
    BY <1>2, <2>1
  <2> QED
    BY <2>2, <2>3 DEF Calls
<1>5. t[1].class = c /\ t[1].node = d
  BY <1>1, <1>2 DEF StackFits
<1> QED
  BY <1>3, <1>4, <1>5 DEF StackFits

\* The call on top passes a child.
LEMMA PassFits ==
    ASSUME NEW f, NEW c, NEW d, NEW s, Readable(f, d), StackFits(f, c, d, s), Len(s) > 0,
           NEW fr, FrameFits(f, d, fr),
           fr.class = s[Len(s)].class, fr.node = s[Len(s)].node
    PROVE  /\ StackFits(f, c, d, [s EXCEPT ![Len(s)] = fr])
           /\ Len([s EXCEPT ![Len(s)] = fr]) > 0
<1> DEFINE t == [s EXCEPT ![Len(s)] = fr]
<1>1. PICK S : s \in Seq(S)
  BY DEF StackFits
<1>2. /\ t \in Seq(S \cup {fr}) /\ Len(t) = Len(s) /\ Len(s) \in Nat \ {0} /\ t[Len(t)] = fr
      /\ \A i \in 1..(Len(t) - 1) : t[i] = s[i]
  BY <1>1
<1> HIDE DEF t
<1>3. Len(t) \in 1..Len(s)
  BY <1>2
<1>4. StackFits(f, c, d, t) /\ Len(t) > 0
  BY <1>2, <1>3, CutFits
<1> QED
  BY <1>4 DEF t

\* The caller of the one on top passes the child that was built.
LEMMA PopFits ==
    ASSUME NEW f, NEW c, NEW d, NEW s, Readable(f, d), StackFits(f, c, d, s), Len(s) > 1,
           NEW fr, FrameFits(f, d, fr),
           fr.class = s[Len(s) - 1].class, fr.node = s[Len(s) - 1].node
    PROVE  /\ StackFits(f, c, d, Append(SubSeq(s, 1, Len(s) - 2), fr))
           /\ Len(Append(SubSeq(s, 1, Len(s) - 2), fr)) > 0
<1> DEFINE u == SubSeq(s, 1, Len(s) - 2)
           t == Append(u, fr)
<1>1. PICK S : s \in Seq(S)
  BY DEF StackFits
<1>0. Len(s) \in Nat /\ Len(s) - 2 \in Nat /\ Len(s) - 2 <= Len(s)
  BY <1>1
<1>2. /\ u \in Seq(S) /\ Len(u) = Len(s) - 2 /\ Len(s) \in Nat
      /\ \A i \in 1..(Len(s) - 2) : u[i] = s[i]
  <2> DEFINE n == Len(s) - 2
  <2>1. /\ n \in Nat /\ Len(s) \in Nat /\ 1 \in Int /\ n \in Int
        /\ (n - 1) + 1 = n /\ \A i \in 1..n : s[i] \in S
    BY <1>0, <1>1
  <2> HIDE DEF n
  <2>2. /\ SubSeq(s, 1, n) \in Seq(S)
        /\ Len(SubSeq(s, 1, n)) = IF 1 <= n THEN (n - 1) + 1 ELSE 0
        /\ \A i \in 1..((n - 1) + 1) : SubSeq(s, 1, n)[i] = s[(1 + i) - 1]
    BY <2>1, SubSeqProperties
  <2>3. \A i \in 1..n : SubSeq(s, 1, n)[i] = s[i]
    BY <2>1, <2>2
  <2>4. Len(SubSeq(s, 1, n)) = n
    BY <2>1, <2>2
  <2> QED
    BY <2>1, <2>2, <2>3, <2>4 DEF n
<1> HIDE DEF u
<1>3. /\ t \in Seq(S \cup {fr}) /\ Len(t) = Len(s) - 1 /\ t[Len(s) - 1] = fr
      /\ \A i \in 1..(Len(t) - 1) : t[i] = s[i]
  BY <1>2
<1> HIDE DEF t
<1>4. Len(t) \in 1..Len(s) /\ Len(t) > 0
  BY <1>2, <1>3
<1>5. StackFits(f, c, d, t)
  BY <1>3, <1>4, CutFits
<1> QED
  BY <1>4, <1>5 DEF t, u

-----------------------------------------------------------------------------
(* What a call stores *)

\* A child with the name of a loop is an element that the class appends to that list.
LEMMA LoopKid ==
    ASSUME NEW f, NEW d, Readable(f, d), NEW fr, FrameFits(f, d, fr),
           fr.next \in DOMAIN fr.node.kids,
           NEW l \in Loops, l[1] = f, l[2] = fr.class
    PROVE  /\ LoopFits(f, fr.class, l[3]) /\ l[3] \in DOMAIN fr.obj.fields
           /\ fr.node.kids[fr.next].name = l[3] =>
                  /\ Reads(f, fr.class, fr.node.kids[fr.next])
                  /\ BranchOf(f, fr.class, fr.node.kids[fr.next]).how = "many"
<1>1. LoopFits(f, fr.class, l[3])
  BY LoopsFit
<1>2. l[3] \in DOMAIN fr.obj.fields
  BY <1>1 DEF FrameFits, ObjectFits, LoopFits
<1> DEFINE kid == fr.node.kids[fr.next]
<1>3. kid \in NodesIn(d)
  BY DEF FrameFits, Readable
<1> HIDE DEF kid
<1>4. kid.kind # "element" => kid.name \in {"#text", "#cdata-section"}
  BY <1>3 DEF Readable
<1>5. kid.name = l[3] => Reads(f, fr.class, kid) /\ BranchOf(f, fr.class, kid).how = "many"
  BY <1>1, <1>4 DEF LoopFits, Reads, BranchOf
<1> QED
  BY <1>1, <1>2, <1>5 DEF kid

\* A child that the class reads can be stored, and the loops lose nothing by it.
LEMMA StoreFits ==
    ASSUME NEW f, NEW d, Readable(f, d), NEW fr, FrameFits(f, d, fr),
           fr.next \in DOMAIN fr.node.kids,
           NEW kid, kid = fr.node.kids[fr.next], Reads(f, fr.class, kid),
           ~Harms(f, fr.class, kid, Defects(f, d)),
           NEW how, how = BranchOf(f, fr.class, kid).how,
           NEW value, how = "many" => value.path = kid.path
    PROVE  /\ Storable(fr.obj, kid.name, how)
           /\ FrameFits(f, d, [fr EXCEPT !.obj = Stored(fr.obj, kid.name, how, value),
                                         !.next = @ + 1])
<1> DEFINE new == Stored(fr.obj, kid.name, how, value)
<1>1. ObjectFits(f, fr) /\ fr.class \in ClassNames(f) /\ f \in {"index", "compound"}
  BY DEF FrameFits, Readable
<1>2. Fits(f, fr.class)
  BY <1>1, TablesFit
<1>3. Storable(fr.obj, kid.name, how)
  BY <1>1, <1>2 DEF Storable, Fits, Reads, BranchOf, ObjectFits
<1>4. /\ DOMAIN new = DOMAIN fr.obj
      /\ new.class = fr.obj.class /\ new.path = fr.obj.path /\ new.lists = fr.obj.lists
      /\ DOMAIN new.fields = DOMAIN fr.obj.fields
      /\ \A k \in DOMAIN fr.obj.fields :
             k # FieldFor(fr.obj.class, kid.name, how) => new.fields[k] = fr.obj.fields[k]
      /\ how = "many" /\ kid.name \in DOMAIN fr.obj.fields =>
             new.fields[kid.name] = Append(fr.obj.fields[kid.name], value)
  <2>1. {"class", "path", "lists", "fields"} \subseteq DOMAIN fr.obj
    BY <1>1 DEF ObjectFits
  <2> QED
    BY <2>1 DEF Stored, FieldFor, Appends
<1> HIDE DEF new
<1>5. ASSUME NEW l \in Loops, l[1] = f, l[2] = fr.class
      PROVE  /\ new.fields[l[3]] = IF kid.name = l[3]
                                   THEN Append(fr.obj.fields[l[3]], value) ELSE fr.obj.fields[l[3]]
             /\ kid.name = l[3] => value.path = kid.path
  <2>1. /\ LoopFits(f, fr.class, l[3]) /\ l[3] \in DOMAIN fr.obj.fields
        /\ kid.name = l[3] => how = "many"
    BY <1>5, LoopKid
  <2>2. kid.name # l[3] => l[3] # FieldFor(fr.obj.class, kid.name, how)
    BY <2>1 DEF FieldFor, ContentOf, LoopFits
  <2> QED
    BY <1>4, <2>1, <2>2
<1>6. {"class", "path", "lists", "fields"} \subseteq DOMAIN new
  BY <1>1, <1>4 DEF ObjectFits
<1>7. /\ ~Harms(f, fr.class, fr.node.kids[fr.next], Defects(f, d))
      /\ \A l \in Loops : l[1] = f /\ l[2] = fr.class =>
             /\ new.fields[l[3]] = IF fr.node.kids[fr.next].name = l[3]
                                   THEN Append(fr.obj.fields[l[3]], value) ELSE fr.obj.fields[l[3]]
             /\ fr.node.kids[fr.next].name = l[3] => value.path = fr.node.kids[fr.next].path
  BY <1>5
<1>8. FrameFits(f, d, [fr EXCEPT !.obj = new, !.next = @ + 1])
  BY <1>4, <1>6, <1>7, Advance
<1> QED
  BY <1>3, <1>8 DEF new

\* A child that the class does not read: nothing is stored in the lists that are looped over.
LEMMA PassOver ==
    ASSUME NEW f, NEW d, Readable(f, d), NEW fr, FrameFits(f, d, fr),
           fr.next \in DOMAIN fr.node.kids, ~Reads(f, fr.class, fr.node.kids[fr.next]),
           NEW obj, {"class", "path", "lists", "fields"} \subseteq DOMAIN obj,
           obj.class = fr.obj.class, obj.path = fr.obj.path, obj.lists = fr.obj.lists,
           DOMAIN obj.fields = DOMAIN fr.obj.fields,
           \A k \in DOMAIN fr.obj.fields :
               k \notin {"content", "content_", "valueOf_"} => obj.fields[k] = fr.obj.fields[k]
    PROVE  FrameFits(f, d, [fr EXCEPT !.obj = obj, !.next = @ + 1])
<1>1. ~Harms(f, fr.class, fr.node.kids[fr.next], Defects(f, d))
  BY DEF Harms
<1>2. ASSUME NEW l \in Loops, l[1] = f, l[2] = fr.class
      PROVE  fr.node.kids[fr.next].name # l[3] /\ obj.fields[l[3]] = fr.obj.fields[l[3]]
  <2>1. /\ LoopFits(f, fr.class, l[3]) /\ l[3] \in DOMAIN fr.obj.fields
        /\ fr.node.kids[fr.next].name # l[3]
    BY <1>2, LoopKid
  <2> QED
    BY <2>1 DEF LoopFits
<1> QED
  BY <1>1, <1>2, Advance

-----------------------------------------------------------------------------
(* The inductive invariant *)

DocumentInv == \E d \in Documents : file = d.file /\ class = d.class /\ doc = d.node

StackInv == StackFits(file, class, doc, stack)

\* The outcome: an exception only for a defect, and a result only without one.
OutcomeInv ==
    /\ status \in {"parse", "build", "done"} \cup Stuck
    /\ status = "parse" => Len(stack) = 0
    /\ status = "build" => Len(stack) > 0
    /\ status \in Stuck => <<class, doc>> \in Defects(file, doc)
    /\ status = "done" => <<class, doc>> \notin Defects(file, doc)
    /\ IF status = "done" THEN \E o : built = <<o>> ELSE built = <<>>

IInv == DocumentInv /\ StackInv /\ OutcomeInv

\* What the assumption on documents says of the one that is read.
LEMMA DocumentFacts ==
    ASSUME DocumentInv
    PROVE  Readable(file, doc) /\ class \in ClassNames(file) /\ doc \in NodesIn(doc)
<1>1. PICK d \in Documents : file = d.file /\ class = d.class /\ doc = d.node
  BY DEF DocumentInv
<1>2. <<file, class>> \in Classes /\ doc \in NodesIn(doc)
      /\ \A n \in NodesIn(doc) : /\ n.kids \in Seq(NodesIn(doc))
                                 /\ n.kind # "element" => n.name \in {Text.name, CData.name}
  BY <1>1, DocumentsAssumption, Zenon
<1>3. Text.name = "#text" /\ CData.name = "#cdata-section"
  BY DEF Text, CData
<1>4. file \in {"index", "compound"} /\ class \in ClassNames(file)
  BY <1>2 DEF Classes
<1> QED
  BY <1>2, <1>3, <1>4 DEF Readable

\* A step that goes on with a stack that fits.
LEMMA GoesOn ==
    ASSUME IInv, status \in {"parse", "build"}, status' = "build",
           UNCHANGED <<file, class, doc, built>>,
           StackFits(file, class, doc, stack'), Len(stack') > 0
    PROVE  IInv'
  BY DEF IInv, DocumentInv, StackInv, OutcomeInv, Stuck

\* A step that ends with an exception.
LEMMA Fails ==
    ASSUME IInv, status \in {"parse", "build"}, status' \in Stuck,
           UNCHANGED <<file, class, doc, built, stack>>, <<class, doc>> \in Defects(file, doc)
    PROVE  IInv'
  BY DEF IInv, DocumentInv, StackInv, OutcomeInv, Stuck

\* The child that the top of the stack has come to.
LEMMA ChildFacts ==
    ASSUME IInv, More
    PROVE  /\ Readable(file, doc) /\ StackFits(file, class, doc, stack) /\ Len(stack) > 0
           /\ FrameFits(file, doc, Frame) /\ ObjectFits(file, Frame) /\ Fits(file, Frame.class)
           /\ Frame.class \in ClassNames(file)
           /\ Frame.next \in DOMAIN Frame.node.kids /\ Child \in NodesIn(doc)
           /\ Known(Child) <=> Reads(file, Frame.class, Child)
           /\ Known(Child) => How = BranchOf(file, Frame.class, Child).how
<1>1. Readable(file, doc) /\ StackFits(file, class, doc, stack) /\ Len(stack) > 0
  BY DocumentFacts DEF IInv, StackInv, OutcomeInv, More
<1>2. /\ FrameFits(file, doc, Frame) /\ ObjectFits(file, Frame) /\ Fits(file, Frame.class)
      /\ Frame.class \in ClassNames(file) /\ Frame.node.kids \in Seq(NodesIn(doc))
      /\ Frame.next \in 1..(Len(Frame.node.kids) + 1) /\ Len(Frame.node.kids) \in Nat
  BY <1>1, TopFacts DEF Frame
<1>3. Frame.next \in DOMAIN Frame.node.kids /\ Child \in NodesIn(doc)
  BY <1>2 DEF More, Child
<1> QED
  BY <1>1, <1>2, <1>3 DEF Known, Reads, How, BranchOf, ClassOf

\* The top of the stack goes on behind the child.
LEMMA Continues ==
    ASSUME IInv, More, NEW obj, Continue(obj), UNCHANGED <<file, class, doc, built, status>>,
           FrameFits(file, doc, [Frame EXCEPT !.obj = obj, !.next = @ + 1])
    PROVE  IInv'
<1> DEFINE fr == [Frame EXCEPT !.obj = obj, !.next = @ + 1]
<1>1. Readable(file, doc) /\ StackFits(file, class, doc, stack) /\ Len(stack) > 0
  BY ChildFacts
<1>2. fr.class = Frame.class /\ fr.node = Frame.node
  BY ChildFacts DEF FrameFits
<1>3. stack' = [stack EXCEPT ![Len(stack)] = fr]
  BY DEF Continue
<1>4. FrameFits(file, doc, fr)
  OBVIOUS
<1> HIDE DEF fr
<1>5. StackFits(file, class, doc, stack') /\ Len(stack') > 0
  BY <1>1, <1>2, <1>3, <1>4, PassFits DEF Frame
<1> QED
  BY <1>5, GoesOn DEF More

\* A child that holds a defect ends the build.
LEMMA Breaks ==
    ASSUME IInv, More, status' \in Stuck, UNCHANGED <<file, class, doc, built, stack>>,
           Harms(file, Frame.class, Child, Defects(file, doc))
    PROVE  IInv'
<1>1. <<class, doc>> \in Defects(file, doc)
  BY ChildFacts, DefectRises DEF Frame, Child, More
<1> QED
  BY <1>1, Fails DEF More

-----------------------------------------------------------------------------
(* The steps *)

\* Before parse has started no call is under way.
LEMMA Initially ==
    ASSUME Init
    PROVE  IInv
<1>1. DocumentInv
  BY DEF Init, DocumentInv
<1>2. StackInv
  <2>1. stack = <<>> /\ Len(stack) = 0 /\ stack \in Seq({})
    BY DEF Init
  <2> QED
    BY <2>1 DEF StackInv, StackFits
<1>3. OutcomeInv
  BY DEF Init, OutcomeInv, Stuck
<1> QED
  BY <1>1, <1>2, <1>3 DEF IInv

\* parse builds the root object, which has no caller: a word for an integer among the root's
\* attributes is a defect of the document.
LEMMA ParseKeeps ==
    ASSUME IInv, Parse
    PROVE  IInv'
<1>1. Readable(file, doc) /\ class \in ClassNames(file) /\ doc \in NodesIn(doc)
  BY DocumentFacts DEF IInv
<1>2. CASE BadInteger(ClassNamed(file, class), doc)
  <2>1. <<class, doc>> \in Defects(file, doc)
    BY <1>1, <1>2, DefectsAre
  <2> QED
    BY <1>2, <2>1, Fails DEF Parse, Enter, Stuck
<1>3. CASE ~BadInteger(ClassNamed(file, class), doc)
  <2> DEFINE fr == [class |-> class, node |-> doc, next |-> 1, obj |-> Fresh(file, class, doc)]
  <2>1. FrameFits(file, doc, fr)
    BY <1>1, <1>3, NewFrame
  <2>2. stack' = Append(stack, fr) /\ status' = "build" /\ fr.class = class /\ fr.node = doc
    BY <1>3 DEF Parse, Enter
  <2>3. StackFits(file, class, doc, stack) /\ ~(Len(stack) > 0)
    BY DEF IInv, StackInv, OutcomeInv, Parse
  <2> HIDE DEF fr
  <2>4. StackFits(file, class, doc, stack') /\ Len(stack') > 0
    BY <1>1, <2>1, <2>2, <2>3, PushFits
  <2> QED
    BY <2>2, <2>4, GoesOn DEF Parse
<1> QED
  BY <1>2, <1>3

\* A text is appended to fields that no loop reads, lists every class makes that keeps text.
LEMMA BuildTextKeeps ==
    ASSUME IInv, BuildText
    PROVE  IInv'
<1> DEFINE text == ClassOf(Frame).text
           lists == TextFields(Frame.class, text)
           fields == [k \in DOMAIN Frame.obj.fields |->
               CASE k \in lists ->
                        Append(Frame.obj.fields[k], MixedContainer("text", "", <<Child.path>>))
                 [] k = "valueOf_" /\ "value" \in text -> Append(Frame.obj.fields[k], Child.path)
                 [] OTHER -> Frame.obj.fields[k]]
<1>1. More /\ Child.kind = "text"
  BY DEF BuildText
<1>2. /\ Readable(file, doc) /\ FrameFits(file, doc, Frame) /\ ObjectFits(file, Frame)
      /\ Fits(file, Frame.class) /\ Frame.next \in DOMAIN Frame.node.kids
  BY <1>1, ChildFacts
<1>3. lists \subseteq {"content", "content_"} /\ lists \subseteq Frame.obj.lists
  BY <1>2 DEF TextFields, ContentOf, Fits, ObjectFits, ClassOf
<1>4. /\ Continue([Frame.obj EXCEPT !.fields = fields])
      /\ UNCHANGED <<file, class, doc, built, status>>
  BY <1>3 DEF BuildText
<1>5. /\ DOMAIN fields = DOMAIN Frame.obj.fields
      /\ \A k \in DOMAIN fields :
             k \notin {"content", "content_", "valueOf_"} => fields[k] = Frame.obj.fields[k]
  BY <1>3
<1>6. ~Reads(file, Frame.class, Child)
  BY <1>1 DEF Reads
<1> DEFINE obj == [Frame.obj EXCEPT !.fields = fields]
<1> HIDE DEF fields
<1>7. /\ {"class", "path", "lists", "fields"} \subseteq DOMAIN obj
      /\ obj.class = Frame.obj.class /\ obj.path = Frame.obj.path /\ obj.lists = Frame.obj.lists
      /\ obj.fields = fields
  BY <1>2 DEF ObjectFits
<1> HIDE DEF obj
<1>8. FrameFits(file, doc, [Frame EXCEPT !.obj = obj, !.next = @ + 1])
  BY <1>2, <1>5, <1>6, <1>7, PassOver DEF Child
<1> QED
  BY <1>1, <1>4, <1>8, Continues DEF obj

\* A CDATA section goes to valueOf_ or nowhere, no loop reads it.
LEMMA BuildCDataKeeps ==
    ASSUME IInv, BuildCData
    PROVE  IInv'
<1> DEFINE obj == IF "value" \in ClassOf(Frame).text
                  THEN [Frame.obj EXCEPT !.fields.valueOf_ = Append(@, Child.path)]
                  ELSE Frame.obj
<1>1. More /\ Child.kind = "cdata"
  BY DEF BuildCData
<1>2. /\ Readable(file, doc) /\ FrameFits(file, doc, Frame) /\ ObjectFits(file, Frame)
      /\ Frame.next \in DOMAIN Frame.node.kids
  BY <1>1, ChildFacts
<1>3. Continue(obj) /\ UNCHANGED <<file, class, doc, built, status>>
  BY DEF BuildCData
<1>4. /\ {"class", "path", "lists", "fields"} \subseteq DOMAIN obj
      /\ obj.class = Frame.obj.class /\ obj.path = Frame.obj.path /\ obj.lists = Frame.obj.lists
      /\ DOMAIN obj.fields = DOMAIN Frame.obj.fields
      /\ \A k \in DOMAIN Frame.obj.fields :
             k \notin {"content", "content_", "valueOf_"} => obj.fields[k] = Frame.obj.fields[k]
  BY <1>2 DEF ObjectFits
<1>5. ~Reads(file, Frame.class, Child)
  BY <1>1 DEF Reads
<1> HIDE DEF obj
<1>6. FrameFits(file, doc, [Frame EXCEPT !.obj = obj, !.next = @ + 1])
  BY <1>2, <1>4, <1>5, PassOver DEF Child
<1> QED
  BY <1>1, <1>3, <1>6, Continues

\* An element that no branch takes is harmless and has the name of no loop.
LEMMA SkipKeeps ==
    ASSUME IInv, Skip
    PROVE  IInv'
<1>1. More /\ Continue(Frame.obj) /\ UNCHANGED <<file, class, doc, built, status>>
  BY DEF Skip
<1>2. /\ Readable(file, doc) /\ FrameFits(file, doc, Frame) /\ ObjectFits(file, Frame)
      /\ Frame.next \in DOMAIN Frame.node.kids /\ ~Reads(file, Frame.class, Child)
  BY <1>1, ChildFacts DEF Skip
<1>3. FrameFits(file, doc, [Frame EXCEPT !.obj = Frame.obj, !.next = @ + 1])
  BY <1>2, PassOver DEF Child, ObjectFits
<1> QED
  BY <1>1, <1>3, Continues

\* A child read as a string: markup in it is a defect of the document, otherwise it is stored.
LEMMA BuildStringKeeps ==
    ASSUME IInv, BuildString
    PROVE  IInv'
<1> DEFINE value == [i \in DOMAIN Child.kids |-> Child.kids[i].path]
<1>1. More /\ Known(Child) /\ IsText(How) /\ UNCHANGED <<file, class, doc, built>>
  BY DEF BuildString
<1>2. /\ Readable(file, doc) /\ FrameFits(file, doc, Frame)
      /\ Frame.next \in DOMAIN Frame.node.kids /\ Reads(file, Frame.class, Child)
      /\ How = BranchOf(file, Frame.class, Child).how
  BY <1>1, ChildFacts
<1>3. CASE HasElement(Child)
  <2>1. status' = "TypeError" /\ UNCHANGED stack
    BY <1>3 DEF BuildString, HasElement
  <2>2. Harms(file, Frame.class, Child, Defects(file, doc))
    BY <1>1, <1>2, <1>3 DEF Harms
  <2> QED
    BY <1>1, <2>1, <2>2, Breaks DEF Stuck
<1>4. CASE ~HasElement(Child)
  <2>1. ~Harms(file, Frame.class, Child, Defects(file, doc)) /\ How # "many"
    BY <1>1, <1>2, <1>4 DEF Harms, IsText
  <2>2. /\ Storable(Frame.obj, Child.name, How)
        /\ FrameFits(file, doc, [Frame EXCEPT !.obj = Stored(Frame.obj, Child.name, How, value),
                                              !.next = @ + 1])
    <3> HIDE DEF value
    <3> QED
      BY <1>2, <2>1, StoreFits DEF Child
  <2>3. Continue(Stored(Frame.obj, Child.name, How, value)) /\ UNCHANGED status
    BY <1>4, <2>2 DEF BuildString, HasElement
  <2> QED
    BY <1>1, <2>2, <2>3, Continues
<1> QED
  BY <1>3, <1>4

\* A child with a class of its own: the build of that child is the new call on top.
LEMMA BuildElementKeeps ==
    ASSUME IInv, BuildElement
    PROVE  IInv'
<1> DEFINE c == BranchOf(file, Frame.class, Child).class
<1>1. More /\ Known(Child) /\ ~IsText(How) /\ Enter(c, Child)
      /\ UNCHANGED <<file, class, doc, built>>
  BY DEF BuildElement, BranchOf, ClassOf
<1>2. /\ Readable(file, doc) /\ StackFits(file, class, doc, stack) /\ Len(stack) > 0
      /\ FrameFits(file, doc, Frame) /\ Fits(file, Frame.class)
      /\ Frame.next \in DOMAIN Frame.node.kids /\ Child \in NodesIn(doc)
      /\ Reads(file, Frame.class, Child) /\ How = BranchOf(file, Frame.class, Child).how
  BY <1>1, ChildFacts
<1>3. c \in ClassNames(file)
  BY <1>1, <1>2 DEF Fits, Reads, BranchOf
<1> HIDE DEF c
<1>4. <<c, Child>> \in Defects(file, doc) => Harms(file, Frame.class, Child, Defects(file, doc))
  BY <1>1, <1>2 DEF Harms, c
<1>5. CASE BadInteger(ClassNamed(file, c), Child)
  <2>1. <<c, Child>> \in Defects(file, doc)
    BY <1>2, <1>3, <1>5, DefectsAre
  <2>2. status' = "ValueError" /\ UNCHANGED stack
    BY <1>1, <1>5 DEF Enter
  <2> QED
    BY <1>1, <1>4, <2>1, <2>2, Breaks DEF Stuck
<1>6. CASE ~BadInteger(ClassNamed(file, c), Child)
  <2> DEFINE fr == [class |-> c, node |-> Child, next |-> 1, obj |-> Fresh(file, c, Child)]
  <2>1. FrameFits(file, doc, fr)
    BY <1>2, <1>3, <1>6, NewFrame
  <2>2. stack' = Append(stack, fr) /\ status' = "build"
    BY <1>1, <1>6 DEF Enter
  <2>3. fr.class = c /\ fr.node = Child
    OBVIOUS
  <2> HIDE DEF fr
  <2>4. Calls(file, Frame, fr)
    BY <1>1, <1>2, <2>3 DEF Calls, Child, c
  <2>5. StackFits(file, class, doc, stack') /\ Len(stack') > 0
    BY <1>2, <2>1, <2>2, <2>4, PushFits DEF Frame
  <2> QED
    BY <1>1, <2>2, <2>5, GoesOn DEF More
<1> QED
  BY <1>5, <1>6

\* A call that has passed all children has met no defect.
LEMMA ReturnKeeps ==
    ASSUME IInv, Return
    PROVE  IInv'
<1>1. /\ Readable(file, doc) /\ StackFits(file, class, doc, stack) /\ Len(stack) > 0
      /\ status = "build" /\ UNCHANGED <<file, class, doc>>
      /\ Frame.next > Len(Frame.node.kids)
  BY DocumentFacts DEF IInv, StackInv, OutcomeInv, Return
<1>2. /\ Len(stack) \in Nat \ {0} /\ FrameFits(file, doc, Frame) /\ ObjectFits(file, Frame)
      /\ Frame.class \in ClassNames(file) /\ Frame.node \in NodesIn(doc)
      /\ Frame.node.kids \in Seq(NodesIn(doc)) /\ Len(Frame.node.kids) \in Nat
      /\ Frame.next \in 1..(Len(Frame.node.kids) + 1)
  BY <1>1, TopFacts DEF Frame
<1>3. <<Frame.class, Frame.node>> \notin Defects(file, doc)
  <2>1. \A j \in DOMAIN Frame.node.kids : j \in 1..(Frame.next - 1)
    BY <1>1, <1>2
  <2>2. \A j \in DOMAIN Frame.node.kids :
            ~Harms(file, Frame.class, Frame.node.kids[j], Defects(file, doc))
    BY <1>2, <2>1 DEF FrameFits
  <2>3. ~BadInteger(ClassNamed(file, Frame.class), Frame.node)
    BY <1>2 DEF FrameFits
  <2> QED
    BY <1>1, <1>2, <2>2, <2>3, DefectsAre
<1>4. CASE Len(stack) = 1
  <2>1. built' = <<Frame.obj>> /\ stack' = <<>> /\ status' = "done"
    BY <1>4 DEF Return
  <2>2. Frame.class = class /\ Frame.node = doc
    BY <1>1, <1>4 DEF StackFits, Frame
  <2>3. DocumentInv'
    BY <1>1 DEF IInv, DocumentInv
  <2>4. StackInv'
    <3>1. <<>> \in Seq({}) /\ Len(<<>>) = 0
      OBVIOUS
    <3> QED
      BY <2>1, <3>1 DEF StackInv, StackFits
  <2>5. OutcomeInv'
    <3>1. <<class', doc'>> \notin Defects(file', doc')
      BY <1>1, <1>3, <2>2
    <3> QED
      BY <2>1, <3>1 DEF OutcomeInv, Stuck
  <2> QED
    BY <2>3, <2>4, <2>5 DEF IInv
<1>5. CASE Len(stack) # 1
  <2> DEFINE n == Len(stack)
  <2>0. n \in Nat /\ n > 1
    <3>1. n \in Nat \ {0} /\ n # 1
      BY <1>2, <1>5
    <3> HIDE DEF n
    <3> QED
      BY <3>1
  <2> DEFINE caller == stack[Len(stack) - 1]
             how == BranchOf(file, caller.class, Frame.node).how
             fr == [caller EXCEPT !.obj = Stored(caller.obj, Frame.node.name, how, Frame.obj),
                                  !.next = @ + 1]
  <2>1. Len(stack) > 1 /\ Len(stack) - 1 \in 1..(Len(stack) - 1) /\ Len(stack) - 1 \in 1..Len(stack)
        /\ (Len(stack) - 1) + 1 = Len(stack)
    BY <2>0
  <2>2. FrameFits(file, doc, caller) /\ Calls(file, caller, Frame)
    BY <1>1, <2>1 DEF StackFits, Frame
  <2> HIDE DEF caller
  <2>3. /\ caller.next \in DOMAIN caller.node.kids /\ Frame.node = caller.node.kids[caller.next]
        /\ Reads(file, caller.class, Frame.node) /\ ~IsText(how)
        /\ Frame.class = BranchOf(file, caller.class, Frame.node).class
    BY <2>2 DEF Calls
  <2>4. ~Harms(file, caller.class, Frame.node, Defects(file, doc))
    BY <1>3, <2>3 DEF Harms
  <2>5. Frame.obj.path = Frame.node.path
    BY <1>2 DEF ObjectFits
  <2> HIDE DEF how
  <2>6. Storable(caller.obj, Frame.node.name, how) /\ FrameFits(file, doc, fr)
    BY <1>1, <2>2, <2>3, <2>4, <2>5, StoreFits DEF how
  <2>7. fr.class = caller.class /\ fr.node = caller.node
    BY <2>2 DEF FrameFits
  <2>8. stack' = Append(SubSeq(stack, 1, Len(stack) - 2), fr) /\ UNCHANGED <<status, built>>
    BY <1>5, <2>6 DEF Return, caller, how, BranchOf, ClassOf
  <2> HIDE DEF fr
  <2>9. StackFits(file, class, doc, stack') /\ Len(stack') > 0
    BY <1>1, <2>1, <2>6, <2>7, <2>8, PopFits DEF caller
  <2> QED
    BY <1>1, <2>8, <2>9, GoesOn
<1> QED
  BY <1>4, <1>5

\* Every step keeps the invariant.
LEMMA Inductive ==
    ASSUME IInv, [Next]_vars
    PROVE  IInv'
<1>1. CASE UNCHANGED vars
  BY <1>1 DEF vars, IInv, DocumentInv, StackInv, OutcomeInv
<1> QED
  BY <1>1, ParseKeeps, BuildTextKeeps, BuildCDataKeeps, BuildStringKeeps,
     BuildElementKeeps, SkipKeeps, ReturnKeeps DEF Next

\* The invariant holds in every state that can be reached.
LEMMA Invariance == Spec => []IInv
  BY Initially, Inductive, PTL DEF Spec

-----------------------------------------------------------------------------
(* The theorems *)

\* Every call under way fits the document.
LEMMA CallFits ==
    ASSUME StackInv
    PROVE  \A i \in DOMAIN stack : FrameFits(file, doc, stack[i])
<1>1. PICK S : stack \in Seq(S)
  BY DEF StackInv, StackFits
<1>2. DOMAIN stack = 1..Len(stack)
  BY <1>1
<1> QED
  BY <1>2 DEF StackInv, StackFits

\* parse returns at most one object, when and only when it is done; a build under way stands at one
\* of the element's children or behind the last, and has made every list its __init__ makes
\* (rootObj.build in compound.py and index.py, build and buildChildren of every generated class).
THEOREM TypeCorrect == Spec => []TypeOK
<1>1. ASSUME IInv PROVE TypeOK
  <2>1. /\ status \in {"parse", "build", "done"} \cup Stuck
        /\ Len(built) <= 1 /\ (built # <<>> <=> status = "done")
        /\ (status = "build") => stack # <<>>
    BY <1>1 DEF IInv, OutcomeInv
  <2>2. ASSUME NEW i \in DOMAIN stack
        PROVE  /\ stack[i].next \in 1..Len(stack[i].node.kids) + 1
               /\ stack[i].obj.class = stack[i].class
               /\ stack[i].obj.lists \subseteq DOMAIN stack[i].obj.fields
    <3>1. FrameFits(file, doc, stack[i])
      BY <1>1, CallFits DEF IInv
    <3> QED
      BY <3>1 DEF FrameFits, ObjectFits
  <2> QED
    BY <2>1, <2>2 DEF TypeOK
<1> QED
  BY <1>1, Invariance, PTL

\* The lists of members, parameters and compounds that doxyindex.py, base.py and update_pydoc.py
\* loop over hold, while buildChildren runs and when it returns, the object of every child element
\* of that name that has been read, in the order of the file, for a file of any size.
THEOREM LoopsComplete == Spec => []LoopsMissNothing
<1>1. ASSUME IInv PROVE LoopsMissNothing
  <2> SUFFICES ASSUME NEW i \in DOMAIN stack, NEW l \in Loops, l[1] = file, l[2] = stack[i].class
               PROVE  LET kids == stack[i].node.kids
                          seen == stack[i].next - 1
                          named(n) == {j \in 1..n : kids[j].name = l[3]}
                          list == stack[i].obj.fields[l[3]]
                      IN /\ Len(list) = Cardinality(named(seen))
                         /\ \A j \in named(seen) : list[Cardinality(named(j))].path = kids[j].path
    BY DEF LoopsMissNothing
  <2>1. FrameFits(file, doc, stack[i])
    BY <1>1, CallFits DEF IInv
  <2>2. Gathered(stack[i], l[3])
    BY <2>1 DEF FrameFits
  <2> QED
    BY <2>2 DEF Gathered, NamedUpTo
<1> QED
  BY <1>1, Invariance, PTL

\* parse raises an exception only for a document with a defect (a word where a class calls int(), or
\* markup where a class joins the text of a child) and returns an object only for one without; no
\* append of a buildChildren meets a field that the __init__ of its class did not make a list.
THEOREM FailuresJustified == Spec => []FailsOnlyOnDefects
<1>1. ASSUME IInv PROVE FailsOnlyOnDefects
  <2>1. class \in ClassNames(file) /\ doc \in NodesIn(doc)
    BY <1>1, DocumentFacts DEF IInv
  <2>2. <<class, doc>> \in Defects(file, doc) <=> Defective(file, doc)[<<class, doc>>]
    BY <2>1 DEF Defects
  <2> QED
    BY <1>1, <2>2 DEF IInv, OutcomeInv, FailsOnlyOnDefects
<1> QED
  BY <1>1, Invariance, PTL

================================================================================
