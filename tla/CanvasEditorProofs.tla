-------------------------- MODULE CanvasEditorProofs --------------------------
(***************************************************************************)
(* Theorems about the canvas page, for every document it may open with and *)
(* any number of nodes, operations and requests in progress.               *)
(***************************************************************************)
EXTENDS CanvasEditorInvariant, FiniteSetTheorems, SequenceTheorems,
        WellFoundedInduction, TLAPS

-----------------------------------------------------------------------------
(* Numbers *)

Less == {ss \in Nat \X Nat : ss[1] < ss[2]}

LEMMA LessWellFounded == IsWellFoundedOn(Less, Nat)
BY NatLessThanWellFounded DEF Less, OpToRel

\* A set of numbers has a least one.
LEMMA LeastNumber ==
    ASSUME NEW S \in SUBSET Nat, S # {}
    PROVE  \E m \in S : \A k \in S : m <= k
<1>1. PICK m \in S : \A k \in S : <<k, m>> \notin Less BY LessWellFounded, WFMin
<1>2. ASSUME NEW k \in S PROVE m <= k
  <2>1. k \in Nat /\ m \in Nat OBVIOUS
  <2>2. ASSUME k < m PROVE <<k, m>> \in Less
    <3> DEFINE p == <<k, m>>
    <3>1. p \in Nat \X Nat /\ p[1] = k /\ p[2] = m BY <2>1
    <3> QED BY <2>2, <3>1 DEF Less
  <2> QED BY <1>1, <2>1, <2>2
<1> QED BY <1>2

\* The places the pasted nodes take, counted from the copied nodes' order, are
\* all there: every one comes from some copied node.
LEMMA EveryPlaceTaken ==
    ASSUME NEW F \in SUBSET Nat, IsFiniteSet(F), NEW k \in 1 .. Cardinality(F)
    PROVE  \E n \in F : Cardinality({m \in F : m <= n}) = k
<1> DEFINE Upto(n) == {m \in F : m <= n}
           rank == [n \in F |-> Cardinality(Upto(n))]
           N == Cardinality(F)
<1>0. N \in Nat BY FS_CardinalityType
<1>1. \A n \in F : /\ IsFiniteSet(Upto(n)) /\ Cardinality(Upto(n)) \in Nat
                   /\ Cardinality(Upto(n)) \in 1 .. N
  <2> TAKE n \in F
  <2>1. Upto(n) \in SUBSET F OBVIOUS
  <2>2. IsFiniteSet(Upto(n)) /\ Cardinality(Upto(n)) <= N BY <2>1, FS_Subset
  <2>3. Cardinality(Upto(n)) \in Nat BY <2>2, FS_CardinalityType
  <2>4. n \in Upto(n) OBVIOUS
  <2> HIDE DEF Upto
  <2>5. Cardinality(Upto(n)) # 0 BY <2>2, <2>4, FS_EmptySet
  <2> QED BY <2>2, <2>3, <2>5, <1>0
<1>2. ASSUME NEW m \in F, NEW n \in F, m < n
      PROVE  Cardinality(Upto(m)) # Cardinality(Upto(n))
  <2>1. m \in Nat /\ n \in Nat OBVIOUS
  <2>2. Upto(m) \in SUBSET Upto(n)
    <3> SUFFICES ASSUME NEW x \in F, x <= m PROVE x <= n OBVIOUS
    <3>1. x \in Nat OBVIOUS
    <3> QED BY <1>2, <2>1, <3>1
  <2>3. n \in Upto(n) /\ n \notin Upto(m) BY <1>2, <2>1
  <2> HIDE DEF Upto
  <2> QED BY <1>1, <2>2, <2>3, FS_Subset
<1>3. rank \in Injection(F, 1 .. N)
  <2>1. rank \in [F -> 1 .. N] BY <1>1
  <2>2. \A m, n \in F : rank[m] = rank[n] => m = n BY <1>2
  <2> HIDE DEF rank, N
  <2> QED BY <2>1, <2>2 DEF Injection, IsInjective
<1>4. IsFiniteSet(1 .. N) /\ Cardinality(1 .. N) = N BY <1>0, FS_Interval
<1>5. rank \in Surjection(F, 1 .. N)
  <2> HIDE DEF rank
  <2> QED BY <1>3, <1>4, FS_Injection
<1>6. PICK n \in F : rank[n] = k
  <2> HIDE DEF rank
  <2> QED BY <1>5 DEF Surjection
<1> QED BY <1>6

-----------------------------------------------------------------------------
(* Documents: what the operators on them keep *)

\* What is typed stays so when more nodes have been made.
LEMMA NodesGrow ==
    ASSUME NEW k \in Nat, NEW m \in Nat, k <= m
    PROVE  /\ NodeData(k) \subseteq NodeData(m)
           /\ \A f : IsDrawing(f, k) => IsDrawing(f, m)
           /\ \A ls : AreLinks(ls, k) => AreLinks(ls, m)
<1>1. 0 .. k \subseteq 0 .. m /\ 1 .. k \subseteq 1 .. m OBVIOUS
<1>2. NodeData(k) \subseteq NodeData(m) BY <1>1 DEF NodeData
<1>3. ASSUME NEW f, IsDrawing(f, k) PROVE IsDrawing(f, m)
  BY <1>1, <1>2, <1>3 DEF IsDrawing
<1>4. ASSUME NEW ls, AreLinks(ls, k) PROVE AreLinks(ls, m)
  BY <1>1, <1>4 DEF AreLinks
<1> QED BY <1>2, <1>3, <1>4

LEMMA DocumentsGrow ==
    ASSUME NEW k \in Nat, NEW m \in Nat, k <= m
    PROVE  /\ \A d : IsDocument(d, k) => IsDocument(d, m)
           /\ \A s : IsHistory(s, k) => IsHistory(s, m)
           /\ \A p : IsPreview(p, k) => IsPreview(p, m)
<1>1. \A d : IsDocument(d, k) => IsDocument(d, m) BY NodesGrow DEF IsDocument
<1>2. \A s : IsHistory(s, k) => IsHistory(s, m) BY <1>1 DEF IsHistory
<1>3. 1 .. k \subseteq 1 .. m OBVIOUS
<1>4. \A p : IsPreview(p, k) => IsPreview(p, m) BY NodesGrow, <1>3 DEF IsPreview
<1> QED BY <1>1, <1>2, <1>4

LEMMA JobsGrow ==
    ASSUME NEW k \in Nat, NEW m \in Nat, k <= m
    PROVE  Job(k) \subseteq Job(m)
<1>1. 0 .. k \subseteq 0 .. m /\ 1 .. k \subseteq 1 .. m OBVIOUS
<1> QED BY <1>1, NodesGrow DEF Job

LEMMA NoNodes == ASSUME NEW k PROVE IsDrawing(<<>>, k) /\ AreLinks({}, k)
BY DEF IsDrawing, AreLinks

LEMMA BlankTyped ==
    ASSUME NEW k \in Nat, NEW kind \in Kinds
    PROVE  /\ Blank(kind) \in NodeData(k)
           /\ \A n \in 0 .. k : Filled(kind, n) \in NodeData(k)
<1>1. Blank(kind) \in NodeData(k) BY DEF Blank, NodeData, Statuses, Unset
<1>2. ASSUME NEW n \in 0 .. k
      PROVE  [Blank(kind) EXCEPT !.status = "success", !.shows = n] \in NodeData(k)
  BY <1>1 DEF NodeData, Statuses
<1> QED BY <1>1, <1>2 DEF Filled

LEMMA JoinDrawing ==
    ASSUME NEW k, NEW f, NEW g, IsDrawing(f, k), IsDrawing(g, k)
    PROVE  IsDrawing(Join(f, g), k)
BY DEF IsDrawing, Join

LEMMA AddedDrawing ==
    ASSUME NEW k, NEW f, NEW x, NEW rec, IsDrawing(f, k), x \in 1 .. k, rec \in NodeData(k)
    PROVE  IsDrawing(Added(f, x, rec), k)
BY JoinDrawing DEF IsDrawing, Added

LEMMA UpdateDrawing ==
    ASSUME NEW k, NEW f, NEW x, NEW rec, IsDrawing(f, k), x \in DOMAIN f => rec \in NodeData(k)
    PROVE  IsDrawing(Update(f, x, rec), k)
BY DEF IsDrawing, Update

LEMMA MarkDrawing ==
    ASSUME NEW k, NEW f, NEW set, NEW status \in Statuses, IsDrawing(f, k)
    PROVE  IsDrawing(Mark(f, set, status), k)
BY DEF IsDrawing, Mark, NodeData

LEMMA PickDrawing ==
    ASSUME NEW k, NEW f, NEW set, IsDrawing(f, k)
    PROVE  IsDrawing(Pick(f, set), k) /\ IsDrawing(Without(f, set), k)
BY DEF IsDrawing, Pick, Without

LEMMA ShownDrawing ==
    ASSUME NEW k \in Nat, NEW f, NEW set, IsDrawing(f, k)
    PROVE  IsDrawing(Shown(f, set), k)
<1>1. ASSUME NEW x \in DOMAIN f
      PROVE  [f[x] EXCEPT !.shows = x, !.status = "success"] \in NodeData(k)
  <2>1. f[x] \in NodeData(k) /\ x \in 0 .. k BY DEF IsDrawing
  <2> QED BY <2>1 DEF NodeData, Statuses
<1> QED BY <1>1 DEF IsDrawing, Shown

LEMMA RegroupedDrawing ==
    ASSUME NEW k \in Nat, NEW f, NEW gone, IsDrawing(f, k)
    PROVE  IsDrawing(Regrouped(f, gone), k)
<1>1. ASSUME NEW n \in DOMAIN f PROVE Regrouped(f, gone)[n] \in NodeData(k)
  <2> DEFINE kids == f[n].kids \ gone
             chosen == IF f[n].primary \in kids THEN f[n].primary
                       ELSE IF kids = {} THEN Unset
                       ELSE CHOOSE x \in kids : \A other \in kids : x <= other
             shows == IF chosen \in DOMAIN f /\ f[chosen].shows # Unset
                      THEN f[chosen].shows ELSE f[n].shows
  <2>1. f[n] \in NodeData(k) BY DEF IsDrawing
  <2>2. kids \in SUBSET (1 .. k) BY <2>1 DEF NodeData
  <2>3. chosen \in 0 .. k
    <3>1. ASSUME kids # {} PROVE \E x \in kids : \A other \in kids : x <= other
      <4>1. kids \in SUBSET Nat BY <2>2
      <4> HIDE DEF kids
      <4> QED BY <3>1, <4>1, LeastNumber
    <3> HIDE DEF kids
    <3>2. ASSUME kids # {}
          PROVE  (CHOOSE x \in kids : \A other \in kids : x <= other) \in kids
      BY <3>1, <3>2
    <3>3. \A x \in kids : x \in 0 .. k BY <2>2
    <3>4. 0 \in 0 .. k OBVIOUS
    <3> QED BY <3>2, <3>3, <3>4 DEF Unset
  <2> HIDE DEF chosen
  <2>4. shows \in 0 .. k BY <2>1 DEF IsDrawing, NodeData
  <2> HIDE DEF shows, kids
  <2>5. [f[n] EXCEPT !.kids = kids, !.primary = chosen, !.shows = shows] \in NodeData(k)
    BY <2>1, <2>2, <2>3, <2>4 DEF NodeData
  <2>6. \/ Regrouped(f, gone)[n] = f[n]
        \/ Regrouped(f, gone)[n] = [f[n] EXCEPT !.kids = kids, !.primary = chosen, !.shows = shows]
    BY DEF Regrouped, kids, chosen, shows
  <2> QED BY <2>1, <2>5, <2>6
<1>2. DOMAIN Regrouped(f, gone) = DOMAIN f BY DEF Regrouped
<1>3. Regrouped(f, gone) = [n \in DOMAIN Regrouped(f, gone) |-> Regrouped(f, gone)[n]] BY DEF Regrouped
<1> QED BY <1>1, <1>2, <1>3 DEF IsDrawing

-----------------------------------------------------------------------------
(* Types: what every edit has in common *)

LEMMA BornTyped ==
    ASSUME TypeOK
    PROVE  /\ born \in Nat /\ MaxNodes \in Nat /\ born <= MaxNodes
           /\ \A m \in born .. MaxNodes : m \in Nat /\ born <= m
BY BoundsAssumption DEF TypeOK, DocTyped

LEMMA HistoryKept ==
    ASSUME TypeOK, keepHistory, born' \in born .. MaxNodes,
           dirty' \in BOOLEAN, commit' \in BOOLEAN
    PROVE  HistoryTyped'
<1>1. born' \in Nat /\ born \in Nat /\ born <= born' BY BornTyped
<1>2. /\ \A d : IsDocument(d, born) => IsDocument(d, born')
      /\ \A h : IsHistory(h, born) => IsHistory(h, born')
  BY <1>1, DocumentsGrow
<1> QED BY <1>2 DEF TypeOK, HistoryTyped, keepHistory

LEMMA JobsKept ==
    ASSUME TypeOK, UNCHANGED jobs, born' \in born .. MaxNodes
    PROVE  JobsTyped'
<1>1. Job(born) \subseteq Job(born') BY BornTyped, JobsGrow
<1> QED BY <1>1 DEF TypeOK, JobsTyped

LEMMA PageKept ==
    ASSUME TypeOK, born' \in born .. MaxNodes
    PROVE  /\ IsPreview(preview, born')
           /\ running \in 0 .. born'
           /\ IsDocument(clipboard, born')
           /\ Unset \in 0 .. born'
BY BornTyped, DocumentsGrow DEF TypeOK, RestTyped, Unset

LEMMA RestKept ==
    ASSUME TypeOK, keepRest, born' \in born .. MaxNodes, acts' \in Nat
    PROVE  JobsTyped' /\ RestTyped'
BY JobsKept, PageKept DEF keepRest, RestTyped

LEMMA ActTyped == TypeOK /\ Act => acts' \in Nat
BY DEF TypeOK, RestTyped, Act

LEMMA SetDocTyped ==
    ASSUME NEW ns, NEW ls, SetDoc(ns, ls)
    PROVE  /\ nodes' = ns /\ links' = ls /\ dirty' /\ dirty' \in BOOLEAN /\ commit' \in BOOLEAN
BY DEF SetDoc, HistoryEffect

\* An edit of the document that is itself typed.
LEMMA EditTyped ==
    ASSUME TypeOK, keepHistory, keepRest, acts' \in Nat, born' \in born .. MaxNodes,
           NEW ns, NEW ls, SetDoc(ns, ls), IsDrawing(ns, born'), AreLinks(ls, born')
    PROVE  TypeOK'
<1>1. HistoryTyped' BY SetDocTyped, HistoryKept
<1>2. JobsTyped' /\ RestTyped' BY RestKept
<1>3. DocTyped' BY SetDocTyped, BornTyped DEF DocTyped
<1> QED BY <1>1, <1>2, <1>3 DEF TypeOK

\* The document that is open, seen when more nodes have been made.
LEMMA OpenDocument ==
    ASSUME TypeOK, born' \in born .. MaxNodes
    PROVE  /\ IsDrawing(nodes, born') /\ AreLinks(links, born')
           /\ \A n \in DOMAIN nodes : n \in 1 .. born' /\ nodes[n] \in NodeData(born')
<1>1. IsDrawing(nodes, born') /\ AreLinks(links, born')
  BY BornTyped, NodesGrow DEF TypeOK, DocTyped
<1> QED BY <1>1 DEF IsDrawing

LEMMA OneMore ==
    ASSUME TypeOK, born < MaxNodes
    PROVE  /\ born + 1 \in born .. MaxNodes /\ born + 1 \in 1 .. (born + 1)
           /\ born + 1 \in Nat /\ \A n \in 1 .. born : n \in 1 .. (born + 1)
BY BornTyped

-----------------------------------------------------------------------------
(* Types: the user's edits *)

LEMMA CreateNodeTyped == ASSUME TypeOK, NEW kind \in Kinds, CreateNode(kind) PROVE TypeOK'
<1>1. born' \in born .. MaxNodes /\ born' \in 1 .. born' /\ born' \in Nat
  BY OneMore DEF CreateNode
<1>2. IsDrawing(Added(nodes, born', Blank(kind)), born')
  BY <1>1, OpenDocument, BlankTyped, AddedDrawing
<1> QED BY <1>1, <1>2, OpenDocument, ActTyped, EditTyped DEF CreateNode, Editing

LEMMA InsertContentTyped ==
    ASSUME TypeOK, NEW kind \in Kinds, InsertContent(kind) PROVE TypeOK'
<1>1. born' \in born .. MaxNodes /\ born' \in 1 .. born' /\ born' \in Nat
  BY OneMore DEF InsertContent
<1>2. Filled(kind, born') \in NodeData(born') BY <1>1, BlankTyped
<1>3. IsDrawing(Added(nodes, born', Filled(kind, born')), born')
  BY <1>1, <1>2, OpenDocument, AddedDrawing
<1> QED BY <1>1, <1>3, OpenDocument, ActTyped, EditTyped DEF InsertContent

LEMMA LinksTyped ==
    ASSUME NEW k \in Nat, NEW ls, AreLinks(ls, k)
    PROVE  /\ \A a, b \in 1 .. k : AreLinks(ls \cup {<<a, b>>}, k)
           /\ \A set : AreLinks(ls \ set, k)
           /\ \A gone : AreLinks(Unlinked(ls, gone), k)
BY DEF AreLinks, Unlinked

LEMMA OrientedTyped ==
    ASSUME NEW k \in Nat, NEW ls, AreLinks(ls, k), NEW ns, NEW a \in 1 .. k, NEW b \in 1 .. k
    PROVE  AreLinks(ls \cup {Oriented(a, b, ns)}, k)
BY LinksTyped DEF Oriented

LEMMA ConnectNodesTyped ==
    ASSUME TypeOK, NEW a, NEW b, ConnectNodes(a, b) PROVE TypeOK'
<1>1. born' \in born .. MaxNodes /\ born' \in Nat BY BornTyped DEF ConnectNodes
<1>2. a \in 1 .. born' /\ b \in 1 .. born' BY <1>1, OpenDocument DEF ConnectNodes
<1>3. AreLinks(links \cup {Oriented(a, b, nodes)}, born')
  BY <1>1, <1>2, OpenDocument, OrientedTyped
<1> QED BY <1>1, <1>3, OpenDocument, ActTyped, EditTyped DEF ConnectNodes, Editing

LEMMA CreateConnectedNodeTyped ==
    ASSUME TypeOK, NEW a, NEW kind \in Kinds, CreateConnectedNode(a, kind) PROVE TypeOK'
<1> DEFINE ns == Added(nodes, born', Blank(kind))
<1>1. born' \in born .. MaxNodes /\ born' \in 1 .. born' /\ born' \in Nat
  BY OneMore DEF CreateConnectedNode
<1>2. IsDrawing(ns, born') BY <1>1, OpenDocument, BlankTyped, AddedDrawing
<1>3. a \in 1 .. born' BY <1>1, OpenDocument DEF CreateConnectedNode
<1> HIDE DEF ns
<1>4. AreLinks(links \cup {Oriented(a, born', ns)}, born')
  BY <1>1, <1>3, OpenDocument, OrientedTyped
<1>5. SetDoc(ns, links \cup {Oriented(a, born', ns)}) BY DEF CreateConnectedNode, ns
<1> QED BY <1>1, <1>2, <1>4, <1>5, ActTyped, EditTyped DEF CreateConnectedNode, Editing

LEMMA DeleteNodesTyped == ASSUME TypeOK, NEW ids, DeleteNodes(ids) PROVE TypeOK'
<1> DEFINE gone == ids \cup UNION {nodes[n].kids : n \in ids}
           ns == Regrouped(Without(nodes, gone), gone)
<1>1. born' \in born .. MaxNodes /\ born' \in Nat BY BornTyped DEF DeleteNodes
<1>2. SetDoc(ns, Unlinked(links, gone)) /\ running' = IF running \in gone THEN Unset ELSE running
  BY DEF DeleteNodes
<1>3. keepHistory /\ UNCHANGED <<born, preview, jobs, clipboard>> /\ Act BY DEF DeleteNodes, Editing
<1> HIDE DEF gone
<1>4. IsDrawing(ns, born') BY <1>1, OpenDocument, PickDrawing, RegroupedDrawing
<1>5. AreLinks(Unlinked(links, gone), born') BY <1>1, OpenDocument, LinksTyped
<1>6. DocTyped' BY <1>1, <1>2, <1>4, <1>5, SetDocTyped, BornTyped DEF DocTyped
<1>7. HistoryTyped' BY <1>1, <1>2, <1>3, SetDocTyped, HistoryKept
<1>8. JobsTyped' BY <1>1, <1>3, JobsKept
<1>9. RestTyped' BY <1>1, <1>2, <1>3, PageKept, ActTyped DEF RestTyped
<1> QED BY <1>6, <1>7, <1>8, <1>9 DEF TypeOK

LEMMA ClearCanvasTyped == ASSUME TypeOK, ClearCanvas PROVE TypeOK'
<1>1. born' \in born .. MaxNodes /\ born' \in Nat BY BornTyped DEF ClearCanvas
<1>2. SetDoc(<<>>, {}) /\ keepHistory BY DEF ClearCanvas
<1>3. DocTyped' BY <1>1, <1>2, SetDocTyped, BornTyped, NoNodes DEF DocTyped
<1>4. HistoryTyped' BY <1>1, <1>2, SetDocTyped, HistoryKept
<1>5. JobsTyped' BY <1>1, JobsKept DEF ClearCanvas
<1>6. RestTyped' BY <1>1, PageKept, ActTyped DEF RestTyped, ClearCanvas, Editing
<1> QED BY <1>3, <1>4, <1>5, <1>6 DEF TypeOK

LEMMA DeleteLinkTyped == ASSUME TypeOK, NEW l, DeleteLink(l) PROVE TypeOK'
<1>1. born' \in born .. MaxNodes /\ born' \in Nat BY BornTyped DEF DeleteLink
<1>2. AreLinks(links \ {l}, born') BY <1>1, OpenDocument, LinksTyped
<1> QED BY <1>1, <1>2, OpenDocument, ActTyped, EditTyped DEF DeleteLink, Editing

LEMMA DuplicateNodeTyped == ASSUME TypeOK, NEW n, DuplicateNode(n) PROVE TypeOK'
<1>1. born' \in born .. MaxNodes /\ born' \in 1 .. born' /\ born' \in Nat
  BY OneMore DEF DuplicateNode
<1>2. IsDrawing(Added(nodes, born', nodes[n]), born')
  BY <1>1, OpenDocument, AddedDrawing DEF DuplicateNode
<1> QED BY <1>1, <1>2, OpenDocument, ActTyped, EditTyped DEF DuplicateNode, Editing

LEMMA TouchTyped == ASSUME TypeOK, Touch PROVE TypeOK'
<1>1. born' \in born .. MaxNodes BY BornTyped DEF Touch
<1> QED BY <1>1, OpenDocument, ActTyped, EditTyped DEF Touch, Editing

LEMMA EditTextTyped == ASSUME TypeOK, NEW n, EditText(n) PROVE TypeOK'
<1>1. born' \in born .. MaxNodes /\ born' \in Nat BY BornTyped DEF EditText
<1>2. PICK content \in {Unset, n} :
         SetDoc(Update(nodes, n, [nodes[n] EXCEPT !.shows = content]), links)
  BY DEF EditText
<1>3. n \in DOMAIN nodes BY DEF EditText
<1>4. nodes[n] \in NodeData(born') /\ content \in 0 .. born'
  BY <1>1, <1>3, OpenDocument DEF Unset
<1>5. [nodes[n] EXCEPT !.shows = content] \in NodeData(born') BY <1>4 DEF NodeData
<1>6. IsDrawing(Update(nodes, n, [nodes[n] EXCEPT !.shows = content]), born')
  BY <1>1, <1>5, OpenDocument, UpdateDrawing
<1> QED BY <1>1, <1>2, <1>6, OpenDocument, ActTyped, EditTyped DEF EditText, Editing

LEMMA SetBatchPrimaryTyped == ASSUME TypeOK, NEW k, SetBatchPrimary(k) PROVE TypeOK'
<1> DEFINE ns == [n \in DOMAIN nodes |->
                     IF n = nodes[k].root
                     THEN [nodes[n] EXCEPT !.shows = nodes[k].shows, !.primary = k]
                     ELSE nodes[n]]
<1>0. /\ SetDoc(ns, links) /\ UNCHANGED born /\ keepHistory /\ keepRest /\ Act
      /\ k \in DOMAIN nodes
  BY DEF SetBatchPrimary, Editing
<1>1. born' \in born .. MaxNodes /\ born' \in Nat
  <2>1. born' = born BY <1>0
  <2> QED BY <2>1, BornTyped
<1>2. k \in DOMAIN nodes BY <1>0
<1>3. \A n \in DOMAIN nodes : ns[n] \in NodeData(born')
  <2> SUFFICES ASSUME NEW n \in DOMAIN nodes
               PROVE  [nodes[n] EXCEPT !.shows = nodes[k].shows, !.primary = k] \in NodeData(born')
    BY <1>1, OpenDocument
  <2>1. nodes[n] \in NodeData(born') /\ nodes[k] \in NodeData(born') /\ k \in 0 .. born'
    BY <1>1, <1>2, OpenDocument
  <2> QED BY <2>1 DEF NodeData
<1>4. IsDrawing(ns, born') BY <1>1, <1>3, OpenDocument DEF IsDrawing
<1> HIDE DEF ns
<1> QED BY <1>0, <1>1, <1>4, OpenDocument, ActTyped, EditTyped

LEMMA ConfigFromTextTyped == ASSUME TypeOK, NEW n, ConfigFromText(n) PROVE TypeOK'
<1>1. born' \in born .. MaxNodes /\ born' \in 1 .. born' /\ born' \in Nat
  BY OneMore DEF ConfigFromText
<1>2. "success" \in Statuses /\ "config" \in Kinds BY DEF Statuses, Kinds
<1>3. IsDrawing(Added(Mark(nodes, {n}, "success"), born', Blank("config")), born')
  BY <1>1, <1>2, OpenDocument, BlankTyped, MarkDrawing, AddedDrawing
<1>4. AreLinks(links \cup {<<n, born'>>}, born')
  BY <1>1, OpenDocument, LinksTyped DEF ConfigFromText
<1> QED BY <1>1, <1>3, <1>4, ActTyped, EditTyped DEF ConfigFromText, Editing

-----------------------------------------------------------------------------
(* Types: the undo history *)

\* The documents as a set, for the theorems about sequences.
Drawings(k) == UNION {[ns -> NodeData(k)] : ns \in SUBSET (1 .. k)}
Documents(k) == [nodes : Drawings(k), links : SUBSET ((1 .. k) \X (1 .. k))]

LEMMA DocumentsSet == ASSUME NEW k, NEW d PROVE IsDocument(d, k) <=> d \in Documents(k)
<1>1. ASSUME NEW f PROVE IsDrawing(f, k) <=> f \in Drawings(k)
  <2>1. ASSUME IsDrawing(f, k) PROVE f \in [DOMAIN f -> NodeData(k)] BY <2>1 DEF IsDrawing
  <2>2. ASSUME IsDrawing(f, k) PROVE DOMAIN f \in SUBSET (1 .. k) BY <2>2 DEF IsDrawing
  <2>3. ASSUME NEW ns \in SUBSET (1 .. k), f \in [ns -> NodeData(k)] PROVE IsDrawing(f, k)
    BY <2>3 DEF IsDrawing
  <2> QED BY <2>1, <2>2, <2>3 DEF Drawings
<1>2. ASSUME IsDocument(d, k) PROVE d \in Documents(k)
  BY <1>1, <1>2 DEF IsDocument, Documents, AreLinks, Doc
<1>3. ASSUME d \in Documents(k) PROVE IsDocument(d, k)
  BY <1>1, <1>3 DEF IsDocument, Documents, AreLinks, Doc
<1> QED BY <1>2, <1>3

LEMMA HistorySet == ASSUME NEW k, NEW s PROVE IsHistory(s, k) <=> s \in Seq(Documents(k))
<1>1. ASSUME IsHistory(s, k) PROVE s \in Seq(Documents(k))
  <2>1. {s[i] : i \in DOMAIN s} \subseteq Documents(k) BY <1>1, DocumentsSet DEF IsHistory
  <2> QED BY <1>1, <2>1, SeqMonotonic DEF IsHistory
<1>2. ASSUME s \in Seq(Documents(k)) PROVE IsHistory(s, k)
  <2>1. DOMAIN s = 1 .. Len(s) BY <1>2, LenProperties
  <2>2. \A i \in DOMAIN s : s[i] \in Documents(k) BY <1>2, <2>1, ElementOfSeq
  <2>3. s \in Seq({s[i] : i \in DOMAIN s}) BY <1>2, SeqOfRange DEF Range
  <2> QED BY <2>2, <2>3, DocumentsSet DEF IsHistory
<1> QED BY <1>1, <1>2

LEMMA HistoryOps ==
    ASSUME NEW k, NEW s, IsHistory(s, k), NEW d, IsDocument(d, k)
    PROVE  /\ IsHistory(Append(s, d), k) /\ Len(Append(s, d)) > Len(s)
           /\ Append(s, d) # <<>>
           /\ IsHistory(<<>>, k)
           /\ \A n \in Nat : IsHistory(Recent(s, n), k)
           /\ s # <<>> => /\ IsHistory(Popped(s), k) /\ IsHistory(Tail(s), k)
                          /\ IsDocument(Top(s), k) /\ IsDocument(Head(s), k)
                          /\ Len(Tail(s)) < Len(s)
<1>1. s \in Seq(Documents(k)) /\ d \in Documents(k) BY HistorySet, DocumentsSet
<1>2. Len(s) \in Nat BY <1>1, LenProperties
<1>3. /\ Append(s, d) \in Seq(Documents(k)) /\ Len(Append(s, d)) = Len(s) + 1
      /\ Append(s, d) # <<>>
  BY <1>1, AppendProperties
<1>4. <<>> \in Seq(Documents(k)) BY EmptySeq
<1>5. ASSUME NEW n \in Nat PROVE Recent(s, n) \in Seq(Documents(k))
  <2>1. CASE Len(s) <= n BY <1>1, <2>1 DEF Recent
  <2>2. CASE ~(Len(s) <= n)
    <3>1. \A i \in Len(s) - n + 1 .. Len(s) : s[i] \in Documents(k)
      BY <1>1, <1>2, <2>2, ElementOfSeq
    <3>2. SubSeq(s, Len(s) - n + 1, Len(s)) \in Seq(Documents(k))
      BY <1>2, <3>1, SubSeqProperties
    <3> QED BY <2>2, <3>2 DEF Recent
  <2> QED BY <2>1, <2>2
<1>6. ASSUME s # <<>>
      PROVE  /\ Popped(s) \in Seq(Documents(k)) /\ Tail(s) \in Seq(Documents(k))
             /\ Top(s) \in Documents(k) /\ Head(s) \in Documents(k)
             /\ Len(Tail(s)) = Len(s) - 1
  <2>1. Len(s) \in Nat \ {0} BY <1>1, <1>6, EmptySeq
  <2>2. \A i \in 1 .. Len(s) - 1 : s[i] \in Documents(k) BY <1>1, <2>1, ElementOfSeq
  <2>3. Popped(s) \in Seq(Documents(k)) BY <2>1, <2>2, SubSeqProperties DEF Popped
  <2>4. Top(s) \in Documents(k) BY <1>1, <2>1, ElementOfSeq DEF Top
  <2> QED BY <1>1, <1>6, <2>3, <2>4, HeadTailProperties
<1>7. \A h : IsHistory(h, k) <=> h \in Seq(Documents(k)) BY HistorySet
<1>8. \A e : IsDocument(e, k) <=> e \in Documents(k) BY DocumentsSet
<1>9. Len(Append(s, d)) > Len(s) BY <1>2, <1>3
<1>10. s # <<>> => Len(Tail(s)) < Len(s) BY <1>2, <1>6
<1> HIDE DEF Documents
<1> QED BY <1>3, <1>4, <1>5, <1>6, <1>7, <1>8, <1>9, <1>10

LEMMA OpenIsDocument == ASSUME TypeOK PROVE IsDocument(Doc(nodes, links), born)
BY DEF TypeOK, DocTyped, IsDocument, Doc

LEMMA CommitHistoryTyped == ASSUME TypeOK, CommitHistory PROVE TypeOK'
<1>1. Depth - 1 \in Nat BY DepthAssumption
<1>2. IsDocument(last, born) /\ IsHistory(past, born) BY DEF TypeOK, HistoryTyped
<1>3. IsHistory(Recent(past, Depth - 1), born) BY <1>1, <1>2, HistoryOps
<1>4. /\ IsHistory(Append(Recent(past, Depth - 1), last), born) /\ IsHistory(<<>>, born)
  BY <1>2, <1>3, HistoryOps
<1>5. IsDocument(Doc(nodes, links), born) BY OpenIsDocument
<1>6. HistoryTyped' BY <1>4, <1>5 DEF TypeOK, HistoryTyped, CommitHistory, docVars
<1> QED BY <1>6 DEF TypeOK, DocTyped, JobsTyped, RestTyped, CommitHistory, docVars

LEMMA ApplyTyped ==
    ASSUME TypeOK, NEW entry, IsDocument(entry, born), ApplyHistory(entry), acts' \in Nat,
           IsHistory(past', born), IsHistory(future', born)
    PROVE  TypeOK'
<1>1. IsHistory(Append(applying, entry), born) BY HistoryOps DEF TypeOK, HistoryTyped
<1>2. DocTyped' BY DEF TypeOK, DocTyped, ApplyHistory, IsDocument
<1>3. HistoryTyped' BY <1>1 DEF TypeOK, HistoryTyped, ApplyHistory
<1> QED BY <1>2, <1>3 DEF TypeOK, JobsTyped, RestTyped, ApplyHistory

LEMMA UndoTyped == ASSUME TypeOK, Undo PROVE TypeOK'
<1>1. IsHistory(past, born) /\ IsHistory(future, born) /\ IsDocument(last, born)
  BY DEF TypeOK, HistoryTyped
<1>2. /\ IsHistory(Popped(past), born) /\ IsDocument(Top(past), born)
      /\ IsHistory(Append(future, last), born)
  BY <1>1, HistoryOps DEF Undo
<1> QED BY <1>2, ApplyTyped, ActTyped DEF Undo

LEMMA RedoTyped == ASSUME TypeOK, Redo PROVE TypeOK'
<1>1. IsHistory(past, born) /\ IsHistory(future, born) /\ IsDocument(last, born)
  BY DEF TypeOK, HistoryTyped
<1>2. /\ IsHistory(Popped(future), born) /\ IsDocument(Top(future), born)
      /\ IsHistory(Append(past, last), born)
  BY <1>1, HistoryOps DEF Redo
<1>3. acts' \in Nat BY DEF Redo, TypeOK, RestTyped
<1> QED BY <1>2, <1>3, ApplyTyped DEF Redo

LEMMA HistoryAppliedTyped == ASSUME TypeOK, HistoryApplied PROVE TypeOK'
<1>1. IsHistory(applying, born) /\ IsDocument(last, born) BY DEF TypeOK, HistoryTyped
<1>2. IsHistory(Tail(applying), born) /\ IsDocument(Head(applying), born)
  BY <1>1, HistoryOps DEF HistoryApplied
<1>3. HistoryTyped' BY <1>2 DEF TypeOK, HistoryTyped, HistoryApplied, docVars
<1> QED BY <1>3 DEF TypeOK, DocTyped, JobsTyped, RestTyped, HistoryApplied, docVars

LEMMA PressNodeTyped == ASSUME TypeOK, PressNode PROVE TypeOK'
<1>1. HistoryTyped' BY DEF TypeOK, HistoryTyped, PressNode, docVars
<1>2. acts' \in Nat BY ActTyped DEF PressNode, Editing
<1> QED BY <1>1, <1>2 DEF TypeOK, DocTyped, JobsTyped, RestTyped, PressNode, docVars, keepRest

LEMMA DragTyped ==
    ASSUME TypeOK, DragNode \/ \E cancelled \in BOOLEAN : ReleaseNode(cancelled)
    PROVE  TypeOK'
<1>1. /\ UNCHANGED <<past, last, future, replaying, applying, born, acts>> /\ keepRest
      /\ held' \in {"no", "moved"}
      /\ SetDoc(nodes, links) \/ UNCHANGED <<nodes, links, dirty, commit>>
  BY DEF DragNode, ReleaseNode
<1>2. /\ UNCHANGED <<nodes, links>> /\ dirty' \in BOOLEAN /\ commit' \in BOOLEAN
  BY <1>1, SetDocTyped DEF TypeOK, HistoryTyped
<1>3. HistoryTyped' BY <1>1, <1>2 DEF TypeOK, HistoryTyped
<1> QED BY <1>1, <1>2, <1>3 DEF TypeOK, DocTyped, JobsTyped, RestTyped, keepRest

LEMMA ReloadTyped == ASSUME TypeOK, Reload PROVE TypeOK'
<1>1. "error" \in Statuses BY DEF Statuses
<1>2. IsDrawing(nodes', born) /\ AreLinks(links, born)
  BY <1>1, MarkDrawing DEF TypeOK, DocTyped, Reload, Opened
<1>3. IsDocument(Doc(nodes', links), born) BY <1>2 DEF IsDocument, Doc
<1>4. IsHistory(<<>>, born) BY HistoryOps DEF TypeOK, HistoryTyped
<1>5. IsDocument(Doc(<<>>, {}), born) BY NoNodes DEF IsDocument, Doc
<1>6. acts' \in Nat BY ActTyped DEF Reload
<1>7. HistoryTyped' BY <1>3, <1>4 DEF HistoryTyped, Reload
<1>8. JobsTyped' BY DEF JobsTyped, Reload
<1>9. RestTyped' BY <1>5, <1>6, BornTyped DEF RestTyped, Reload, IsPreview, Unset
<1>10. DocTyped' BY <1>2 DEF TypeOK, DocTyped, Reload
<1> QED BY <1>7, <1>8, <1>9, <1>10 DEF TypeOK

LEMMA InitTyped == Init => TypeOK
<1> SUFFICES ASSUME Init PROVE TypeOK OBVIOUS
<1>1. PICK start \in Starts :
         /\ nodes = start.nodes /\ links = start.links /\ born = start.born
         /\ last = Doc(start.nodes, start.links)
  BY DEF Init
<1>2. DocTyped BY <1>1, StartsAssumption DEF DocTyped
<1>3. IsDocument(last, born) BY <1>1, <1>2 DEF DocTyped, IsDocument, Doc
<1>4. IsHistory(<<>>, born) BY <1>3, EmptySeq, HistorySet
<1>5. IsDocument(Doc(<<>>, {}), born) BY NoNodes DEF IsDocument, Doc
<1>6. HistoryTyped BY <1>3, <1>4 DEF HistoryTyped, Init
<1>7. JobsTyped BY DEF JobsTyped, Init
<1>8. RestTyped BY <1>2, <1>5, BoundsAssumption DEF RestTyped, Init, IsPreview, Unset, DocTyped
<1> QED BY <1>2, <1>6, <1>7, <1>8 DEF TypeOK

-----------------------------------------------------------------------------
(* Types: the clipboard *)

LEMMA CopySelectedTyped == ASSUME TypeOK, NEW ids, CopySelected(ids) PROVE TypeOK'
<1>1. IsDrawing(Pick(nodes, ids), born) BY PickDrawing DEF TypeOK, DocTyped
<1>2. AreLinks({l \in links : l[1] \in ids /\ l[2] \in ids}, born)
  BY DEF TypeOK, DocTyped, AreLinks
<1>3. IsDocument(clipboard', born) BY <1>1, <1>2 DEF IsDocument, Doc, CopySelected
<1>4. acts' \in Nat BY ActTyped DEF CopySelected, Editing
<1> QED BY <1>3, <1>4 DEF TypeOK, DocTyped, HistoryTyped, JobsTyped, RestTyped, CopySelected,
             docVars, historyVars

LEMMA PasteTyped == ASSUME TypeOK, Paste PROVE TypeOK'
<1> DEFINE from == DOMAIN clipboard.nodes
           place(n) == born + Cardinality({m \in from : m <= n})
           source(k) == CHOOSE n \in from : place(n) = k
           copies == [k \in Fresh(Cardinality(from)) |-> clipboard.nodes[source(k)]]
           joined == {<<place(l[1]), place(l[2])>> : l \in clipboard.links}
<1>1. /\ Act /\ keepHistory /\ keepRest
      /\ from # {} /\ born + Cardinality(from) <= MaxNodes
      /\ born' = born + Cardinality(from)
      /\ SetDoc(Join(nodes, copies), links \cup joined)
  BY DEF Paste, Editing
<1>2. /\ IsDrawing(clipboard.nodes, born) /\ AreLinks(clipboard.links, born)
      /\ born \in Nat /\ MaxNodes \in Nat
  BY BornTyped DEF TypeOK, RestTyped, IsDocument
<1>3. from \in SUBSET (1 .. born) BY <1>2 DEF IsDrawing
<1>4. from \in SUBSET Nat BY <1>2, <1>3
<1>5. IsFiniteSet(1 .. born) BY <1>2, FS_Interval
<1>6. IsFiniteSet(from) /\ Cardinality(from) \in Nat /\ Cardinality(from) # 0
  BY <1>1, <1>3, <1>5, FS_Subset, FS_CardinalityType, FS_EmptySet
<1>7. born' \in born .. MaxNodes /\ born' \in Nat /\ born >= 1
  <2>1. born >= 1 BY <1>1, <1>2, <1>3
  <2> HIDE DEF from
  <2> QED BY <1>1, <1>2, <1>6, <2>1
<1>8. ASSUME NEW n PROVE place(n) \in 1 .. born'
  <2> DEFINE upto == {m \in from : m <= n}
  <2>1. upto \in SUBSET from OBVIOUS
  <2> HIDE DEF upto, from
  <2>2. IsFiniteSet(upto) /\ Cardinality(upto) <= Cardinality(from) BY <2>1, <1>6, FS_Subset
  <2>3. Cardinality(upto) \in Nat BY <2>2, FS_CardinalityType
  <2>4. born + Cardinality(upto) \in 1 .. born' BY <1>1, <1>2, <1>6, <1>7, <2>2, <2>3
  <2> QED BY <2>4 DEF upto
<1>9. \A k \in Fresh(Cardinality(from)) : source(k) \in from
  <2> SUFFICES ASSUME NEW k \in Fresh(Cardinality(from)) PROVE \E n \in from : place(n) = k
    OBVIOUS
  <2> HIDE DEF from
  <2>1. k - born \in 1 .. Cardinality(from) /\ k \in Int BY <1>2, <1>6 DEF Fresh
  <2>2. PICK n \in from : Cardinality({m \in from : m <= n}) = k - born
    BY <1>4, <1>6, <2>1, EveryPlaceTaken
  <2> QED BY <1>2, <2>1, <2>2
<1>10. IsDrawing(clipboard.nodes, born') BY <1>2, <1>7, NodesGrow, BornTyped
<1>11. IsDrawing(copies, born')
  <2>1. \A k \in Fresh(Cardinality(from)) : clipboard.nodes[source(k)] \in NodeData(born')
    <3> HIDE DEF source
    <3> QED BY <1>9, <1>10 DEF IsDrawing
  <2>2. Fresh(Cardinality(from)) \subseteq 1 .. born'
    <3> HIDE DEF from
    <3> QED BY <1>1, <1>2, <1>6 DEF Fresh
  <2> HIDE DEF source, from
  <2> QED BY <2>1, <2>2 DEF IsDrawing
<1>12. IsDrawing(Join(nodes, copies), born')
  <2> HIDE DEF copies
  <2> QED BY <1>7, <1>11, OpenDocument, JoinDrawing
<1>13. AreLinks(links \cup joined, born')
  <2>1. joined \subseteq (1 .. born') \X (1 .. born')
    <3> HIDE DEF place
    <3> QED BY <1>8
  <2> HIDE DEF joined
  <2> QED BY <1>7, <2>1, OpenDocument DEF AreLinks
<1> HIDE DEF copies, joined
<1> QED BY <1>1, <1>7, <1>12, <1>13, ActTyped, EditTyped

-----------------------------------------------------------------------------
(* Types: the preview *)

LEMMA DirtyTyped ==
    ASSUME TypeOK, HistoryEffect(dirty)
    PROVE  dirty' \in BOOLEAN /\ commit' \in BOOLEAN
BY DEF TypeOK, HistoryTyped, HistoryEffect

LEMMA PreviewOf ==
    ASSUME TypeOK, preview.on
    PROVE  /\ preview = [on |-> TRUE, nodes |-> preview.nodes, links |-> preview.links,
                         runs |-> preview.runs]
           /\ IsDrawing(preview.nodes, born) /\ AreLinks(preview.links, born)
           /\ preview.runs = [n \in DOMAIN preview.runs |-> preview.runs[n]]
           /\ DOMAIN preview.runs \subseteq 1 .. born
           /\ \A n \in DOMAIN preview.runs : preview.runs[n] \in Modes
BY DEF TypeOK, RestTyped, IsPreview, NoPreview

LEMMA PreviewMade ==
    ASSUME NEW k, NEW ns, IsDrawing(ns, k), NEW ls, AreLinks(ls, k), NEW rs,
           rs = [n \in DOMAIN rs |-> rs[n]], DOMAIN rs \subseteq 1 .. k,
           \A n \in DOMAIN rs : rs[n] \in Modes
    PROVE  IsPreview([on |-> TRUE, nodes |-> ns, links |-> ls, runs |-> rs], k)
<1> DEFINE p == [on |-> TRUE, nodes |-> ns, links |-> ls, runs |-> rs]
<1>1. p.nodes = ns /\ p.links = ls /\ p.runs = rs OBVIOUS
<1>2. p = [on |-> TRUE, nodes |-> p.nodes, links |-> p.links, runs |-> p.runs] OBVIOUS
<1> HIDE DEF p
<1>3. IsPreview(p, k) BY <1>1, <1>2 DEF IsPreview
<1> QED BY <1>3 DEF p

LEMMA SanitizedTyped ==
    ASSUME NEW k \in Nat, NEW node \in NodeData(k)
    PROVE  Sanitized(node) \in NodeData(k)
<1>1. ASSUME NEW root \in 0 .. k, NEW kids \in SUBSET (1 .. k), NEW primary \in 0 .. k,
             NEW shows \in 0 .. k
      PROVE  [node EXCEPT !.root = root, !.kids = kids, !.primary = primary, !.shows = shows]
                \in NodeData(k)
  BY DEF NodeData
<1>2. (IF node.kind \in {"image", "video"} THEN Unset ELSE node.shows) \in 0 .. k
  BY DEF NodeData, Unset
<1>3. Unset \in 0 .. k /\ {} \in SUBSET (1 .. k) BY DEF Unset
<1> QED BY <1>1, <1>2, <1>3 DEF Sanitized

\* One operation of the assistant keeps a preview typed.
LEMMA AppliedTyped ==
    ASSUME NEW k \in Nat, NEW p, IsPreview(p, k), p.on, NEW op \in AgentOps, Applicable(p, op),
           born \in Nat,
           op.op = "add_node" => born + 1 \in 1 .. k
    PROVE  IsPreview(Applied(p, op), k)
<1>1. /\ p = [on |-> TRUE, nodes |-> p.nodes, links |-> p.links, runs |-> p.runs]
      /\ IsDrawing(p.nodes, k) /\ AreLinks(p.links, k)
      /\ p.runs = [n \in DOMAIN p.runs |-> p.runs[n]] /\ DOMAIN p.runs \subseteq 1 .. k
      /\ \A n \in DOMAIN p.runs : p.runs[n] \in Modes
  BY DEF IsPreview, NoPreview
<1>2. ASSUME NEW ns, IsDrawing(ns, k), NEW ls, AreLinks(ls, k)
      PROVE  IsPreview([p EXCEPT !.nodes = ns, !.links = ls], k)
  <2>1. [p EXCEPT !.nodes = ns, !.links = ls]
          = [on |-> TRUE, nodes |-> ns, links |-> ls, runs |-> p.runs]
    <3> DEFINE q == [p EXCEPT !.nodes = ns, !.links = ls]
               Some == [on : {TRUE}, nodes : {p.nodes, ns}, links : {p.links, ls}, runs : {p.runs}]
    <3>1. p \in Some BY <1>1
    <3>2. q \in Some /\ q.nodes = ns /\ q.links = ls BY <3>1
    <3> HIDE DEF q
    <3>3. q = [on |-> TRUE, nodes |-> ns, links |-> ls, runs |-> p.runs] BY <3>2
    <3> QED BY <3>3 DEF q
  <2>2. IsPreview([on |-> TRUE, nodes |-> ns, links |-> ls, runs |-> p.runs], k)
    BY <1>1, <1>2, PreviewMade
  <2> QED BY <2>1, <2>2
<1>3. CASE op.op = "add_node"
  <2>1. op.kind \in Kinds BY <1>3 DEF AgentOps
  <2>2. IsDrawing(Added(p.nodes, born + 1, Blank(op.kind)), k)
    BY <1>1, <1>3, <2>1, BlankTyped, AddedDrawing
  <2>3. Applied(p, op) = [p EXCEPT !.nodes = Added(p.nodes, born + 1, Blank(op.kind))]
    BY <1>3 DEF Applied
  <2> QED BY <1>1, <2>2, <2>3 DEF IsPreview
<1>4. CASE op.op = "update_node"
  <2>1. op.node \in DOMAIN p.nodes BY <1>4 DEF Applicable
  <2>2. p.nodes[op.node] \in NodeData(k) BY <1>1, <2>1 DEF IsDrawing
  <2>3. Sanitized(p.nodes[op.node]) \in NodeData(k) BY <2>2, SanitizedTyped
  <2>4. IsDrawing(Update(p.nodes, op.node, Sanitized(p.nodes[op.node])), k)
    BY <1>1, <2>3, UpdateDrawing
  <2>5. Applied(p, op) = [p EXCEPT !.nodes = Update(p.nodes, op.node, Sanitized(p.nodes[op.node]))]
    BY <1>4 DEF Applied
  <2> QED BY <1>1, <2>4, <2>5 DEF IsPreview
<1>5. CASE op.op = "delete_node"
  <2>1. IsDrawing(Without(p.nodes, {op.node}), k) BY <1>1, PickDrawing
  <2>2. AreLinks(Unlinked(p.links, {op.node}), k) BY <1>1, LinksTyped
  <2>3. Applied(p, op) = [p EXCEPT !.nodes = Without(p.nodes, {op.node}),
                                   !.links = Unlinked(p.links, {op.node})]
    BY <1>5 DEF Applied
  <2>4. IsPreview([p EXCEPT !.nodes = Without(p.nodes, {op.node}),
                            !.links = Unlinked(p.links, {op.node})], k)
    BY <1>2, <2>1, <2>2
  <2> QED BY <2>3, <2>4
<1>6. CASE op.op = "connect_nodes"
  <2>1. op.from \in DOMAIN p.nodes /\ op.to \in DOMAIN p.nodes BY <1>6 DEF Applicable
  <2>2. op.from \in 1 .. k /\ op.to \in 1 .. k BY <1>1, <2>1 DEF IsDrawing
  <2>3. AreLinks(p.links \cup {<<op.from, op.to>>}, k) BY <1>1, <2>2, LinksTyped
  <2>4. Applied(p, op) = [p EXCEPT !.links = p.links \cup {<<op.from, op.to>>}]
    BY <1>6 DEF Applied
  <2> QED BY <1>1, <2>3, <2>4 DEF IsPreview
<1>7. CASE op.op = "delete_connections"
  <2>1. Applied(p, op) = [p EXCEPT !.links = {}] BY <1>7 DEF Applied
  <2> QED BY <1>1, <2>1 DEF IsPreview, AreLinks
<1>8. CASE op.op = "run_generation"
  <2> DEFINE runs == Join([n \in {op.node} |-> op.mode], p.runs)
  <2>1. op.mode \in Modes /\ op.node \in DOMAIN p.nodes BY <1>8 DEF AgentOps, Applicable
  <2>2. op.node \in 1 .. k BY <1>1, <2>1 DEF IsDrawing
  <2>3. /\ runs = [n \in DOMAIN runs |-> runs[n]] /\ DOMAIN runs \subseteq 1 .. k
        /\ \A n \in DOMAIN runs : runs[n] \in Modes
    BY <1>1, <2>1, <2>2 DEF Join
  <2>4. Applied(p, op) = [p EXCEPT !.runs = runs] BY <1>8 DEF Applied
  <2> HIDE DEF runs
  <2> QED BY <1>1, <2>3, <2>4 DEF IsPreview
<1> QED BY <1>3, <1>4, <1>5, <1>6, <1>7, <1>8 DEF AgentOps

LEMMA StartPreviewTyped ==
    ASSUME TypeOK, NEW op \in AgentOps, StartPreview(op) PROVE TypeOK'
<1> DEFINE source == IF preview.on THEN preview
                     ELSE [on |-> TRUE, nodes |-> nodes, links |-> links, runs |-> <<>>]
<1>1. /\ Act /\ Applicable(source, op) /\ preview' = Applied(source, op)
      /\ born' = IF op.op = "add_node" THEN born + 1 ELSE born
      /\ keepHistory /\ HistoryEffect(dirty)
      /\ UNCHANGED <<nodes, links, jobs, running, clipboard>>
  BY DEF StartPreview
<1>2. born' \in born .. MaxNodes /\ born' \in Nat /\ (op.op = "add_node" => born + 1 \in 1 .. born')
  BY <1>1, BornTyped, OneMore DEF Applicable
<1>3. IsPreview(source, born') /\ source.on
  <2>1. CASE preview.on BY <1>2, <2>1, PageKept
  <2>2. CASE ~preview.on
    <3>1. source = [on |-> TRUE, nodes |-> nodes, links |-> links, runs |-> <<>>] BY <2>2
    <3>2. IsDrawing(nodes, born') /\ AreLinks(links, born') BY <1>2, OpenDocument
    <3>3. \A rs : rs = <<>> => /\ rs = [n \in DOMAIN rs |-> rs[n]]
                              /\ DOMAIN rs \subseteq 1 .. born'
                              /\ \A n \in DOMAIN rs : rs[n] \in Modes
      OBVIOUS
    <3>4. \A rs : rs = <<>> =>
             IsPreview([on |-> TRUE, nodes |-> nodes, links |-> links, runs |-> rs], born')
      BY <3>2, <3>3, PreviewMade
    <3> QED BY <3>1, <3>4
  <2> QED BY <2>1, <2>2
<1> HIDE DEF source
<1>4. IsPreview(preview', born') BY <1>1, <1>2, <1>3, AppliedTyped, BornTyped
<1>5. HistoryTyped' BY <1>1, <1>2, DirtyTyped, HistoryKept
<1>6. JobsTyped' BY <1>1, <1>2, JobsKept
<1>7. RestTyped' BY <1>1, <1>2, <1>4, PageKept, ActTyped DEF RestTyped
<1>8. DocTyped' BY <1>1, <1>2, OpenDocument, BornTyped DEF DocTyped
<1> QED BY <1>5, <1>6, <1>7, <1>8 DEF TypeOK

LEMMA CancelPreviewTyped == ASSUME TypeOK, CancelPreview PROVE TypeOK'
<1>1. born' \in born .. MaxNodes BY BornTyped DEF CancelPreview, docVars
<1>2. HistoryTyped' BY <1>1, DirtyTyped, HistoryKept DEF CancelPreview
<1>3. IsPreview(preview', born') BY DEF CancelPreview, IsPreview
<1> QED BY <1>2, <1>3 DEF TypeOK, DocTyped, JobsTyped, RestTyped, CancelPreview, docVars

-----------------------------------------------------------------------------
(* Types: requests *)

LEMMA JobOf ==
    ASSUME TypeOK, NEW j \in DOMAIN jobs, NEW k \in born .. MaxNodes
    PROVE  /\ jobs[j] \in Job(k) /\ Owned(jobs[j]) /\ k \in Nat
           /\ jobs[j].owner \in 0 .. k /\ jobs[j].root \in 0 .. k
           /\ jobs[j].src \in NodeData(k) /\ jobs[j].src.kind \in Kinds
           /\ jobs[j].kids \in SUBSET (1 .. k) /\ jobs[j].waiting \in SUBSET (1 .. k)
           /\ jobs[j].count \in Nat /\ jobs[j].won \in BOOLEAN
           /\ jobs[j].task # "insert" => jobs[j].owner \in 1 .. k
<1>1. k \in Nat /\ Job(born) \subseteq Job(k) BY BornTyped, JobsGrow
<1>2. jobs[j] \in Job(k) /\ Owned(jobs[j]) BY <1>1 DEF TypeOK, JobsTyped
<1>3. /\ jobs[j].owner \in 0 .. k /\ jobs[j].root \in 0 .. k /\ jobs[j].src \in NodeData(k)
      /\ jobs[j].kids \in SUBSET (1 .. k) /\ jobs[j].waiting \in SUBSET (1 .. k)
      /\ jobs[j].count \in Nat /\ jobs[j].won \in BOOLEAN
  BY <1>2 DEF Job
<1>4. jobs[j].src.kind \in Kinds BY <1>3 DEF NodeData
<1>5. jobs[j].task # "insert" => jobs[j].owner \in 1 .. k BY <1>1, <1>2, <1>3 DEF Owned, Unset
<1> QED BY <1>1, <1>2, <1>3, <1>4, <1>5

LEMMA NewJobTyped ==
    ASSUME NEW k \in Nat, NEW task \in Tasks, NEW n \in 0 .. k, NEW node \in NodeData(k),
           NEW count \in Nat
    PROVE  NewJob(task, n, node, count) \in Job(k)
BY DEF NewJob, Job, Unset

LEMMA JobAdded ==
    ASSUME TypeOK, born' \in born .. MaxNodes, NEW x, NEW job, job \in Job(born'), Owned(job),
           jobs' = Added(jobs, x, job)
    PROVE  JobsTyped'
<1>1. \A j \in DOMAIN jobs : jobs[j] \in Job(born') /\ Owned(jobs[j]) BY JobOf
<1> QED BY <1>1 DEF JobsTyped, Added, Join

LEMMA JobEnded ==
    ASSUME TypeOK, born' \in born .. MaxNodes, NEW j, jobs' = Ended(j)
    PROVE  JobsTyped'
<1>1. \A i \in DOMAIN jobs : jobs[i] \in Job(born') /\ Owned(jobs[i]) BY JobOf
<1> QED BY <1>1 DEF JobsTyped, Ended, Without

\* A request goes on, with another job in the place of its own.
LEMMA JobGoesOn ==
    ASSUME TypeOK, born' \in born .. MaxNodes, NEW j \in DOMAIN jobs, NEW job,
           job \in Job(born'), Owned(job), jobs' = [jobs EXCEPT ![j] = job]
    PROVE  JobsTyped'
<1>1. \A i \in DOMAIN jobs : jobs[i] \in Job(born') /\ Owned(jobs[i]) BY JobOf
<1>2. jobs = [i \in DOMAIN jobs |-> jobs[i]] BY DEF TypeOK, JobsTyped
<1> QED BY <1>1, <1>2 DEF JobsTyped

LEMMA JobAsking ==
    ASSUME TypeOK, born' \in born .. MaxNodes, NEW j \in DOMAIN jobs, NEW root \in 1 .. born',
           NEW kids \in SUBSET (1 .. born'), jobs' = Asking(j, root, kids)
    PROVE  JobsTyped'
<1> DEFINE waiting == IF kids # {} THEN kids ELSE {root}
           job == [jobs[j] EXCEPT !.phase = "asking", !.root = root, !.kids = kids,
                                  !.waiting = waiting]
<1>1. waiting \in SUBSET (1 .. born') /\ root \in 0 .. born' OBVIOUS
<1>2. jobs[j] \in Job(born') /\ Owned(jobs[j]) BY JobOf
<1>3. ASSUME NEW w \in SUBSET (1 .. born'), NEW r \in 0 .. born'
      PROVE  /\ [jobs[j] EXCEPT !.phase = "asking", !.root = r, !.kids = kids, !.waiting = w]
                   \in Job(born')
             /\ Owned([jobs[j] EXCEPT !.phase = "asking", !.root = r, !.kids = kids, !.waiting = w])
  <2> DEFINE made == [jobs[j] EXCEPT !.phase = "asking", !.root = r, !.kids = kids, !.waiting = w]
  <2>1. made \in Job(born') BY <1>2 DEF Job
  <2>2. made.task = jobs[j].task /\ made.owner = jobs[j].owner BY <1>2 DEF Job
  <2> QED BY <2>1, <2>2, <1>2 DEF Owned
<1>4. job \in Job(born') /\ Owned(job) BY <1>1, <1>3
<1>5. jobs' = [jobs EXCEPT ![j] = job] BY DEF Asking
<1> HIDE DEF job
<1> QED BY <1>4, <1>5, JobGoesOn

\* What a request leaves of the page is typed if the document and the requests are.
LEMMA RequestTyped ==
    ASSUME TypeOK, jobsStep, born' \in born .. MaxNodes, JobsTyped', running' \in 0 .. born',
           IsDrawing(nodes', born'), AreLinks(links', born'),
           dirty' \in BOOLEAN, commit' \in BOOLEAN
    PROVE  TypeOK'
<1>1. DocTyped' BY BornTyped DEF DocTyped
<1>2. HistoryTyped' BY HistoryKept DEF jobsStep
<1>3. RestTyped' BY PageKept DEF RestTyped, jobsStep, TypeOK
<1> QED BY <1>1, <1>2, <1>3 DEF TypeOK

\* A request that leaves the document alone.
LEMMA AsideTyped ==
    ASSUME TypeOK, UNCHANGED <<docVars, historyVars, preview, clipboard>>, JobsTyped',
           running' \in 0 .. born, acts' \in Nat
    PROVE  TypeOK'
BY DEF TypeOK, DocTyped, HistoryTyped, RestTyped, docVars, historyVars

LEMMA GenerateTyped ==
    ASSUME TypeOK, NEW n, NEW mode \in Modes, NEW count \in 1 .. MaxCount, Generate(n, mode, count)
    PROVE  TypeOK'
<1>1. born' \in born .. MaxNodes /\ born' = born BY BornTyped DEF Generate, docVars
<1>2. n \in 1 .. born /\ nodes[n] \in NodeData(born) BY <1>1, OpenDocument DEF Generate
<1>3. count \in Nat /\ mode \in Tasks BY BoundsAssumption DEF Tasks
<1>4. NewJob(mode, n, nodes[n], count) \in Job(born) BY <1>2, <1>3, NewJobTyped, BornTyped
<1>5. Owned(NewJob(mode, n, nodes[n], count)) BY <1>2, BornTyped DEF Owned, NewJob, Unset
<1>6. JobsTyped' BY <1>1, <1>4, <1>5, JobAdded DEF Generate, Request
<1>7. acts' \in Nat BY ActTyped DEF Generate, Editing
<1>8. running' \in 0 .. born BY <1>2, BornTyped DEF Generate
<1> QED BY <1>6, <1>7, <1>8, AsideTyped DEF Generate

LEMMA RetryTyped == ASSUME TypeOK, NEW n, Retry(n) PROVE TypeOK'
<1>1. born' \in born .. MaxNodes /\ born' = born BY BornTyped DEF Retry, docVars
<1>2. n \in 1 .. born /\ nodes[n] \in NodeData(born) BY <1>1, OpenDocument DEF Retry
<1>3. 1 \in Nat /\ "retry" \in Tasks BY DEF Tasks
<1>4. NewJob("retry", n, nodes[n], 1) \in Job(born) BY <1>2, <1>3, NewJobTyped, BornTyped
<1>5. Owned(NewJob("retry", n, nodes[n], 1)) BY <1>2, BornTyped DEF Owned, NewJob, Unset
<1>6. JobsTyped' BY <1>1, <1>4, <1>5, JobAdded DEF Retry, Request
<1>7. acts' \in Nat BY ActTyped DEF Retry, Editing
<1>8. running' \in 0 .. born BY <1>1, PageKept DEF Retry
<1> QED BY <1>6, <1>7, <1>8, AsideTyped DEF Retry

LEMMA UploadTyped ==
    ASSUME TypeOK, NEW task \in Uploading, NEW n, NEW kind \in Kinds, Upload(task, n, kind)
    PROVE  TypeOK'
<1>1. born' \in born .. MaxNodes /\ born' = born BY BornTyped DEF Upload, docVars
<1>2. CASE task = "insert"
  <2>1. n = Unset BY <1>2 DEF Upload
  <2>2. n \in 0 .. born /\ 1 \in Nat /\ task \in Tasks BY <2>1, BornTyped DEF Unset, Tasks
  <2>3. NewJob(task, n, Blank(kind), 1) \in Job(born) BY <2>2, NewJobTyped, BornTyped, BlankTyped
  <2>4. Owned(NewJob(task, n, Blank(kind), 1)) BY <1>2 DEF Owned, NewJob
  <2>5. JobsTyped' BY <1>1, <2>3, <2>4, JobAdded DEF Upload, Request
  <2> QED BY <1>1, <2>5, PageKept, ActTyped, AsideTyped DEF Upload
<1>3. CASE task # "insert"
  <2>1. n \in DOMAIN nodes BY <1>3 DEF Upload, Uploading
  <2>2. n \in 1 .. born /\ n \in 0 .. born /\ 1 \in Nat /\ task \in Tasks
    BY <1>1, <2>1, BornTyped, OpenDocument DEF Tasks
  <2>3. NewJob(task, n, Blank(kind), 1) \in Job(born) BY <2>2, NewJobTyped, BornTyped, BlankTyped
  <2>4. Owned(NewJob(task, n, Blank(kind), 1)) BY <2>2, BornTyped DEF Owned, NewJob, Unset
  <2>5. JobsTyped' BY <1>1, <2>3, <2>4, JobAdded DEF Upload, Request
  <2> QED BY <1>1, <2>5, PageKept, ActTyped, AsideTyped DEF Upload
<1> QED BY <1>2, <1>3

LEMMA EndedTyped ==
    ASSUME TypeOK, NEW j, GiveUp(j) \/ PreparationFails(j) \/ UploadFails(j)
    PROVE  TypeOK'
<1>1. /\ jobs' = Ended(j) /\ UNCHANGED <<docVars, historyVars, preview, clipboard, acts>>
      /\ running' \in {running, Unset}
  BY DEF GiveUp, PreparationFails, UploadFails
<1>2. born' \in born .. MaxNodes /\ born' = born BY <1>1, BornTyped DEF docVars
<1>3. JobsTyped' BY <1>1, <1>2, JobEnded
<1>4. running' \in 0 .. born BY <1>1, <1>2, PageKept
<1>5. acts' \in Nat BY <1>1 DEF TypeOK, RestTyped
<1> QED BY <1>1, <1>3, <1>4, <1>5, AsideTyped

LEMMA ConfirmPreviewTyped ==
    ASSUME TypeOK, NEW count \in 1 .. MaxCount, ConfirmPreview(count) PROVE TypeOK'
<1> DEFINE runs == DOMAIN preview.runs \cap DOMAIN preview.nodes
<1>1. /\ preview.on /\ preview' = NoPreview /\ keepHistory
      /\ SetDoc(preview.nodes, preview.links) /\ UNCHANGED <<born, clipboard, acts>>
      /\ \/ UNCHANGED <<jobs, running>>
         \/ \E n \in runs : /\ running' = n
                            /\ jobs' = Request(preview.runs[n], n, preview.nodes[n], count)
  BY DEF ConfirmPreview
<1>2. born' \in born .. MaxNodes /\ born' = born BY <1>1, BornTyped
<1>3. IsDrawing(preview.nodes, born) /\ AreLinks(preview.links, born) BY <1>1, PreviewOf
<1>4. DocTyped' BY <1>1, <1>2, <1>3, SetDocTyped, BornTyped DEF DocTyped, TypeOK
<1>5. HistoryTyped' BY <1>1, <1>2, SetDocTyped, HistoryKept
<1>6. JobsTyped' /\ running' \in 0 .. born
  <2>1. CASE UNCHANGED <<jobs, running>> BY <1>2, <2>1, JobsKept, PageKept
  <2>2. ASSUME NEW n \in runs, running' = n,
               jobs' = Request(preview.runs[n], n, preview.nodes[n], count)
        PROVE  JobsTyped' /\ running' \in 0 .. born
    <3>1. /\ n \in 1 .. born /\ preview.nodes[n] \in NodeData(born) /\ preview.runs[n] \in Tasks
          /\ count \in Nat
      BY <1>1, <1>3, PreviewOf, BoundsAssumption DEF IsDrawing, Tasks
    <3>2. NewJob(preview.runs[n], n, preview.nodes[n], count) \in Job(born)
      BY <3>1, NewJobTyped, BornTyped
    <3>3. Owned(NewJob(preview.runs[n], n, preview.nodes[n], count))
      BY <3>1, BornTyped DEF Owned, NewJob, Unset
    <3>4. JobsTyped' BY <1>2, <2>2, <3>2, <3>3, JobAdded DEF Request
    <3> QED BY <2>2, <3>1, <3>4, BornTyped
  <2> QED BY <1>1, <2>1, <2>2
<1>7. RestTyped' BY <1>1, <1>2, <1>6 DEF RestTyped, IsPreview, TypeOK
<1> QED BY <1>4, <1>5, <1>6, <1>7 DEF TypeOK

-----------------------------------------------------------------------------
(* Types: what is launched *)

\* The pictures of a generation are numbered without a gap.
LEMMA MadeCount ==
    ASSUME NEW a \in Int, NEW n \in Nat
    PROVE  /\ Cardinality(a + 1 .. a + n) = n
           /\ Cardinality({a} \cup (a + 1 .. a + n)) = n + 1
<1>1. IsFiniteSet(a + 1 .. a + n) /\ Cardinality(a + 1 .. a + n) = n BY FS_Interval
<1>2. a \notin a + 1 .. a + n OBVIOUS
<1>3. (a + 1 .. a + n) \cup {a} = {a} \cup (a + 1 .. a + n) OBVIOUS
<1> QED BY <1>1, <1>2, <1>3, FS_AddElement

LEMMA LaunchImageTyped == ASSUME TypeOK, NEW j \in DOMAIN jobs, LaunchImage(j) PROVE TypeOK'
<1> DEFINE job == jobs[j]
           n == job.owner
           self == FillsItself(job)
           many == job.count > 1
           root == IF self THEN n ELSE born + 1
           first == IF self THEN born ELSE born + 1
           kids == IF many THEN first + 1 .. first + job.count ELSE {}
           owner == CASE job.src.kind = "config" -> [nodes[n] EXCEPT !.status = "loading"]
                      [] self -> [nodes[n] EXCEPT !.status = "loading", !.kids = kids]
                      [] job.src.kind = "image" -> [nodes[n] EXCEPT !.status = "success"]
                      [] OTHER -> [nodes[n] EXCEPT !.kind = "text", !.shows = n, !.status = "success"]
           made == [x \in (IF self THEN {} ELSE {root}) \cup kids |->
                       IF x = root THEN [Blank("image") EXCEPT !.status = "loading", !.kids = kids]
                       ELSE [Blank("image") EXCEPT !.status = "loading", !.root = root]]
           ls == links \cup {<<root, k>> : k \in kids} \cup (IF self THEN {} ELSE {<<n, root>>})
<1>1. /\ job.task = "image" /\ born + Cardinality(DOMAIN made) <= MaxNodes
      /\ born' = born + Cardinality(DOMAIN made)
      /\ jobs' = Asking(j, root, kids) /\ jobsStep /\ UNCHANGED running
      /\ SetDoc(Join(Update(nodes, n, owner), made), ls)
  BY DEF LaunchImage
<1>2. /\ born \in Nat /\ MaxNodes \in Nat /\ born \in born .. MaxNodes
      /\ job.count \in Nat /\ n \in 1 .. born
  BY <1>1, JobOf, BornTyped
<1>3. DOMAIN made = (IF self THEN {} ELSE {root}) \cup kids OBVIOUS
<1>4. Cardinality(DOMAIN made) = (IF self THEN 0 ELSE 1) + (IF many THEN job.count ELSE 0)
  <2> HIDE DEF made
  <2>1. CASE self /\ many
    <3>1. DOMAIN made = born + 1 .. born + job.count BY <1>3, <2>1
    <3>2. born \in Int BY <1>2
    <3> HIDE DEF job
    <3>3. Cardinality(DOMAIN made) = job.count BY <1>2, <3>1, <3>2, MadeCount
    <3> QED BY <1>2, <2>1, <3>3
  <2>2. CASE self /\ ~many
    <3>1. DOMAIN made = {} BY <1>3, <2>2
    <3> QED BY <2>2, <3>1, FS_EmptySet
  <2>3. CASE ~self /\ many
    <3>1. DOMAIN made = {born + 1} \cup (born + 1 + 1 .. born + 1 + job.count) BY <1>3, <2>3
    <3>2. born + 1 \in Int BY <1>2
    <3> HIDE DEF job
    <3>3. Cardinality(DOMAIN made) = job.count + 1 BY <1>2, <3>1, <3>2, MadeCount
    <3> QED BY <1>2, <2>3, <3>3
  <2>4. CASE ~self /\ ~many
    <3>1. DOMAIN made = {born + 1} BY <1>3, <2>4
    <3>2. Cardinality(DOMAIN made) = 1 BY <3>1, FS_Singleton
    <3> QED BY <2>4, <3>2
  <2> QED BY <2>1, <2>2, <2>3, <2>4
<1> HIDE DEF made, self, ls, owner
<1>5. /\ born' \in born .. MaxNodes /\ born' \in Nat
      /\ root \in 1 .. born' /\ kids \in SUBSET (1 .. born') /\ n \in 1 .. born'
      /\ (IF self THEN {} ELSE {root}) \cup kids \subseteq 1 .. born'
  <2> DEFINE c == job.count
  <2>1. c \in Nat /\ many = (c > 1) BY <1>2
  <2> HIDE DEF job
  <2>2. born' = born + (IF self THEN 0 ELSE 1) + (IF many THEN c ELSE 0)
        /\ born' <= MaxNodes
    BY <1>1, <1>2, <1>4, <2>1
  <2>3. CASE self BY <1>2, <2>1, <2>2, <2>3
  <2>4. CASE ~self BY <1>2, <2>1, <2>2, <2>4
  <2> QED BY <2>3, <2>4
<1> HIDE DEF root, kids, many
<1>6. IsDrawing(made, born')
  <2>1. "image" \in Kinds /\ "loading" \in Statuses BY DEF Kinds, Statuses
  <2>2. Blank("image") \in NodeData(born') BY <1>5, <2>1, BlankTyped
  <2>3. root \in 0 .. born' BY <1>5
  <2>4. /\ [Blank("image") EXCEPT !.status = "loading", !.kids = kids] \in NodeData(born')
        /\ [Blank("image") EXCEPT !.status = "loading", !.root = root] \in NodeData(born')
    BY <1>5, <2>1, <2>2, <2>3 DEF NodeData
  <2> QED BY <1>5, <2>4 DEF IsDrawing, made
<1>7. n \in DOMAIN nodes => owner \in NodeData(born')
  <2> SUFFICES ASSUME n \in DOMAIN nodes PROVE owner \in NodeData(born') OBVIOUS
  <2>1. nodes[n] \in NodeData(born') BY <1>5, OpenDocument
  <2>2. {"loading", "success"} \subseteq Statuses /\ "text" \in Kinds BY DEF Kinds, Statuses
  <2>3. n \in 0 .. born' BY <1>5
  <2> HIDE DEF n
  <2>4. /\ [nodes[n] EXCEPT !.status = "loading"] \in NodeData(born')
        /\ [nodes[n] EXCEPT !.status = "success"] \in NodeData(born')
    BY <2>1, <2>2 DEF NodeData
  <2>5. [nodes[n] EXCEPT !.status = "loading", !.kids = kids] \in NodeData(born')
    BY <1>5, <2>1, <2>2 DEF NodeData
  <2>6. [nodes[n] EXCEPT !.kind = "text", !.shows = n, !.status = "success"] \in NodeData(born')
    BY <2>1, <2>2, <2>3 DEF NodeData
  <2> QED BY <2>4, <2>5, <2>6 DEF owner
<1>8. IsDrawing(Join(Update(nodes, n, owner), made), born')
  BY <1>5, <1>6, <1>7, OpenDocument, UpdateDrawing, JoinDrawing
<1>9. AreLinks(ls, born')
  <2>1. AreLinks(links, born') BY <1>5, OpenDocument
  <2>2. {<<root, k>> : k \in kids} \subseteq (1 .. born') \X (1 .. born') BY <1>5
  <2>3. <<n, root>> \in (1 .. born') \X (1 .. born') BY <1>5
  <2> QED BY <2>1, <2>2, <2>3 DEF AreLinks, ls
<1>10. JobsTyped' BY <1>1, <1>5, JobAsking
<1>11. running' \in 0 .. born' BY <1>1, <1>5, PageKept
<1> HIDE DEF job, n
<1> QED BY <1>1, <1>5, <1>8, <1>9, <1>10, <1>11, SetDocTyped, RequestTyped

LEMMA LaunchVideoTyped == ASSUME TypeOK, NEW j \in DOMAIN jobs, LaunchVideo(j) PROVE TypeOK'
<1> DEFINE job == jobs[j]
           n == job.owner
           loading == [Blank("video") EXCEPT !.status = "loading"]
<1>1. job.task = "video" /\ jobsStep /\ UNCHANGED running BY DEF LaunchVideo
<1>2. n \in 1 .. born /\ born \in born .. MaxNodes BY <1>1, JobOf, BornTyped
<1>3. CASE FillsItself(job)
  <2>1. /\ born' = born /\ jobs' = Asking(j, n, {})
        /\ SetDoc(IF n \in DOMAIN nodes THEN Update(nodes, n, loading) ELSE nodes, links)
    BY <1>3 DEF LaunchVideo
  <2>2. born' \in born .. MaxNodes /\ born' \in Nat /\ n \in 1 .. born'
    BY <1>2, <2>1, BornTyped
  <2>3. "video" \in Kinds /\ "loading" \in Statuses BY DEF Kinds, Statuses
  <2>4. Blank("video") \in NodeData(born') BY <2>2, <2>3, BlankTyped
  <2>5. loading \in NodeData(born') BY <2>3, <2>4 DEF NodeData
  <2> HIDE DEF loading
  <2>6. IsDrawing(IF n \in DOMAIN nodes THEN Update(nodes, n, loading) ELSE nodes, born')
    BY <2>2, <2>5, OpenDocument, UpdateDrawing
  <2>7. JobsTyped' BY <2>1, <2>2, JobAsking
  <2> QED BY <1>1, <2>1, <2>2, <2>6, <2>7, SetDocTyped, RequestTyped, OpenDocument, PageKept
<1>4. CASE ~FillsItself(job)
  <2>1. /\ born < MaxNodes /\ born' = born + 1 /\ jobs' = Asking(j, born', {})
        /\ SetDoc(Added(Mark(nodes, {n}, "success"), born', loading), links \cup {<<n, born'>>})
    BY <1>4 DEF LaunchVideo
  <2>2. born' \in born .. MaxNodes /\ born' \in Nat /\ n \in 1 .. born' /\ born' \in 1 .. born'
    BY <1>2, <2>1, OneMore
  <2>3. "video" \in Kinds /\ "loading" \in Statuses /\ "success" \in Statuses
    BY DEF Kinds, Statuses
  <2>4. Blank("video") \in NodeData(born') BY <2>2, <2>3, BlankTyped
  <2>5. loading \in NodeData(born') BY <2>3, <2>4 DEF NodeData
  <2> HIDE DEF loading
  <2>6. IsDrawing(Added(Mark(nodes, {n}, "success"), born', loading), born')
    BY <2>2, <2>3, <2>5, OpenDocument, MarkDrawing, AddedDrawing
  <2>7. AreLinks(links \cup {<<n, born'>>}, born') BY <2>2, OpenDocument, LinksTyped
  <2>8. JobsTyped' BY <2>1, <2>2, JobAsking
  <2> QED BY <1>1, <2>1, <2>2, <2>6, <2>7, <2>8, SetDocTyped, RequestTyped, PageKept
<1> QED BY <1>3, <1>4

LEMMA LaunchTextTyped == ASSUME TypeOK, NEW j \in DOMAIN jobs, LaunchText(j) PROVE TypeOK'
<1> DEFINE job == jobs[j]
           n == job.owner
           k == IF job.src.kind = "config" THEN job.count ELSE IF Rewrites(job) THEN 1 ELSE 0
           made == [x \in Fresh(k) |-> [Blank("text") EXCEPT !.status = "loading"]]
           marked == IF MarksSource(job) THEN Mark(nodes, {n}, "loading") ELSE nodes
           ls == links \cup {<<n, x>> : x \in DOMAIN made}
<1>1. /\ job.task = "text" /\ born + k <= MaxNodes /\ born' = born + k
      /\ jobs' = Asking(j, n, Fresh(k)) /\ jobsStep /\ UNCHANGED running
      /\ SetDoc(Join(marked, made), ls) \/ UNCHANGED <<nodes, links, dirty, commit>>
  BY DEF LaunchText
<1>2. /\ born \in Nat /\ MaxNodes \in Nat /\ born \in born .. MaxNodes
      /\ job.count \in Nat /\ n \in 1 .. born
  BY <1>1, JobOf, BornTyped
<1>3. k \in Nat BY <1>2
<1> HIDE DEF k
<1>4. /\ born' \in born .. MaxNodes /\ born' \in Nat /\ n \in 1 .. born'
      /\ Fresh(k) \in SUBSET (1 .. born')
  BY <1>1, <1>2, <1>3 DEF Fresh
<1>5. "text" \in Kinds /\ "loading" \in Statuses BY DEF Kinds, Statuses
<1>6. Blank("text") \in NodeData(born') BY <1>4, <1>5, BlankTyped
<1>7. [Blank("text") EXCEPT !.status = "loading"] \in NodeData(born')
  BY <1>5, <1>6 DEF NodeData
<1>8. IsDrawing(made, born') BY <1>4, <1>7 DEF IsDrawing
<1>9. IsDrawing(marked, born') BY <1>4, <1>5, OpenDocument, MarkDrawing
<1>10. AreLinks(ls, born')
  <2>1. DOMAIN made = Fresh(k) OBVIOUS
  <2>2. {<<n, x>> : x \in DOMAIN made} \subseteq (1 .. born') \X (1 .. born') BY <1>4, <2>1
  <2> QED BY <1>4, <2>2, OpenDocument DEF AreLinks
<1> HIDE DEF made, marked, ls
<1>11. IsDrawing(Join(marked, made), born') BY <1>8, <1>9, JoinDrawing
<1>12. JobsTyped' BY <1>1, <1>4, JobAsking
<1>13. running' \in 0 .. born' BY <1>1, <1>4, PageKept
<1>14. /\ IsDrawing(nodes', born') /\ AreLinks(links', born')
       /\ dirty' \in BOOLEAN /\ commit' \in BOOLEAN
  <2>1. CASE SetDoc(Join(marked, made), ls) BY <1>10, <1>11, <2>1, SetDocTyped
  <2>2. CASE UNCHANGED <<nodes, links, dirty, commit>>
    BY <1>4, <2>2, OpenDocument DEF TypeOK, HistoryTyped
  <2> QED BY <1>1, <2>1, <2>2
<1> QED BY <1>1, <1>4, <1>12, <1>13, <1>14, RequestTyped

-----------------------------------------------------------------------------
(* Types: answers *)

\* An answer writes into nodes that are there, and makes no links.
LEMMA AnswerTyped ==
    ASSUME TypeOK, jobsStep, UNCHANGED born, JobsTyped', running' \in {running, Unset},
           NEW ns, IsDrawing(ns, born), SetDoc(ns, links)
    PROVE  TypeOK'
<1>1. born' \in born .. MaxNodes /\ born' = born BY BornTyped
<1>2. running' \in 0 .. born' BY <1>1, PageKept
<1> QED BY <1>1, <1>2, SetDocTyped, RequestTyped, OpenDocument

LEMMA SettledDrawing ==
    ASSUME NEW k, NEW f, NEW n, NEW ok, IsDrawing(f, k) PROVE IsDrawing(Settled(f, n, ok), k)
<1>1. (IF ok THEN "success" ELSE "error") \in Statuses BY DEF Statuses
<1> QED BY <1>1, MarkDrawing DEF Settled

LEMMA FinishTyped ==
    ASSUME TypeOK, UNCHANGED born, NEW j, Finish(j)
    PROVE  JobsTyped' /\ running' \in {running, Unset}
<1>1. born' \in born .. MaxNodes BY BornTyped
<1> QED BY <1>1, JobEnded DEF Finish

\* A node that is given a content of its own, or that of another node.
LEMMA GivenTyped ==
    ASSUME NEW k \in Nat, NEW node \in NodeData(k), NEW t \in 0 .. k, NEW status \in Statuses,
           NEW kind \in Kinds
    PROVE  /\ [node EXCEPT !.shows = t, !.status = status, !.primary = t] \in NodeData(k)
           /\ [node EXCEPT !.kind = kind, !.shows = t, !.status = status] \in NodeData(k)
           /\ [node EXCEPT !.shows = t, !.status = status, !.kind = kind] \in NodeData(k)
BY DEF NodeData

LEMMA StreamTextTyped == ASSUME TypeOK, NEW j \in DOMAIN jobs, StreamText(j) PROVE TypeOK'
<1>1. /\ jobsStep /\ UNCHANGED <<born, jobs, running>> BY DEF StreamText
<1>2. PICK t \in jobs[j].waiting \cap DOMAIN nodes :
         SetDoc(Update(nodes, t, [nodes[t] EXCEPT !.kind = "text", !.shows = t, !.status = "loading"]),
                links)
  BY DEF StreamText
<1>3. born \in Nat /\ nodes[t] \in NodeData(born) /\ t \in 0 .. born /\ IsDrawing(nodes, born)
  BY <1>1, BornTyped, OpenDocument
<1>4. "text" \in Kinds /\ "loading" \in Statuses BY DEF Kinds, Statuses
<1>5. [nodes[t] EXCEPT !.kind = "text", !.shows = t, !.status = "loading"] \in NodeData(born)
  BY <1>3, <1>4, GivenTyped
<1>6. IsDrawing(Update(nodes, t, [nodes[t] EXCEPT !.kind = "text", !.shows = t, !.status = "loading"]),
                born)
  BY <1>3, <1>5, UpdateDrawing
<1>7. born' \in born .. MaxNodes BY <1>1, BornTyped
<1>8. JobsTyped' BY <1>1, <1>7, JobsKept
<1> QED BY <1>1, <1>2, <1>6, <1>8, AnswerTyped

LEMMA AnswerImageTyped ==
    ASSUME TypeOK, NEW j \in DOMAIN jobs, NEW t \in jobs[j].waiting, NEW ok \in BOOLEAN,
           AnswerImage(j, t, ok)
    PROVE  TypeOK'
<1> DEFINE job == jobs[j]
           n == job.owner
           config == job.src.kind = "config"
           leads == t = job.root \/ (job.root \in DOMAIN nodes /\ nodes[job.root].primary = Unset)
           got == [x \in DOMAIN nodes |->
                      IF x = job.root /\ leads
                      THEN [nodes[x] EXCEPT !.shows = t, !.status = "success", !.primary = t]
                      ELSE Shown(nodes, {t})[x]]
           lone == IF ok THEN (IF config THEN Settled(got, n, TRUE) ELSE got)
                   ELSE Settled(nodes, t, FALSE)
           won == job.won \/ ok
           closed == IF config \/ FillsItself(job) THEN Settled(lone, n, won) ELSE lone
           last1 == IF won THEN closed ELSE Settled(closed, job.root, FALSE)
           rest == [job EXCEPT !.waiting = job.waiting \ {t}, !.won = won]
<1>1. /\ jobsStep /\ UNCHANGED born
      /\ \/ Finish(j) /\ SetDoc(last1, links)
         \/ /\ jobs' = [jobs EXCEPT ![j] = rest]
            /\ UNCHANGED running /\ SetDoc(lone, links)
  BY DEF AnswerImage
<1>2. born \in Nat /\ IsDrawing(nodes, born) /\ born' \in born .. MaxNodes /\ born' = born
  <2>1. born' = born BY DEF AnswerImage
  <2> QED BY <2>1, BornTyped, OpenDocument
<1>3. t \in 0 .. born
  <2>1. jobs[j].waiting \in SUBSET (1 .. born) BY <1>1, <1>2, JobOf
  <2> QED BY <1>2, <2>1
<1>4. IsDrawing(got, born)
  <2>1. IsDrawing(Shown(nodes, {t}), born) /\ DOMAIN Shown(nodes, {t}) = DOMAIN nodes
    BY <1>2, ShownDrawing DEF Shown
  <2>2. "success" \in Statuses /\ "image" \in Kinds BY DEF Statuses, Kinds
  <2>3. \A x \in DOMAIN nodes :
           [nodes[x] EXCEPT !.shows = t, !.status = "success", !.primary = t] \in NodeData(born)
    BY <1>2, <1>3, <2>2, GivenTyped DEF IsDrawing
  <2> HIDE DEF leads, job
  <2> QED BY <1>2, <2>1, <2>3 DEF IsDrawing
<1> HIDE DEF got
<1>5. IsDrawing(lone, born) BY <1>2, <1>4, SettledDrawing
<1> HIDE DEF lone
<1>6. IsDrawing(closed, born) BY <1>5, SettledDrawing
<1> HIDE DEF closed
<1>7. IsDrawing(last1, born) BY <1>6, SettledDrawing
<1> HIDE DEF last1
<1>8. CASE Finish(j) /\ SetDoc(last1, links)
  BY <1>1, <1>7, <1>8, FinishTyped, AnswerTyped
<1>9. CASE /\ jobs' = [jobs EXCEPT ![j] = rest]
           /\ UNCHANGED running /\ SetDoc(lone, links)
  <2>1. job \in Job(born) /\ Owned(job) /\ job.waiting \in SUBSET (1 .. born) /\ won \in BOOLEAN
    BY <1>2, JobOf
  <2>2. job.waiting \ {t} \in SUBSET (1 .. born) BY <2>1
  <2> HIDE DEF won, job
  <2>3. rest \in Job(born) BY <2>1, <2>2 DEF Job
  <2>4. rest.task = job.task /\ rest.owner = job.owner BY <2>1 DEF Job
  <2>5. Owned(rest) BY <2>1, <2>4 DEF Owned
  <2> HIDE DEF rest
  <2>6. JobsTyped' BY <1>2, <1>9, <2>3, <2>5, JobGoesOn
  <2> QED BY <1>1, <1>5, <1>9, <2>6, AnswerTyped
<1> QED BY <1>1, <1>8, <1>9

LEMMA AnswerVideoTyped ==
    ASSUME TypeOK, NEW j \in DOMAIN jobs, NEW ok \in BOOLEAN, AnswerVideo(j, ok) PROVE TypeOK'
<1> DEFINE lost == {jobs[j].root} \cup (IF MarksSource(jobs[j]) THEN {jobs[j].owner} ELSE {})
           ns == IF ok THEN Shown(nodes, {jobs[j].root}) ELSE Mark(nodes, lost, "error")
<1>1. jobsStep /\ UNCHANGED born /\ Finish(j) /\ SetDoc(ns, links) BY DEF AnswerVideo
<1>2. born \in Nat /\ IsDrawing(nodes, born) BY <1>1, BornTyped, OpenDocument
<1>3. "error" \in Statuses BY DEF Statuses
<1>4. IsDrawing(ns, born) BY <1>2, <1>3, ShownDrawing, MarkDrawing
<1> HIDE DEF ns
<1> QED BY <1>1, <1>4, FinishTyped, AnswerTyped

LEMMA AnswerTextTyped ==
    ASSUME TypeOK, NEW j \in DOMAIN jobs, NEW t \in jobs[j].waiting, NEW ok \in BOOLEAN,
           AnswerText(j, t, ok)
    PROVE  TypeOK'
<1> DEFINE job == jobs[j]
           n == job.owner
           itself == job.src.kind # "config" /\ ~Rewrites(job)
           done == IF job.src.kind = "config" THEN Settled(Shown(nodes, job.kids), n, TRUE)
                   ELSE [x \in DOMAIN nodes |->
                           IF x = n /\ itself
                           THEN [nodes[x] EXCEPT !.kind = "text", !.shows = x, !.status = "success"]
                           ELSE Shown(nodes, job.kids)[x]]
           lost == job.kids \cup (IF MarksSource(job) THEN {n} ELSE {})
           failed == lost \ (IF MarksSource(job) THEN {} ELSE {n})
           ns == IF ok THEN done ELSE Mark(nodes, failed, "error")
           rest == [job EXCEPT !.waiting = job.waiting \ {t}]
<1>1. /\ jobsStep /\ UNCHANGED born
      /\ \/ /\ jobs' = [jobs EXCEPT ![j] = rest]
            /\ UNCHANGED <<nodes, links, dirty, commit, running>>
         \/ Finish(j) /\ SetDoc(ns, links)
  BY DEF AnswerText
<1>2. born \in Nat /\ IsDrawing(nodes, born) /\ born' \in born .. MaxNodes /\ born' = born
  <2>1. born' = born BY DEF AnswerText
  <2> QED BY <2>1, BornTyped, OpenDocument
<1>3. IsDrawing(done, born)
  <2>1. IsDrawing(Shown(nodes, job.kids), born) /\ DOMAIN Shown(nodes, job.kids) = DOMAIN nodes
    BY <1>2, ShownDrawing DEF Shown
  <2>2. "success" \in Statuses /\ "text" \in Kinds BY DEF Statuses, Kinds
  <2>3. \A x \in DOMAIN nodes :
           [nodes[x] EXCEPT !.kind = "text", !.shows = x, !.status = "success"] \in NodeData(born)
    <3> SUFFICES ASSUME NEW x \in DOMAIN nodes
                 PROVE  [nodes[x] EXCEPT !.kind = "text", !.shows = x, !.status = "success"]
                           \in NodeData(born)
      OBVIOUS
    <3>1. nodes[x] \in NodeData(born) /\ x \in 0 .. born BY <1>2 DEF IsDrawing
    <3> QED BY <1>2, <2>2, <3>1, GivenTyped
  <2> HIDE DEF itself, job, n
  <2>4. IsDrawing([x \in DOMAIN nodes |->
                     IF x = n /\ itself
                     THEN [nodes[x] EXCEPT !.kind = "text", !.shows = x, !.status = "success"]
                     ELSE Shown(nodes, job.kids)[x]], born)
    BY <1>2, <2>1, <2>3 DEF IsDrawing
  <2> QED BY <2>1, <2>4, SettledDrawing
<1> HIDE DEF done, failed
<1>4. "error" \in Statuses BY DEF Statuses
<1>5. IsDrawing(ns, born) BY <1>2, <1>3, <1>4, MarkDrawing
<1> HIDE DEF ns
<1>6. CASE Finish(j) /\ SetDoc(ns, links) BY <1>1, <1>5, <1>6, FinishTyped, AnswerTyped
<1>7. CASE /\ jobs' = [jobs EXCEPT ![j] = rest]
           /\ UNCHANGED <<nodes, links, dirty, commit, running>>
  <2>1. job \in Job(born) /\ Owned(job) /\ job.waiting \in SUBSET (1 .. born) BY <1>2, JobOf
  <2>2. job.waiting \ {t} \in SUBSET (1 .. born) BY <2>1
  <2> HIDE DEF job
  <2>3. rest \in Job(born) BY <2>1, <2>2 DEF Job
  <2>4. rest.task = job.task /\ rest.owner = job.owner BY <2>1 DEF Job
  <2>5. Owned(rest) BY <2>1, <2>4 DEF Owned
  <2> HIDE DEF rest
  <2>6. JobsTyped' BY <1>2, <1>7, <2>3, <2>5, JobGoesOn
  <2>7. /\ running' \in 0 .. born' /\ IsDrawing(nodes', born') /\ AreLinks(links', born')
        /\ dirty' \in BOOLEAN /\ commit' \in BOOLEAN
    BY <1>2, <1>7, PageKept, OpenDocument DEF TypeOK, HistoryTyped
  <2> QED BY <1>1, <1>2, <2>6, <2>7, RequestTyped
<1> QED BY <1>1, <1>6, <1>7

LEMMA AngleTyped == ASSUME TypeOK, NEW n, Angle(n) PROVE TypeOK'
<1> DEFINE job == [NewJob("angle", n, nodes[n], 1) EXCEPT !.phase = "asking", !.root = born',
                                                          !.waiting = {born'}]
           picture == [Blank("image") EXCEPT !.status = "loading"]
<1>1. /\ Act /\ born < MaxNodes /\ n \in DOMAIN nodes
      /\ born' = born + 1 /\ running' = born'
      /\ jobs' = Added(jobs, FreeJob, job)
      /\ keepHistory /\ UNCHANGED <<preview, clipboard>>
      /\ SetDoc(Added(nodes, born', picture), links \cup {<<n, born'>>})
  BY DEF Angle, Editing
<1>2. /\ born' \in born .. MaxNodes /\ born' \in Nat /\ born' \in 1 .. born' /\ born' \in 0 .. born'
      /\ n \in 1 .. born' /\ n \in 0 .. born' /\ nodes[n] \in NodeData(born')
  BY <1>1, OneMore, OpenDocument
<1>3. "image" \in Kinds /\ "loading" \in Statuses /\ "angle" \in Tasks /\ 1 \in Nat
  BY DEF Kinds, Statuses, Tasks
<1>4. NewJob("angle", n, nodes[n], 1) \in Job(born') BY <1>2, <1>3, NewJobTyped
<1>5. ASSUME NEW set \in SUBSET (1 .. born')
      PROVE  [NewJob("angle", n, nodes[n], 1) EXCEPT !.phase = "asking", !.root = born',
                                                     !.waiting = set] \in Job(born')
  BY <1>2, <1>4 DEF Job
<1>6. job \in Job(born') BY <1>2, <1>5
<1>7. Owned(job)
  <2>1. n # 0 BY <1>2
  <2>2. job.owner = n BY DEF NewJob
  <2> HIDE DEF job
  <2> QED BY <2>1, <2>2 DEF Owned, Unset
<1>8. Blank("image") \in NodeData(born') BY <1>2, <1>3, BlankTyped
<1>9. picture \in NodeData(born') BY <1>3, <1>8 DEF NodeData
<1> HIDE DEF job, picture
<1>10. JobsTyped' BY <1>1, <1>2, <1>6, <1>7, JobAdded
<1>11. IsDrawing(Added(nodes, born', picture), born') BY <1>2, <1>9, OpenDocument, AddedDrawing
<1>12. AreLinks(links \cup {<<n, born'>>}, born') BY <1>2, OpenDocument, LinksTyped
<1>13. DocTyped' BY <1>1, <1>2, <1>11, <1>12, SetDocTyped, BornTyped DEF DocTyped
<1>14. HistoryTyped' BY <1>1, <1>2, SetDocTyped, HistoryKept
<1>15. RestTyped' BY <1>1, <1>2, PageKept, ActTyped DEF RestTyped
<1> QED BY <1>10, <1>13, <1>14, <1>15 DEF TypeOK

LEMMA RetryPreparedTyped ==
    ASSUME TypeOK, NEW j \in DOMAIN jobs, RetryPrepared(j) PROVE TypeOK'
<1> DEFINE n == jobs[j].owner
<1>1. /\ jobs[j].task = "retry" /\ jobsStep /\ UNCHANGED born
      /\ \/ /\ jobs' = Asking(j, n, {}) /\ running' = n
            /\ SetDoc(Mark(nodes, {n}, "loading"), links)
         \/ /\ jobs' = Ended(j) /\ UNCHANGED running
            /\ \/ UNCHANGED <<nodes, links, dirty, commit>>
               \/ SetDoc(Settled(nodes, n, FALSE), links)
  BY DEF RetryPrepared
<1>2. /\ born \in Nat /\ IsDrawing(nodes, born) /\ AreLinks(links, born)
      /\ born' \in born .. MaxNodes /\ born' = born
  BY <1>1, BornTyped, OpenDocument
<1>3. n \in 1 .. born BY <1>1, <1>2, JobOf
<1> HIDE DEF n
<1>4. "loading" \in Statuses BY DEF Statuses
<1>5. CASE /\ jobs' = Asking(j, n, {}) /\ running' = n
           /\ SetDoc(Mark(nodes, {n}, "loading"), links)
  <2>1. JobsTyped' BY <1>2, <1>3, <1>5, JobAsking
  <2>2. IsDrawing(Mark(nodes, {n}, "loading"), born) BY <1>2, <1>4, MarkDrawing
  <2>3. running' \in 0 .. born' BY <1>2, <1>3, <1>5
  <2> QED BY <1>1, <1>2, <1>5, <2>1, <2>2, <2>3, SetDocTyped, RequestTyped
<1>6. CASE /\ jobs' = Ended(j) /\ UNCHANGED running
           /\ \/ UNCHANGED <<nodes, links, dirty, commit>>
              \/ SetDoc(Settled(nodes, n, FALSE), links)
  <2>1. JobsTyped' BY <1>2, <1>6, JobEnded
  <2>2. running' \in 0 .. born' BY <1>2, <1>6, PageKept
  <2>3. IsDrawing(Settled(nodes, n, FALSE), born) BY <1>2, SettledDrawing
  <2>4. /\ IsDrawing(nodes', born') /\ AreLinks(links', born')
        /\ dirty' \in BOOLEAN /\ commit' \in BOOLEAN
    BY <1>2, <1>6, <2>3, SetDocTyped DEF TypeOK, HistoryTyped
  <2> QED BY <1>1, <1>2, <2>1, <2>2, <2>4, RequestTyped
<1> QED BY <1>1, <1>5, <1>6

LEMMA AnswerOneTyped ==
    ASSUME TypeOK, NEW j \in DOMAIN jobs, NEW ok \in BOOLEAN, AnswerOne(j, ok) PROVE TypeOK'
<1> DEFINE t == jobs[j].root
           kindOf == [k \in Kinds |-> IF k = "text" THEN "text" ELSE "image"]
           turns == jobs[j].task = "retry" /\ jobs[j].src.kind # "video"
           got == [x \in DOMAIN nodes |->
                     IF x # t THEN nodes[x]
                     ELSE [nodes[x] EXCEPT !.shows = t, !.status = "success",
                              !.kind = IF turns THEN kindOf[jobs[j].src.kind] ELSE @]]
           ns == IF ok THEN got ELSE Settled(nodes, t, FALSE)
<1>1. jobsStep /\ UNCHANGED born /\ Finish(j) /\ SetDoc(ns, links) BY DEF AnswerOne
<1>2. born \in Nat /\ IsDrawing(nodes, born) /\ born \in born .. MaxNodes
  <2>1. born' = born BY DEF AnswerOne
  <2> QED BY <2>1, BornTyped, OpenDocument
<1>3. t \in 0 .. born /\ jobs[j].src.kind \in Kinds BY <1>2, JobOf
<1>4. kindOf[jobs[j].src.kind] \in Kinds BY <1>3 DEF Kinds
<1>5. IsDrawing(got, born)
  <2>1. ASSUME NEW x \in DOMAIN nodes PROVE got[x] \in NodeData(born)
    <3> DEFINE kind == IF turns THEN kindOf[jobs[j].src.kind] ELSE nodes[x].kind
               given == [nodes[x] EXCEPT !.shows = t, !.status = "success", !.kind = kind]
    <3>1. nodes[x] \in NodeData(born) BY <1>2 DEF IsDrawing
    <3>2. kind \in Kinds /\ "success" \in Statuses BY <1>4, <3>1 DEF NodeData, Statuses
    <3>3. got[x] = nodes[x] \/ got[x] = given OBVIOUS
    <3> HIDE DEF kind, got, t
    <3>4. given \in NodeData(born) BY <1>2, <1>3, <3>1, <3>2, GivenTyped
    <3> QED BY <3>1, <3>3, <3>4
  <2>2. DOMAIN got = DOMAIN nodes /\ got = [x \in DOMAIN got |-> got[x]] OBVIOUS
  <2> HIDE DEF got
  <2> QED BY <1>2, <2>1, <2>2 DEF IsDrawing
<1> HIDE DEF got, t
<1>6. IsDrawing(ns, born) BY <1>2, <1>5, SettledDrawing
<1> HIDE DEF ns
<1> QED BY <1>1, <1>6, FinishTyped, AnswerTyped

LEMMA UploadedTyped ==
    ASSUME TypeOK, NEW j \in DOMAIN jobs, CropAdded(j) \/ FileAdded(j) PROVE TypeOK'
<1> DEFINE kind == IF jobs[j].task = "crop" THEN "image" ELSE jobs[j].src.kind
<1>1. /\ jobs' = Ended(j) /\ jobsStep /\ UNCHANGED running
      /\ born < MaxNodes /\ born' = born + 1
      /\ \/ SetDoc(Added(nodes, born', Filled(kind, born')), links)
         \/ /\ jobs[j].task = "crop"
            /\ SetDoc(Added(nodes, born', Filled(kind, born')), links \cup {<<jobs[j].owner, born'>>})
  BY DEF CropAdded, FileAdded
<1>2. /\ born' \in born .. MaxNodes /\ born' \in Nat /\ born' \in 1 .. born' /\ born' \in 0 .. born'
  BY <1>1, OneMore
<1>3. kind \in Kinds BY <1>2, JobOf DEF Kinds
<1> HIDE DEF kind
<1>4. Filled(kind, born') \in NodeData(born') BY <1>2, <1>3, BlankTyped
<1>5. IsDrawing(Added(nodes, born', Filled(kind, born')), born')
  BY <1>2, <1>4, OpenDocument, AddedDrawing
<1>6. jobs[j].task = "crop" => AreLinks(links \cup {<<jobs[j].owner, born'>>}, born')
  BY <1>2, JobOf, OpenDocument, LinksTyped
<1>7. JobsTyped' BY <1>1, <1>2, JobEnded
<1>8. running' \in 0 .. born' BY <1>1, <1>2, PageKept
<1>9. AreLinks(links', born') /\ IsDrawing(nodes', born') /\ dirty' \in BOOLEAN /\ commit' \in BOOLEAN
  BY <1>1, <1>2, <1>5, <1>6, OpenDocument, SetDocTyped
<1> QED BY <1>1, <1>2, <1>7, <1>8, <1>9, RequestTyped

LEMMA FileReplacedTyped ==
    ASSUME TypeOK, NEW j \in DOMAIN jobs, FileReplaced(j) PROVE TypeOK'
<1> DEFINE n == jobs[j].owner
           new == IF jobs[j].src.kind = "image" THEN Filled("image", n)
                  ELSE [nodes[n] EXCEPT !.kind = "video", !.shows = n, !.status = "success"]
           ns == IF n \in DOMAIN nodes THEN Update(nodes, n, new) ELSE nodes
<1>1. /\ jobs' = Ended(j) /\ jobsStep /\ UNCHANGED <<running, born>> /\ SetDoc(ns, links)
  BY DEF FileReplaced
<1>2. /\ born \in Nat /\ IsDrawing(nodes, born) /\ born' \in born .. MaxNodes /\ born' = born
  BY <1>1, BornTyped, OpenDocument
<1>3. n \in 0 .. born BY <1>2, JobOf
<1>4. {"image", "video"} \subseteq Kinds /\ "success" \in Statuses BY DEF Kinds, Statuses
<1>5. Filled("image", n) \in NodeData(born) BY <1>2, <1>3, <1>4, BlankTyped
<1>6. n \in DOMAIN nodes =>
         [nodes[n] EXCEPT !.kind = "video", !.shows = n, !.status = "success"] \in NodeData(born)
  <2> HIDE DEF n
  <2> QED BY <1>2, <1>3, <1>4, GivenTyped DEF IsDrawing
<1> HIDE DEF n
<1>7. n \in DOMAIN nodes => new \in NodeData(born) BY <1>5, <1>6
<1> HIDE DEF new
<1>8. IsDrawing(ns, born) BY <1>2, <1>7, UpdateDrawing
<1> HIDE DEF ns
<1>9. JobsTyped' BY <1>1, <1>2, JobEnded
<1> QED BY <1>1, <1>8, <1>9, AnswerTyped

-----------------------------------------------------------------------------
(* The steps of the page, whatever surface they come from *)

\* The user edits the document.
SomeEdit ==
    \/ \E kind \in Kinds : CreateNode(kind) \/ InsertContent(kind)
    \/ \E a : \E kind \in Kinds : CreateConnectedNode(a, kind)
    \/ \E a, b : ConnectNodes(a, b)
    \/ \E ids : DeleteNodes(ids)
    \/ \E l : DeleteLink(l)
    \/ \E n : \/ DuplicateNode(n) \/ EditText(n) \/ SetBatchPrimary(n) \/ ConfigFromText(n)
              \/ Angle(n)
    \/ ClearCanvas \/ Paste \/ Touch

\* Something is done that leaves the document alone.
SomethingElse ==
    \/ \E ids : CopySelected(ids)
    \/ \E op \in AgentOps : StartPreview(op)
    \/ CancelPreview \/ PressNode
    \/ DragNode \/ \E cancelled \in BOOLEAN : ReleaseNode(cancelled)
    \/ \E n : \/ \E mode \in Modes, count \in 1 .. MaxCount : Generate(n, mode, count)
              \/ Retry(n)
              \/ \E task \in Uploading, kind \in Kinds : Upload(task, n, kind)
    \/ \E j \in DOMAIN jobs : GiveUp(j) \/ PreparationFails(j) \/ UploadFails(j)

\* A request goes on or is answered.
SomeAnswer ==
    \E j \in DOMAIN jobs :
        \/ LaunchImage(j) \/ LaunchVideo(j) \/ LaunchText(j) \/ StreamText(j) \/ RetryPrepared(j)
        \/ \E t \in jobs[j].waiting, ok \in BOOLEAN : AnswerImage(j, t, ok) \/ AnswerText(j, t, ok)
        \/ \E ok \in BOOLEAN : AnswerVideo(j, ok) \/ AnswerOne(j, ok)
        \/ CropAdded(j) \/ FileAdded(j) \/ FileReplaced(j)

SomeHistory ==
    \/ Undo \/ Redo \/ CommitHistory \/ HistoryApplied \/ Reload
    \/ \E count \in 1 .. MaxCount : ConfirmPreview(count)

AnyStep == SomeEdit \/ SomethingElse \/ SomeAnswer \/ SomeHistory

LEMMA KeyboardSteps == Keyboard => AnyStep
<1>1. {"text", "image"} \subseteq Kinds /\ "insert" \in Uploading BY DEF Kinds, Uploading
<1> QED BY <1>1 DEF Keyboard, AnyStep, SomeEdit, SomethingElse, SomeHistory

LEMMA SurfacesSteps == Surfaces => AnyStep
<1>1. {"text", "image", "video"} \subseteq Kinds /\ "insert" \in Uploading BY DEF Kinds, Uploading
<1>2. TopBarMenu => AnyStep BY <1>1 DEF TopBarMenu, AnyStep, SomethingElse, SomeHistory
<1>3. BottomToolbar => AnyStep
  BY <1>1 DEF BottomToolbar, AnyStep, SomeEdit, SomethingElse, SomeHistory
<1>4. AssetPicker => AnyStep BY <1>1 DEF AssetPicker, AnyStep, SomeEdit, SomethingElse
<1>5. AssistantPanel => AnyStep
  BY <1>1 DEF AssistantPanel, AnyStep, SomeEdit, SomethingElse, SomeHistory
<1> QED BY <1>2, <1>3, <1>4, <1>5 DEF Surfaces

LEMMA NodeSteps == ASSUME TypeOK, NEW n \in DOMAIN nodes, NodeSurfaces(n) PROVE AnyStep
<1>1. {"text", "image", "video"} \subseteq Kinds /\ {"crop", "replace"} \subseteq Uploading
  BY DEF Kinds, Uploading
<1>2. nodes[n].kind \in Kinds BY DEF TypeOK, DocTyped, IsDrawing, NodeData
<1>3. nodes[n].kind # "config" => nodes[n].kind \in Modes BY <1>2 DEF Kinds, Modes
<1>4. NodeFrame(n) => AnyStep
  BY DEF NodeFrame, ResizeNode, AnyStep, SomeEdit, SomethingElse
<1>5. NodeContent(n) => AnyStep
  BY DEF NodeContent, TextContent, ImageContent, ErrorContent, ToggleBatch, AnyStep, SomeEdit,
         SomethingElse
<1>6. PromptPanel(n) => AnyStep BY <1>3 DEF PromptPanel, AnyStep, SomethingElse
<1>7. ConfigPanel(n) => AnyStep BY DEF ConfigPanel, AnyStep, SomethingElse
<1>8. HoverToolbar(n) => AnyStep
  BY <1>1 DEF HoverToolbar, ChangeNodeConfig, AnyStep, SomeEdit, SomethingElse
<1>9. ContextMenu(n) => AnyStep BY DEF ContextMenu, AnyStep, SomeEdit
<1>10. ConnectionCreateMenu(n) => AnyStep BY DEF ConnectionCreateMenu, AnyStep, SomeEdit
<1> QED BY <1>4, <1>5, <1>6, <1>7, <1>8, <1>9, <1>10 DEF NodeSurfaces

LEMMA RequestSteps == ASSUME NEW j \in DOMAIN jobs, Requests(j) PROVE AnyStep
BY DEF Requests, Answer, AnyStep, SomeAnswer, SomethingElse

LEMMA EveryStep == TypeOK /\ Next => AnyStep
<1>1. Timers \/ Mouse \/ Reload => AnyStep
  BY DEF Timers, Mouse, AnyStep, SomethingElse, SomeHistory
<1> QED BY <1>1, KeyboardSteps, SurfacesSteps, NodeSteps, RequestSteps DEF Next

-----------------------------------------------------------------------------
(* Types: every step *)

LEMMA SomeEditTyped == TypeOK /\ SomeEdit => TypeOK'
BY CreateNodeTyped, InsertContentTyped, CreateConnectedNodeTyped, ConnectNodesTyped,
   DeleteNodesTyped, DeleteLinkTyped, DuplicateNodeTyped, EditTextTyped, SetBatchPrimaryTyped,
   ConfigFromTextTyped, AngleTyped, ClearCanvasTyped, PasteTyped, TouchTyped DEF SomeEdit

LEMMA SomethingElseTyped == TypeOK /\ SomethingElse => TypeOK'
BY CopySelectedTyped, StartPreviewTyped, CancelPreviewTyped, PressNodeTyped, DragTyped,
   GenerateTyped, RetryTyped, UploadTyped, EndedTyped DEF SomethingElse

LEMMA SomeAnswerTyped == TypeOK /\ SomeAnswer => TypeOK'
BY LaunchImageTyped, LaunchVideoTyped, LaunchTextTyped, StreamTextTyped, RetryPreparedTyped,
   AnswerImageTyped, AnswerTextTyped, AnswerVideoTyped, AnswerOneTyped, UploadedTyped,
   FileReplacedTyped DEF SomeAnswer

LEMMA SomeHistoryTyped == TypeOK /\ SomeHistory => TypeOK'
BY UndoTyped, RedoTyped, CommitHistoryTyped, HistoryAppliedTyped, ReloadTyped,
   ConfirmPreviewTyped DEF SomeHistory

LEMMA NextTyped == TypeOK /\ [Next]_vars => TypeOK'
<1>1. TypeOK /\ Next => TypeOK'
  BY EveryStep, SomeEditTyped, SomethingElseTyped, SomeAnswerTyped, SomeHistoryTyped DEF AnyStep
<1>2. TypeOK /\ UNCHANGED vars => TypeOK'
  BY DEF TypeOK, DocTyped, HistoryTyped, JobsTyped, RestTyped, vars, docVars, historyVars
<1> QED BY <1>1, <1>2

\* Everything the page holds on to is well formed, and names only nodes that
\* have been made: a new node never takes the number of one that an undo, a
\* paste, a preview or a late answer may still speak of.
THEOREM TypeCorrect == Spec => []TypeOK
BY InitTyped, NextTyped, PTL DEF Spec

-----------------------------------------------------------------------------
(* What the steps do to the nodes that are there *)

\* No node that was removed comes back.
NoneReturn(ns) == DOMAIN ns \cap 1 .. born \subseteq DOMAIN nodes

\* What the user's edits have in common.
Edits ==
    /\ acts' # acts
    /\ NoneReturn(nodes')
    /\ dirty'
    /\ UNCHANGED <<preview, applying, last>>

LEMMA ActCounts == TypeOK /\ Act => acts' # acts
BY DEF TypeOK, RestTyped, Act

LEMMA EditDone ==
    ASSUME TypeOK, Editing \/ Act, keepHistory, UNCHANGED preview,
           NEW ns, NEW ls, SetDoc(ns, ls), NoneReturn(ns)
    PROVE  Edits
BY ActCounts, SetDocTyped DEF Editing, Edits, keepHistory

\* New nodes have new numbers.
LEMMA NewNodes ==
    ASSUME TypeOK, NEW f, NEW g, NoneReturn(f), \A x \in DOMAIN g : x > born
    PROVE  NoneReturn(Join(f, g))
<1>1. born \in Nat BY BornTyped
<1> QED BY <1>1 DEF NoneReturn, Join

LEMMA NewNode ==
    ASSUME TypeOK, NEW f, NEW rec, NoneReturn(f)
    PROVE  NoneReturn(Added(f, born + 1, rec))
<1>1. born + 1 > born BY BornTyped
<1>2. \A x \in DOMAIN [y \in {born + 1} |-> rec] : x > born BY <1>1
<1> HIDE DEF NoneReturn
<1> QED BY <1>2, NewNodes DEF Added

LEMMA Unreturned ==
    /\ NoneReturn(nodes) /\ NoneReturn(<<>>)
    /\ \A n, rec : NoneReturn(Update(nodes, n, rec))
    /\ \A set, status : NoneReturn(Mark(nodes, set, status))
    /\ \A gone : NoneReturn(Regrouped(Without(nodes, gone), gone))
<1>1. NoneReturn(nodes) /\ NoneReturn(<<>>) BY DEF NoneReturn
<1>2. \A n, rec : NoneReturn(Update(nodes, n, rec)) BY DEF NoneReturn, Update
<1>3. \A set, status : NoneReturn(Mark(nodes, set, status)) BY DEF NoneReturn, Mark
<1>4. \A gone : NoneReturn(Regrouped(Without(nodes, gone), gone))
  <2> TAKE gone
  <2>1. DOMAIN Regrouped(Without(nodes, gone), gone) = DOMAIN Without(nodes, gone) BY DEF Regrouped
  <2>2. DOMAIN Without(nodes, gone) = DOMAIN nodes \ gone BY DEF Without
  <2> QED BY <2>1, <2>2 DEF NoneReturn
<1> QED BY <1>1, <1>2, <1>3, <1>4

LEMMA EditSteps == TypeOK /\ SomeEdit => Edits
<1> SUFFICES ASSUME TypeOK, SomeEdit PROVE Edits OBVIOUS
<1>1. ASSUME NEW kind \in Kinds, CreateNode(kind) PROVE Edits
  BY <1>1, Unreturned, NewNode, EditDone DEF CreateNode, keepRest
<1>2. ASSUME NEW kind \in Kinds, InsertContent(kind) PROVE Edits
  BY <1>2, Unreturned, NewNode, EditDone DEF InsertContent, keepRest
<1>3. ASSUME NEW a, NEW kind \in Kinds, CreateConnectedNode(a, kind) PROVE Edits
  BY <1>3, Unreturned, NewNode, EditDone DEF CreateConnectedNode, keepRest
<1>4. ASSUME NEW a, NEW b, ConnectNodes(a, b) PROVE Edits
  BY <1>4, Unreturned, EditDone DEF ConnectNodes, keepRest
<1>5. ASSUME NEW ids, DeleteNodes(ids) PROVE Edits
  BY <1>5, Unreturned, EditDone DEF DeleteNodes
<1>6. ASSUME NEW l, DeleteLink(l) PROVE Edits
  BY <1>6, Unreturned, EditDone DEF DeleteLink, keepRest
<1>7. ASSUME NEW n, DuplicateNode(n) PROVE Edits
  BY <1>7, Unreturned, NewNode, EditDone DEF DuplicateNode, keepRest
<1>8. ASSUME NEW n, EditText(n) PROVE Edits
  BY <1>8, Unreturned, EditDone DEF EditText, keepRest
<1>9. ASSUME NEW k, SetBatchPrimary(k) PROVE Edits
  <2>1. PICK ns : ns = [n \in DOMAIN nodes |->
                     IF n = nodes[k].root
                     THEN [nodes[n] EXCEPT !.shows = nodes[k].shows, !.primary = k]
                     ELSE nodes[n]]
    OBVIOUS
  <2>2. SetDoc(ns, links) /\ Editing /\ keepHistory /\ UNCHANGED preview
    BY <1>9, <2>1 DEF SetBatchPrimary, keepRest
  <2>3. DOMAIN ns = DOMAIN nodes BY <2>1
  <2>4. NoneReturn(ns) BY <2>3 DEF NoneReturn
  <2> QED BY <2>2, <2>4, EditDone
<1>10. ASSUME NEW n, ConfigFromText(n) PROVE Edits
  BY <1>10, Unreturned, NewNode, EditDone DEF ConfigFromText, keepRest
<1>11. ASSUME NEW n, Angle(n) PROVE Edits
  BY <1>11, Unreturned, NewNode, EditDone DEF Angle
<1>12. ASSUME ClearCanvas PROVE Edits
  BY <1>12, Unreturned, EditDone DEF ClearCanvas
<1>13. ASSUME Paste PROVE Edits
  <2> DEFINE from == DOMAIN clipboard.nodes
             place(n) == born + Cardinality({m \in from : m <= n})
             source(k) == CHOOSE n \in from : place(n) = k
             made == [k \in Fresh(Cardinality(from)) |-> clipboard.nodes[source(k)]]
             ls == links \cup {<<place(l[1]), place(l[2])>> : l \in clipboard.links}
  <2>1. SetDoc(Join(nodes, made), ls) /\ Editing /\ keepHistory /\ UNCHANGED preview
    BY <1>13 DEF Paste, keepRest
  <2>2. DOMAIN made = Fresh(Cardinality(from)) OBVIOUS
  <2> HIDE DEF made, ls
  <2>3. \A x \in DOMAIN made : x > born BY <2>2, BornTyped DEF Fresh
  <2>4. NoneReturn(Join(nodes, made)) BY <2>3, Unreturned, NewNodes
  <2> QED BY <2>1, <2>4, EditDone
<1>14. ASSUME Touch PROVE Edits
  BY <1>14, Unreturned, EditDone DEF Touch, keepRest
<1> QED
  BY <1>1, <1>2, <1>3, <1>4, <1>5, <1>6, <1>7, <1>8, <1>9, <1>10, <1>11, <1>12, <1>13, <1>14
  DEF SomeEdit

\* What leaves the document alone leaves what is recorded of it alone.
Aside == UNCHANGED <<nodes, links, last, applying>> /\ (dirty' \/ UNCHANGED dirty)

LEMMA AsideSteps == SomethingElse => Aside
<1>1. ASSUME NEW ids, CopySelected(ids) PROVE Aside
  BY <1>1 DEF CopySelected, docVars, historyVars, Aside
<1>2. ASSUME NEW op, StartPreview(op) PROVE Aside
  BY <1>2 DEF StartPreview, keepHistory, HistoryEffect, Aside
<1>3. CancelPreview => Aside
  BY DEF CancelPreview, docVars, keepHistory, HistoryEffect, Aside
<1>4. PressNode => Aside BY DEF PressNode, docVars, Aside
<1>5. DragNode => Aside BY SetDocTyped DEF DragNode, Aside
<1>6. ASSUME NEW cancelled, ReleaseNode(cancelled) PROVE Aside
  BY <1>6, SetDocTyped DEF ReleaseNode, Aside
<1>7. ASSUME NEW n, NEW mode, NEW count, Generate(n, mode, count) PROVE Aside
  BY <1>7 DEF Generate, docVars, historyVars, Aside
<1>8. ASSUME NEW n, Retry(n) PROVE Aside
  BY <1>8 DEF Retry, docVars, historyVars, Aside
<1>9. ASSUME NEW task, NEW n, NEW kind, Upload(task, n, kind) PROVE Aside
  BY <1>9 DEF Upload, docVars, historyVars, Aside
<1>10. ASSUME NEW j, GiveUp(j) \/ PreparationFails(j) \/ UploadFails(j) PROVE Aside
  BY <1>10 DEF GiveUp, PreparationFails, UploadFails, docVars, historyVars, Aside
<1> QED
  BY <1>1, <1>2, <1>3, <1>4, <1>5, <1>6, <1>7, <1>8, <1>9, <1>10 DEF SomethingElse

-----------------------------------------------------------------------------
(* What the steps of a request do to the nodes it is not for *)

\* The nodes a request is for.
Concerned(j) == jobs[j].waiting \cup jobs[j].kids \cup {jobs[j].owner, jobs[j].root}

\* A drawing in which only nodes of the request, and new ones, differ.
AtHome(j, ns) ==
    /\ NoneReturn(ns)
    /\ \A n \in DOMAIN nodes : n \notin Concerned(j) => n \in DOMAIN ns /\ ns[n] = nodes[n]

LEMMA HomeKept ==
    ASSUME NEW j, NEW ns, AtHome(j, ns)
    PROVE  /\ \A status : \A set \in SUBSET Concerned(j) : AtHome(j, Mark(ns, set, status))
           /\ \A ok : \A n \in Concerned(j) : AtHome(j, Settled(ns, n, ok))
           /\ \A set \in SUBSET Concerned(j) : AtHome(j, Shown(ns, set))
           /\ \A rec : \A n \in Concerned(j) : AtHome(j, Update(ns, n, rec))
<1>1. \A status : \A set \in SUBSET Concerned(j) : AtHome(j, Mark(ns, set, status))
  BY DEF AtHome, NoneReturn, Mark
<1>2. \A ok : \A n \in Concerned(j) : AtHome(j, Settled(ns, n, ok))
  BY <1>1 DEF Settled
<1>3. \A set \in SUBSET Concerned(j) : AtHome(j, Shown(ns, set))
  BY DEF AtHome, NoneReturn, Shown
<1>4. \A rec : \A n \in Concerned(j) : AtHome(j, Update(ns, n, rec))
  BY DEF AtHome, NoneReturn, Update
<1> QED BY <1>1, <1>2, <1>3, <1>4

LEMMA HomeGrows ==
    ASSUME TypeOK, NEW j, NEW ns, AtHome(j, ns), NEW made, \A x \in DOMAIN made : x > born
    PROVE  AtHome(j, Join(ns, made))
<1>1. NoneReturn(Join(ns, made)) BY NewNodes DEF AtHome
<1>2. \A n \in DOMAIN ns : n \in DOMAIN Join(ns, made) /\ Join(ns, made)[n] = ns[n] BY DEF Join
<1> QED BY <1>1, <1>2 DEF AtHome

LEMMA HomeGrowsOne ==
    ASSUME TypeOK, NEW j, NEW ns, AtHome(j, ns), NEW rec
    PROVE  AtHome(j, Added(ns, born + 1, rec))
<1>1. \A x \in DOMAIN [y \in {born + 1} |-> rec] : x > born BY BornTyped
<1> QED BY <1>1, HomeGrows DEF Added

LEMMA HomeOpen == ASSUME NEW j PROVE AtHome(j, nodes)
BY DEF AtHome, NoneReturn

\* What the steps of a request have in common.
Answers(j) ==
    /\ AtHome(j, nodes')
    /\ UNCHANGED <<acts, preview, applying, last, held>>
    /\ dirty' \/ UNCHANGED <<nodes, links, dirty>>

LEMMA AnswerDone ==
    ASSUME NEW j, jobsStep, NEW ns, NEW ls, SetDoc(ns, ls), AtHome(j, ns) PROVE Answers(j)
BY SetDocTyped DEF jobsStep, keepHistory, Answers

LEMMA AnswerAside ==
    ASSUME NEW j, jobsStep, UNCHANGED <<nodes, links, dirty>> PROVE Answers(j)
BY HomeOpen DEF jobsStep, keepHistory, Answers

LEMMA LaunchImageHome == ASSUME TypeOK, NEW j \in DOMAIN jobs, LaunchImage(j) PROVE Answers(j)
<1> DEFINE job == jobs[j]
           n == job.owner
           self == FillsItself(job)
           many == job.count > 1
           root == IF self THEN n ELSE born + 1
           first == IF self THEN born ELSE born + 1
           kids == IF many THEN first + 1 .. first + job.count ELSE {}
           owner == CASE job.src.kind = "config" -> [nodes[n] EXCEPT !.status = "loading"]
                      [] self -> [nodes[n] EXCEPT !.status = "loading", !.kids = kids]
                      [] job.src.kind = "image" -> [nodes[n] EXCEPT !.status = "success"]
                      [] OTHER -> [nodes[n] EXCEPT !.kind = "text", !.shows = n, !.status = "success"]
           made == [x \in (IF self THEN {} ELSE {root}) \cup kids |->
                       IF x = root THEN [Blank("image") EXCEPT !.status = "loading", !.kids = kids]
                       ELSE [Blank("image") EXCEPT !.status = "loading", !.root = root]]
           ls == links \cup {<<root, k>> : k \in kids} \cup (IF self THEN {} ELSE {<<n, root>>})
<1>1. jobsStep /\ SetDoc(Join(Update(nodes, n, owner), made), ls) BY DEF LaunchImage
<1>2. DOMAIN made = (IF self THEN {} ELSE {root}) \cup kids OBVIOUS
<1> HIDE DEF made, owner, ls
<1>3. born \in Nat BY BornTyped
<1>4. \A x \in DOMAIN made : x > born
  <2>1. first \in Nat /\ first >= born BY <1>3
  <2> HIDE DEF first
  <2>2. \A x \in kids : x > born BY <1>3, <2>1
  <2>3. ~self => root > born BY <1>3
  <2> QED BY <1>2, <2>2, <2>3
<1>5. n \in Concerned(j) BY DEF Concerned
<1> HIDE DEF n
<1>6. AtHome(j, Update(nodes, n, owner)) BY <1>5, HomeOpen, HomeKept
<1>7. AtHome(j, Join(Update(nodes, n, owner), made)) BY <1>4, <1>6, HomeGrows
<1> QED BY <1>1, <1>7, AnswerDone

LEMMA LaunchVideoHome == ASSUME TypeOK, NEW j \in DOMAIN jobs, LaunchVideo(j) PROVE Answers(j)
<1> DEFINE n == jobs[j].owner
           loading == [Blank("video") EXCEPT !.status = "loading"]
<1>1. /\ jobsStep
      /\ \/ SetDoc(IF n \in DOMAIN nodes THEN Update(nodes, n, loading) ELSE nodes, links)
         \/ /\ born' = born + 1
            /\ SetDoc(Added(Mark(nodes, {n}, "success"), born', loading), links \cup {<<n, born'>>})
  BY DEF LaunchVideo
<1>2. n \in Concerned(j) BY DEF Concerned
<1> HIDE DEF n, loading
<1>3. AtHome(j, Update(nodes, n, loading)) /\ AtHome(j, Mark(nodes, {n}, "success"))
  BY <1>2, HomeOpen, HomeKept
<1>4. AtHome(j, Added(Mark(nodes, {n}, "success"), born + 1, loading)) BY <1>3, HomeGrowsOne
<1> QED BY <1>1, <1>3, <1>4, HomeOpen, AnswerDone

LEMMA LaunchTextHome == ASSUME TypeOK, NEW j \in DOMAIN jobs, LaunchText(j) PROVE Answers(j)
<1> DEFINE job == jobs[j]
           n == job.owner
           k == IF job.src.kind = "config" THEN job.count ELSE IF Rewrites(job) THEN 1 ELSE 0
           made == [x \in Fresh(k) |-> [Blank("text") EXCEPT !.status = "loading"]]
           marked == IF MarksSource(job) THEN Mark(nodes, {n}, "loading") ELSE nodes
           ls == links \cup {<<n, x>> : x \in DOMAIN made}
<1>1. /\ jobsStep
      /\ SetDoc(Join(marked, made), ls) \/ UNCHANGED <<nodes, links, dirty, commit>>
  BY DEF LaunchText
<1>2. DOMAIN made = Fresh(k) OBVIOUS
<1> HIDE DEF made, ls, k
<1>3. \A x \in DOMAIN made : x > born BY <1>2, BornTyped DEF Fresh
<1>4. n \in Concerned(j) BY DEF Concerned
<1> HIDE DEF n
<1>5. AtHome(j, marked) BY <1>4, HomeOpen, HomeKept
<1> HIDE DEF marked
<1>6. AtHome(j, Join(marked, made)) BY <1>3, <1>5, HomeGrows
<1> QED BY <1>1, <1>6, AnswerDone, AnswerAside

LEMMA StreamTextHome == ASSUME NEW j \in DOMAIN jobs, StreamText(j) PROVE Answers(j)
<1>1. PICK t, rec : t \in jobs[j].waiting \cap DOMAIN nodes /\ SetDoc(Update(nodes, t, rec), links)
  BY DEF StreamText
<1>2. t \in Concerned(j) BY <1>1 DEF Concerned
<1>3. AtHome(j, Update(nodes, t, rec)) BY <1>2, HomeOpen, HomeKept
<1> QED BY <1>1, <1>3, AnswerDone DEF StreamText

LEMMA AnswerImageHome ==
    ASSUME NEW j \in DOMAIN jobs, NEW t \in jobs[j].waiting, NEW ok \in BOOLEAN,
           AnswerImage(j, t, ok)
    PROVE  Answers(j)
<1> DEFINE job == jobs[j]
           n == job.owner
           config == job.src.kind = "config"
           leads == t = job.root \/ (job.root \in DOMAIN nodes /\ nodes[job.root].primary = Unset)
           got == [x \in DOMAIN nodes |->
                      IF x = job.root /\ leads
                      THEN [nodes[x] EXCEPT !.shows = t, !.status = "success", !.primary = t]
                      ELSE Shown(nodes, {t})[x]]
           lone == IF ok THEN (IF config THEN Settled(got, n, TRUE) ELSE got)
                   ELSE Settled(nodes, t, FALSE)
           won == job.won \/ ok
           closed == IF config \/ FillsItself(job) THEN Settled(lone, n, won) ELSE lone
           last1 == IF won THEN closed ELSE Settled(closed, job.root, FALSE)
<1>1. jobsStep /\ (SetDoc(last1, links) \/ SetDoc(lone, links)) BY DEF AnswerImage
<1>2. {t, n, job.root} \subseteq Concerned(j) BY DEF Concerned
<1>3. AtHome(j, got)
  <2>1. DOMAIN got = DOMAIN nodes OBVIOUS
  <2>2. \A x \in DOMAIN nodes : x \notin Concerned(j) => got[x] = nodes[x]
    BY <1>2 DEF Shown
  <2> HIDE DEF got
  <2> QED BY <2>1, <2>2 DEF AtHome, NoneReturn
<1> HIDE DEF got
<1>4. AtHome(j, lone) BY <1>2, <1>3, HomeOpen, HomeKept
<1> HIDE DEF lone, won
<1>5. AtHome(j, closed) BY <1>2, <1>4, HomeKept
<1> HIDE DEF closed
<1>6. AtHome(j, last1) BY <1>2, <1>5, HomeKept
<1> HIDE DEF last1
<1> QED BY <1>1, <1>4, <1>6, AnswerDone

LEMMA AnswerVideoHome ==
    ASSUME NEW j \in DOMAIN jobs, NEW ok \in BOOLEAN, AnswerVideo(j, ok) PROVE Answers(j)
<1> DEFINE lost == {jobs[j].root} \cup (IF MarksSource(jobs[j]) THEN {jobs[j].owner} ELSE {})
           ns == IF ok THEN Shown(nodes, {jobs[j].root}) ELSE Mark(nodes, lost, "error")
<1>1. jobsStep /\ SetDoc(ns, links) BY DEF AnswerVideo
<1>2. {jobs[j].root} \subseteq Concerned(j) /\ lost \subseteq Concerned(j) BY DEF Concerned
<1> HIDE DEF lost
<1>3. AtHome(j, ns) BY <1>2, HomeOpen, HomeKept
<1> QED BY <1>1, <1>3, AnswerDone

LEMMA AnswerTextHome ==
    ASSUME NEW j \in DOMAIN jobs, NEW t \in jobs[j].waiting, NEW ok \in BOOLEAN,
           AnswerText(j, t, ok)
    PROVE  Answers(j)
<1> DEFINE job == jobs[j]
           n == job.owner
           itself == job.src.kind # "config" /\ ~Rewrites(job)
           given == [x \in DOMAIN nodes |->
                       IF x = n /\ itself
                       THEN [nodes[x] EXCEPT !.kind = "text", !.shows = x, !.status = "success"]
                       ELSE Shown(nodes, job.kids)[x]]
           done == IF job.src.kind = "config" THEN Settled(Shown(nodes, job.kids), n, TRUE) ELSE given
           lost == job.kids \cup (IF MarksSource(job) THEN {n} ELSE {})
           failed == lost \ (IF MarksSource(job) THEN {} ELSE {n})
           ns == IF ok THEN done ELSE Mark(nodes, failed, "error")
<1>1. jobsStep /\ (UNCHANGED <<nodes, links, dirty, commit>> \/ SetDoc(ns, links))
  BY DEF AnswerText
<1>2. n \in Concerned(j) /\ job.kids \subseteq Concerned(j) /\ failed \subseteq Concerned(j)
  BY DEF Concerned
<1>3. AtHome(j, given)
  <2>1. DOMAIN given = DOMAIN nodes OBVIOUS
  <2>2. \A x \in DOMAIN nodes : x \notin Concerned(j) => given[x] = nodes[x]
    BY <1>2 DEF Shown
  <2> HIDE DEF given
  <2> QED BY <2>1, <2>2 DEF AtHome, NoneReturn
<1> HIDE DEF given, failed, n
<1>4. AtHome(j, done)
  <2>1. AtHome(j, Shown(nodes, job.kids)) BY <1>2, HomeOpen, HomeKept
  <2> QED BY <1>2, <1>3, <2>1, HomeKept
<1> HIDE DEF done
<1>5. AtHome(j, ns) BY <1>2, <1>4, HomeOpen, HomeKept
<1> HIDE DEF ns
<1> QED BY <1>1, <1>5, AnswerDone, AnswerAside

LEMMA RetryPreparedHome == ASSUME NEW j \in DOMAIN jobs, RetryPrepared(j) PROVE Answers(j)
<1> DEFINE n == jobs[j].owner
<1>1. /\ jobsStep
      /\ \/ SetDoc(Mark(nodes, {n}, "loading"), links)
         \/ UNCHANGED <<nodes, links, dirty, commit>>
         \/ SetDoc(Settled(nodes, n, FALSE), links)
  BY DEF RetryPrepared
<1>2. n \in Concerned(j) BY DEF Concerned
<1> HIDE DEF n
<1>3. AtHome(j, Mark(nodes, {n}, "loading")) /\ AtHome(j, Settled(nodes, n, FALSE))
  BY <1>2, HomeOpen, HomeKept
<1> QED BY <1>1, <1>3, AnswerDone, AnswerAside

LEMMA AnswerOneHome ==
    ASSUME NEW j \in DOMAIN jobs, NEW ok \in BOOLEAN, AnswerOne(j, ok) PROVE Answers(j)
<1> DEFINE t == jobs[j].root
           kindOf == [k \in Kinds |-> IF k = "text" THEN "text" ELSE "image"]
           turns == jobs[j].task = "retry" /\ jobs[j].src.kind # "video"
           got == [x \in DOMAIN nodes |->
                     IF x # t THEN nodes[x]
                     ELSE [nodes[x] EXCEPT !.shows = t, !.status = "success",
                              !.kind = IF turns THEN kindOf[jobs[j].src.kind] ELSE @]]
           ns == IF ok THEN got ELSE Settled(nodes, t, FALSE)
<1>1. jobsStep /\ SetDoc(ns, links) BY DEF AnswerOne
<1>2. t \in Concerned(j) BY DEF Concerned
<1>3. AtHome(j, got)
  <2>1. DOMAIN got = DOMAIN nodes /\ \A x \in DOMAIN nodes : x # t => got[x] = nodes[x] OBVIOUS
  <2> HIDE DEF got, t
  <2> QED BY <1>2, <2>1 DEF AtHome, NoneReturn
<1> HIDE DEF got, t
<1>4. AtHome(j, ns) BY <1>2, <1>3, HomeOpen, HomeKept
<1> HIDE DEF ns
<1> QED BY <1>1, <1>4, AnswerDone

LEMMA UploadedHome ==
    ASSUME TypeOK, NEW j \in DOMAIN jobs, CropAdded(j) \/ FileAdded(j) PROVE Answers(j)
<1>1. PICK rec, ls : jobsStep /\ SetDoc(Added(nodes, born + 1, rec), ls) BY DEF CropAdded, FileAdded
<1>2. AtHome(j, Added(nodes, born + 1, rec)) BY HomeOpen, HomeGrowsOne
<1> QED BY <1>1, <1>2, AnswerDone

LEMMA FileReplacedHome == ASSUME NEW j \in DOMAIN jobs, FileReplaced(j) PROVE Answers(j)
<1> DEFINE n == jobs[j].owner
<1>1. PICK rec : /\ jobsStep
                 /\ SetDoc(IF n \in DOMAIN nodes THEN Update(nodes, n, rec) ELSE nodes, links)
  BY DEF FileReplaced
<1>2. n \in Concerned(j) BY DEF Concerned
<1> HIDE DEF n
<1>3. AtHome(j, Update(nodes, n, rec)) BY <1>2, HomeOpen, HomeKept
<1> QED BY <1>1, <1>3, HomeOpen, AnswerDone

LEMMA AnswerSteps == TypeOK /\ SomeAnswer => \E j \in DOMAIN jobs : Answers(j)
BY LaunchImageHome, LaunchVideoHome, LaunchTextHome, StreamTextHome, AnswerImageHome,
   AnswerVideoHome, AnswerTextHome, RetryPreparedHome, AnswerOneHome, UploadedHome,
   FileReplacedHome DEF SomeAnswer

-----------------------------------------------------------------------------
(* The properties *)

\* An entry of the history is put back.
Replays == Replayed /\ dirty' /\ UNCHANGED preview

LEMMA ReplaySteps == TypeOK /\ (Undo \/ Redo) => Replays
<1> SUFFICES ASSUME TypeOK, NEW entry, ApplyHistory(entry) PROVE Replays BY DEF Undo, Redo
<1>1. applying \in Seq(Documents(born)) BY HistorySet DEF TypeOK, HistoryTyped
<1>2. applying' = Append(applying, entry) /\ dirty' /\ UNCHANGED preview BY DEF ApplyHistory
<1>3. applying \in Seq(Documents(born) \cup {entry}) BY <1>1, SeqMonotonic
<1>4. Len(applying') = Len(applying) + 1 /\ Len(applying) \in Nat
  BY <1>2, <1>3, AppendProperties, LenProperties
<1> QED BY <1>2, <1>4 DEF Replays, Replayed

\* Opening the page again keeps the nodes, and starts the history over.
LEMMA ReloadDone ==
    ASSUME TypeOK, Reload
    PROVE  acts' # acts /\ DOMAIN nodes' = DOMAIN nodes /\ last' = Doc(nodes', links')
BY ActCounts DEF Reload, Opened, Mark

LEMMA RecordedKept ==
    ASSUME TypeOK, RecordedIsCurrent, [Next]_vars PROVE RecordedIsCurrent'
<1>1. SomeEdit => RecordedIsCurrent' BY EditSteps DEF Edits, RecordedIsCurrent
<1>2. SomethingElse => RecordedIsCurrent' BY AsideSteps DEF Aside, RecordedIsCurrent
<1>3. SomeAnswer => RecordedIsCurrent' BY AnswerSteps DEF Answers, RecordedIsCurrent
<1>4. Undo \/ Redo => RecordedIsCurrent' BY ReplaySteps DEF Replays, RecordedIsCurrent
<1>5. CommitHistory => RecordedIsCurrent' BY DEF CommitHistory, docVars, RecordedIsCurrent
<1>6. HistoryApplied => RecordedIsCurrent' BY DEF HistoryApplied, docVars, RecordedIsCurrent
<1>7. Reload => RecordedIsCurrent' BY ReloadDone DEF RecordedIsCurrent
<1>8. ASSUME NEW count, ConfirmPreview(count) PROVE RecordedIsCurrent'
  BY <1>8, SetDocTyped DEF ConfirmPreview, RecordedIsCurrent
<1>9. UNCHANGED vars => RecordedIsCurrent' BY DEF vars, docVars, historyVars, RecordedIsCurrent
<1> QED
  BY <1>1, <1>2, <1>3, <1>4, <1>5, <1>6, <1>7, <1>8, <1>9, EveryStep DEF AnyStep, SomeHistory

\* RecordedIsCurrent (CanvasEditorProperties): a difference between the
\* document and what was last recorded is one that the history effect has
\* marked, whatever is edited, answered or undone in between.
THEOREM RecordedStaysCurrent == Spec => []RecordedIsCurrent
<1>1. Init => RecordedIsCurrent BY DEF Init, RecordedIsCurrent
<1> QED BY <1>1, RecordedKept, TypeCorrect, PTL DEF Spec

\* DeletedStaysDeleted (CanvasEditorProperties), for every document and any
\* number of requests: it rests on TypeOK, by which no number that was given
\* to a node is given again.
THEOREM DeletedNeverReturns == Spec => DeletedStaysDeleted
<1> DEFINE Stays == \A n \in 1 .. born : n \in DOMAIN nodes' \ DOMAIN nodes =>
              Replayed \/ (preview.on /\ ~preview'.on /\ n \in DOMAIN preview.nodes)
<1>1. TypeOK /\ [Next]_vars => Stays
  <2> SUFFICES ASSUME TypeOK, [Next]_vars PROVE Stays OBVIOUS
  <2>1. SomeEdit => Stays BY EditSteps DEF Edits, NoneReturn
  <2>2. SomethingElse => Stays BY AsideSteps DEF Aside
  <2>3. SomeAnswer => Stays BY AnswerSteps DEF Answers, AtHome, NoneReturn
  <2>4. Undo \/ Redo => Stays BY ReplaySteps DEF Replays
  <2>5. CommitHistory \/ HistoryApplied => Stays BY DEF CommitHistory, HistoryApplied, docVars
  <2>6. Reload => Stays BY ReloadDone
  <2>7. ASSUME NEW count, ConfirmPreview(count) PROVE Stays
    BY <2>7, SetDocTyped DEF ConfirmPreview, NoPreview
  <2>8. UNCHANGED vars => Stays BY DEF vars, docVars
  <2> HIDE DEF Stays
  <2> QED BY <2>1, <2>2, <2>3, <2>4, <2>5, <2>6, <2>7, <2>8, EveryStep DEF AnyStep, SomeHistory
<1> QED BY <1>1, TypeCorrect, PTL DEF Spec, DeletedStaysDeleted

\* AnswersStayHome (CanvasEditorProperties): an answer writes into the nodes
\* its request is for, however many requests are answered together.
THEOREM AnswersNeverStray == Spec => AnswersStayHome
<1> DEFINE Home == acts' = acts /\ ~Replayed /\ ~preview.on /\ held = held' =>
                     \A n \in DOMAIN nodes : nodes'[n] # nodes[n] => Busy(n)
<1>1. TypeOK /\ [Next]_vars => Home
  <2> SUFFICES ASSUME TypeOK, [Next]_vars PROVE Home OBVIOUS
  <2>1. SomeEdit => Home BY EditSteps DEF Edits
  <2>2. SomethingElse => Home BY AsideSteps DEF Aside
  <2>3. SomeAnswer => Home BY AnswerSteps DEF Answers, AtHome, Concerned, Busy
  <2>4. Undo \/ Redo => Home BY ReplaySteps DEF Replays
  <2>5. CommitHistory \/ HistoryApplied => Home BY DEF CommitHistory, HistoryApplied, docVars
  <2>6. Reload => Home BY ReloadDone
  <2>7. ASSUME NEW count, ConfirmPreview(count) PROVE Home BY <2>7 DEF ConfirmPreview
  <2>8. UNCHANGED vars => Home BY DEF vars, docVars
  <2> HIDE DEF Home
  <2> QED BY <2>1, <2>2, <2>3, <2>4, <2>5, <2>6, <2>7, <2>8, EveryStep DEF AnyStep, SomeHistory
<1> QED BY <1>1, TypeCorrect, PTL DEF Spec, AnswersStayHome

\* PreviewAllOrNothing (CanvasEditorProperties): no step, of the assistant or
\* of a request that is answered meanwhile, closes a preview half taken over.
THEOREM PreviewsAllOrNothing == Spec => PreviewAllOrNothing
<1> DEFINE Whole == preview.on /\ ~preview'.on /\ acts' = acts =>
                      \/ Doc(nodes', links') = Doc(nodes, links)
                      \/ Doc(nodes', links') = Doc(preview.nodes, preview.links)
<1>1. TypeOK /\ [Next]_vars => Whole
  <2> SUFFICES ASSUME TypeOK, [Next]_vars PROVE Whole OBVIOUS
  <2>1. SomeEdit => Whole BY EditSteps DEF Edits
  <2>2. SomethingElse => Whole BY AsideSteps DEF Aside
  <2>3. SomeAnswer => Whole BY AnswerSteps DEF Answers
  <2>4. Undo \/ Redo => Whole BY ReplaySteps DEF Replays
  <2>5. CommitHistory \/ HistoryApplied => Whole BY DEF CommitHistory, HistoryApplied, docVars
  <2>6. Reload => Whole BY ReloadDone
  <2>7. ASSUME NEW count, ConfirmPreview(count) PROVE Whole BY <2>7, SetDocTyped DEF ConfirmPreview
  <2>8. UNCHANGED vars => Whole BY DEF vars, docVars
  <2> HIDE DEF Whole
  <2> QED BY <2>1, <2>2, <2>3, <2>4, <2>5, <2>6, <2>7, <2>8, EveryStep DEF AnyStep, SomeHistory
<1> QED BY <1>1, TypeCorrect, PTL DEF Spec, PreviewAllOrNothing
=============================================================================
