---------------------------- MODULE SearchProofs ----------------------------
(***************************************************************************)
(* What holds of the search for any numbers of attributes, products,         *)
(* documents, queries and failed calls, and any size of a page.              *)
(***************************************************************************)
EXTENDS Search, CatalogProofs

-----------------------------------------------------------------------------
(* The index.  An import may be holding a product when it is deleted, so      *)
(* that what is said of the index must be said of the batch too.              *)

BatchIsKnown == DOMAIN batch \subseteq Products \cup missed

IndexInv == GoneIsForgotten /\ BatchIsKnown

\* Nothing is indexed at first.
LEMMA IndexInit == Init => IndexInv
  BY DEF Init, IndexInv, GoneIsForgotten, BatchIsKnown

\* Editing the catalogue, deletes apart, takes no product away.
LEMMA EditsKeepProducts ==
  ASSUME \/ EditAttr
         \/ \E form \in SpuForms : SaveSpu(form)
         \/ \E form \in Forms : Save(form)
  PROVE  Products \subseteq Products'
  <1>1. CASE EditAttr
    BY <1>1 DEF EditAttr, InsertAttr, UpdateAttr, DeleteAttr, Products
  <1>2. CASE \E form \in SpuForms : SaveSpu(form)
    BY <1>2 DEF SaveSpu, Products
  <1>3. CASE \E form \in Forms : Save(form)
    <2>1. PICK form \in Forms : Save(form)
      BY <1>3
    <2>2. CASE SaveSku(form)
      BY <2>2 DEF SaveSku, Products
    <2>3. CASE UpdateSkuInfo(form)
      BY <2>3 DEF UpdateSkuInfo, Products
    <2> QED
      BY <2>1, <2>2, <2>3 DEF Save
  <1> QED
    BY <1>1, <1>2, <1>3

\* A delete takes away the product and its document, or is noted in missed; it is
\* noted as well when an import is holding the product.
LEMMA DeleteKeepsIndex ==
  ASSUME IndexInv, NEW s \in SkuIds, DeleteSkuInfo(s)
  PROVE  IndexInv'
  <1>1. Products' = Products \ {s}
    BY DEF DeleteSkuInfo, DeleteSkuRows, Products
  <1>2. batch' = batch
    BY DEF DeleteSkuInfo
  <1>3. CASE /\ index' = Without(index, s)
             /\ missed' = (missed \ {s}) \cup ({s} \cap DOMAIN batch)
    <2>1. DOMAIN index' = DOMAIN index \ {s}
      BY <1>3 DEF Without
    <2> QED
      BY <1>1, <1>2, <1>3, <2>1 DEF IndexInv, GoneIsForgotten, BatchIsKnown
  <1>4. CASE index' = index /\ missed' = missed \cup {s}
    BY <1>1, <1>2, <1>4 DEF IndexInv, GoneIsForgotten, BatchIsKnown
  <1> QED
    BY <1>3, <1>4 DEF DeleteSkuInfo, IndexChanges

\* A document that is written comes from the batch.
LEMMA WriteKeepsIndex ==
  ASSUME IndexInv, NEW s \in SkuIds, WriteDocument(s)
  PROVE  IndexInv'
  <1>1. Products' = Products /\ missed' = missed
    BY DEF WriteDocument, catalogVars, Products
  <1>2. DOMAIN batch' = DOMAIN batch \ {s} /\ s \in DOMAIN batch
    BY DEF WriteDocument, Without
  <1>3. DOMAIN index' \subseteq DOMAIN index \cup {s}
    BY DEF WriteDocument, IndexChanges
  <1> QED
    BY <1>1, <1>2, <1>3 DEF IndexInv, GoneIsForgotten, BatchIsKnown

\* Every step keeps the invariant.
LEMMA IndexInvStep == IndexInv /\ [Next]_vars => IndexInv'
  <1> SUFFICES ASSUME IndexInv, [Next]_vars PROVE IndexInv'
    OBVIOUS
  <1>1. CASE \/ EditAttr /\ UNCHANGED searchVars
             \/ \E form \in SpuForms : SaveSpu(form) /\ UNCHANGED searchVars
             \/ \E form \in Forms : Save(form) /\ UNCHANGED <<dlg, searchVars>>
    <2>1. Products \subseteq Products'
      BY <1>1, EditsKeepProducts
    <2>2. UNCHANGED <<index, batch, missed>>
      BY <1>1 DEF searchVars
    <2> QED
      BY <2>1, <2>2 DEF IndexInv, GoneIsForgotten, BatchIsKnown
  <1>2. ASSUME NEW s \in SkuIds, DeleteSkuInfo(s) PROVE IndexInv'
    BY <1>2, DeleteKeepsIndex
  <1>3. ASSUME NEW s \in SkuIds, WriteDocument(s) PROVE IndexInv'
    BY <1>3, WriteKeepsIndex
  <1>4. CASE ReadProducts
    BY <1>4 DEF ReadProducts, catalogVars, Products, IndexInv, GoneIsForgotten, BatchIsKnown
  <1>5. CASE \/ \E query \in Queries \cup {NoQuery} : Enter(query)
             \/ \E v \in 1..MaxValue : FollowValue(v) \/ FollowCrumb(v)
             \/ SearchIndex \/ ShowList
             \/ UNCHANGED vars
    <2>1. UNCHANGED <<skuInfo, index, batch, missed>>
      BY <1>5 DEF Enter, FollowValue, FollowCrumb, SearchIndex, ShowList, catalogVars, searchVars, vars
    <2> QED
      BY <2>1 DEF Products, IndexInv, GoneIsForgotten, BatchIsKnown
  <1> QED
    BY <1>1, <1>2, <1>3, <1>4, <1>5 DEF Next

\* A deleted product is not in the index, unless Elasticsearch failed to delete it or
\* an import had read it before (deleteSkuInfo, toElastic).
THEOREM GoneIsForgottenHolds == Spec => []GoneIsForgotten
  <1>1. IndexInv => GoneIsForgotten
    BY DEF IndexInv
  <1> QED
    BY IndexInit, IndexInvStep, <1>1, PTL DEF Spec

-----------------------------------------------------------------------------
(* The ids in the address. *)

\* A crumb keeps ids of the address, no two of them from one place.
LEMMA OtherIdsKept ==
  ASSUME NEW S, NEW list \in Seq(S), NEW v
  PROVE  \E n \in Nat : \E at \in [1..n -> DOMAIN list] :
             /\ OtherIds(list, v) = [i \in 1..n |-> list[at[i]]]
             /\ \A i, j \in 1..n : at[i] = at[j] => i = j
             /\ OtherIds(list, v) \in Seq(S)
  <1> DEFINE kept == {[id |-> i, value |-> list[i]] : i \in {j \in DOMAIN list : list[j] # v}}
             n == Cardinality(kept)
             at == [i \in 1..n |-> ById(kept)[i].id]
  <1>1. /\ Len(list) \in Nat /\ DOMAIN list = 1..Len(list)
        /\ \A i \in DOMAIN list : list[i] \in S
    BY ElementOfSeq
  <1>2. \A r \in kept : r.id \in DOMAIN list /\ r.value = list[r.id]
    OBVIOUS
  <1>3. UniqueIds(kept)
    BY DEF UniqueIds
  <1>4. /\ n \in Nat /\ ById(kept) \in [1..n -> kept]
        /\ \A i, j \in 1..n : i < j => ById(kept)[i].id < ById(kept)[j].id
    <2> HIDE DEF kept
    <2> QED
      BY <1>1, <1>2, <1>3, RowsInOrder
  <1> HIDE DEF kept, n
  <1>5. at \in [1..n -> DOMAIN list] /\ \A i \in 1..n : ById(kept)[i].value = list[at[i]]
    BY <1>2, <1>4
  <1>6. OtherIds(list, v) = [i \in 1..n |-> list[at[i]]]
    <2>1. OtherIds(list, v) = [i \in DOMAIN ById(kept) |-> ById(kept)[i].value]
      BY DEF OtherIds, kept
    <2> QED
      BY <1>4, <1>5, <2>1
  <1>7. \A i, j \in 1..n : i < j => at[i] < at[j]
    BY <1>4
  <1> HIDE DEF at
  <1>8. \A i, j \in 1..n : at[i] = at[j] => i = j
    BY <1>1, <1>4, <1>5, <1>7
  <1>9. OtherIds(list, v) \in Seq(S)
    BY <1>1, <1>4, <1>5, <1>6
  <1> QED
    BY <1>4, <1>5, <1>6, <1>8, <1>9

-----------------------------------------------------------------------------
(* The catalogue and the types. *)

\* A row with an id that was given out before a step was there before, with its attribute.
RowsStay ==
    /\ last.value <= last'.value
    /\ \A row \in attrValue' : row.id <= last.value =>
           row \in attrValue /\ (row.attr \in attrInfo' => row.attr \in attrInfo)

TypeInv == SearchTypeOK /\ AttrIds /\ SpuIds

\* No step of the search does more to the catalogue than the catalogue's own.
LEMMA CatalogStep ==
  ASSUME TypeInv, [Next]_vars
  PROVE  TypeOK' /\ AttrIds' /\ SpuIds' /\ RowsStay
  <1>1. TypeOK /\ AttrIds /\ SpuIds
    BY DEF TypeInv, SearchTypeOK
  <1>2. last.value \in Nat
    BY <1>1 DEF TypeOK
  <1>3. CASE EditAttr
    <2>1. UNCHANGED spuValue
      BY <1>3 DEF EditAttr, InsertAttr, UpdateAttr, DeleteAttr
    <2>2. TypeOK' /\ UNCHANGED last.spuValue
      BY <1>1, <1>3, AttrTypes
    <2>3. AttrIds' /\ RowsStay
      BY <1>1, <1>3, AttrIdsStep DEF RowsStay
    <2> QED
      BY <1>1, <2>1, <2>2, <2>3 DEF SpuIds
  <1>4. ASSUME NEW form \in SpuForms, SaveSpu(form)
        PROVE  TypeOK' /\ AttrIds' /\ SpuIds' /\ RowsStay
    <2>1. UNCHANGED <<attrInfo, attrValue>>
      BY <1>4 DEF SaveSpu
    <2>2. TypeOK' /\ SpuIds' /\ UNCHANGED <<last.attr, last.value>>
      BY <1>1, <1>4, SaveSpuTypes
    <2> QED
      BY <1>1, <1>2, <2>1, <2>2 DEF AttrIds, RowsStay
  <1>5. ASSUME NEW form \in Forms, Save(form), UNCHANGED dlg
        PROVE  TypeOK' /\ AttrIds' /\ SpuIds' /\ RowsStay
    <2>1. /\ TypeOK' /\ UNCHANGED <<attrInfo, attrValue, spuValue>>
          /\ UNCHANGED <<last.attr, last.value, last.spuValue>>
      BY <1>1, <1>5, SaveTypes
    <2> QED
      BY <1>1, <1>2, <2>1 DEF AttrIds, SpuIds, RowsStay
  <1>6. ASSUME NEW s \in SkuIds, DeleteSkuInfo(s)
        PROVE  TypeOK' /\ AttrIds' /\ SpuIds' /\ RowsStay
    <2>1. DeleteSkuRows(s)
      BY <1>6 DEF DeleteSkuInfo
    <2>2. TypeOK' /\ UNCHANGED <<attrInfo, attrValue, spuValue, last>>
      BY <1>1, <2>1, DeleteTypes DEF DeleteSkuRows
    <2> QED
      BY <1>1, <1>2, <2>2 DEF AttrIds, SpuIds, RowsStay
  <1>7. CASE UNCHANGED catalogVars
    BY <1>1, <1>2, <1>7 DEF catalogVars, TypeOK, Dialog, AttrIds, SpuIds, RowsStay
  <1> QED
    BY <1>3, <1>4, <1>5, <1>6, <1>7 DEF Next, vars, searchVars, ReadProducts, WriteDocument, Enter,
       FollowValue, FollowCrumb, SearchIndex, ShowList

\* A function from some products to sets of ids is a set of documents, and conversely.
LEMMA DocumentsAre ==
  /\ \A D \in SUBSET SkuIds : \A f \in [D -> SUBSET (1..MaxValue)] : f \in Documents
  /\ \A f \in Documents : DOMAIN f \subseteq SkuIds /\ f \in [DOMAIN f -> SUBSET (1..MaxValue)]
  BY DEF Documents

\* At first there is the front page.
LEMMA TypeInit == Init => TypeInv
  <1> SUFFICES ASSUME Init PROVE TypeInv
    OBVIOUS
  <1>1. <<>> \in Seq(SkuSaleRow) /\ <<>> \in Seq(1..MaxValue)
    OBVIOUS
  <1>2. TypeOK
    <2>1. 0 \in 0..MaxAttr /\ 0 \in 0..MaxValue /\ 0 \in 0..MaxSpu /\ 0 \in 0..MaxSpuValue
          /\ 0 \in 0..MaxSku
      BY CatalogBounds
    <2> QED
      BY <1>1, <2>1 DEF Init, CatalogInit, TypeOK, Dialog, Closed
  <1>3. <<>> \in Documents
    <2>1. <<>> \in [{} -> SUBSET (1..MaxValue)]
      OBVIOUS
    <2> QED
      BY <2>1, DocumentsAre
  <1>4. visit \in Visit
    BY <1>1 DEF Init, FrontPage, Visit
  <1>5. SearchTypeOK
    BY <1>2, <1>3, <1>4, SearchAssumption DEF Init, SearchTypeOK
  <1> QED
    BY <1>5 DEF Init, CatalogInit, TypeInv, AttrIds, SpuIds, UniqueIds

\* The index and what an import holds stay sets of documents.
LEMMA IndexTypes ==
  ASSUME TypeInv, [Next]_vars
  PROVE  /\ index' \in Documents /\ batch' \in Documents
         /\ errors' \in 0..MaxIndexErrors /\ missed' \subseteq SkuIds
  <1>1. /\ index \in Documents /\ batch \in Documents /\ missed \subseteq SkuIds
        /\ errors \in 0..MaxIndexErrors /\ MaxIndexErrors \in Nat
    BY SearchAssumption DEF TypeInv, SearchTypeOK
  <1>2. (ElasticFails \/ ElasticWorks \/ UNCHANGED errors) => errors' \in 0..MaxIndexErrors
    BY <1>1 DEF ElasticFails, ElasticWorks
  <1>3. ASSUME NEW docs \in Documents, NEW s PROVE Without(docs, s) \in Documents
    <2>1. DOMAIN docs \ {s} \in SUBSET SkuIds
      BY DocumentsAre
    <2>2. Without(docs, s) \in [DOMAIN docs \ {s} -> SUBSET (1..MaxValue)]
      BY DocumentsAre DEF Without
    <2> QED
      BY <2>1, <2>2, DocumentsAre
  <1>4. CASE ReadProducts
    <2> DEFINE read == [s \in Products |-> {row.value : row \in skuAttr[s]}]
    <2>1. Products \in SUBSET SkuIds
      <3>1. /\ skuInfo \subseteq [id : 1..last.sku, spu : 1..last.spu]
            /\ last.sku \in 0..MaxSku /\ MaxSku \in Nat
        BY CatalogBounds DEF TypeInv, SearchTypeOK, TypeOK
      <3>2. 1..last.sku \subseteq 1..MaxSku
        BY <3>1
      <3> QED
        BY <3>1, <3>2 DEF Products, SkuIds
    <2>2. \A s \in SkuIds : {row.value : row \in skuAttr[s]} \subseteq 1..MaxValue
      BY DEF TypeInv, SearchTypeOK, TypeOK, SkuAttrRow
    <2>3. read \in [Products -> SUBSET (1..MaxValue)]
      BY <2>1, <2>2
    <2>4. read \in Documents
      BY <2>1, <2>3, DocumentsAre
    <2> QED
      BY <1>1, <1>2, <1>4, <2>4 DEF ReadProducts
  <1>5. ASSUME NEW s \in SkuIds, WriteDocument(s) PROVE
              /\ index' \in Documents /\ batch' \in Documents
              /\ errors' \in 0..MaxIndexErrors /\ missed' \subseteq SkuIds
    <2> DEFINE written == [d \in DOMAIN index \cup {s} |-> IF d = s THEN batch[s] ELSE index[d]]
    <2>1. s \in DOMAIN batch
      BY <1>5 DEF WriteDocument
    <2>2. DOMAIN index \cup {s} \in SUBSET SkuIds
      BY <1>1, DocumentsAre
    <2>3. written \in [DOMAIN index \cup {s} -> SUBSET (1..MaxValue)]
      BY <1>1, <2>1, DocumentsAre
    <2>4. written \in Documents
      BY <2>2, <2>3, DocumentsAre
    <2>5. batch' \in Documents /\ missed' = missed
      BY <1>1, <1>3, <1>5 DEF WriteDocument
    <2>6. index' \in Documents
      BY <1>1, <1>5, <2>4 DEF WriteDocument, IndexChanges
    <2> QED
      BY <1>1, <1>2, <1>5, <2>5, <2>6 DEF WriteDocument
  <1>6. ASSUME NEW s \in SkuIds, DeleteSkuInfo(s) PROVE
              /\ index' \in Documents /\ batch' \in Documents
              /\ errors' \in 0..MaxIndexErrors /\ missed' \subseteq SkuIds
    BY <1>1, <1>2, <1>3, <1>6 DEF DeleteSkuInfo, IndexChanges
  <1>7. CASE UNCHANGED <<index, batch, missed>>
    <2>1. ElasticFails \/ ElasticWorks \/ UNCHANGED errors
      BY <1>7 DEF Next, vars, searchVars, ReadProducts, WriteDocument, DeleteSkuInfo, Enter,
         FollowValue, FollowCrumb, SearchIndex, ShowList, ElasticWorks
    <2> QED
      BY <1>1, <1>2, <1>7, <2>1
  <1> QED
    BY <1>4, <1>5, <1>6, <1>7 DEF Next, vars, searchVars, Enter, FollowValue, FollowCrumb,
       SearchIndex, ShowList

\* The page of the visitor keeps its types.
LEMMA VisitTypes ==
  ASSUME TypeInv, [Next]_vars
  PROVE  visit' \in Visit
  <1>1. visit \in Visit
    BY DEF TypeInv, SearchTypeOK
  <1>2. ASSUME NEW query \in Queries \cup {NoQuery}, NEW ids \in Seq(1..MaxValue),
               NEW expects \in BOOLEAN, Ask(query, ids, expects)
        PROVE  visit' \in Visit
    <2>1. visit' = [pc |-> "search", query |-> query, valueId |-> ids, found |-> FALSE,
                    valueIds |-> {}, links |-> {}, crumbs |-> {}, fresh |-> FALSE,
                    expects |-> expects]
      BY <1>2 DEF Ask, FrontPage
    <2> QED
      BY <2>1 DEF Visit
  <1>3. ASSUME NEW query \in Queries \cup {NoQuery}, Enter(query) PROVE visit' \in Visit
    <2>1. <<>> \in Seq(1..MaxValue)
      OBVIOUS
    <2> QED
      BY <1>2, <1>3, <2>1 DEF Enter
  <1>4. ASSUME NEW v \in 1..MaxValue, FollowValue(v) PROVE visit' \in Visit
    <2>1. Append(visit.valueId, v) \in Seq(1..MaxValue) /\ visit.fresh \in BOOLEAN
          /\ visit.query \in Queries \cup {NoQuery}
      BY <1>1 DEF Visit
    <2> QED
      BY <1>2, <1>4, <2>1 DEF FollowValue
  <1>5. ASSUME NEW v \in 1..MaxValue, FollowCrumb(v) PROVE visit' \in Visit
    <2>1. visit.valueId \in Seq(1..MaxValue) /\ visit.fresh \in BOOLEAN
          /\ visit.query \in Queries \cup {NoQuery}
      BY <1>1 DEF Visit
    <2>2. OtherIds(visit.valueId, v) \in Seq(1..MaxValue)
      BY <2>1, OtherIdsKept
    <2> QED
      BY <1>2, <1>5, <2>1, <2>2 DEF FollowCrumb
  <1>6. CASE SearchIndex
    <2>1. CASE visit' = [visit EXCEPT !.pc = "attributes", !.expects = FALSE]
      BY <1>1, <2>1 DEF Visit
    <2>2. ASSUME NEW hits \in SUBSET DOMAIN index,
                 visit' = [visit EXCEPT !.pc = "attributes", !.fresh = TRUE,
                                        !.found = hits # {},
                                        !.valueIds = UNION {index[s] : s \in hits}]
          PROVE  visit' \in Visit
      <3>1. UNION {index[s] : s \in hits} \subseteq 1..MaxValue
        BY DocumentsAre DEF TypeInv, SearchTypeOK
      <3> DEFINE ids == UNION {index[s] : s \in hits}
                 found == hits # {}
      <3>2. found \in BOOLEAN /\ visit' = [visit EXCEPT !.pc = "attributes", !.fresh = TRUE,
                                        !.found = found, !.valueIds = ids]
        BY <2>2
      <3> HIDE DEF found, ids
      <3> QED
        BY <1>1, <3>1, <3>2 DEF Visit, ids
    <2> QED
      BY <1>6, <2>1, <2>2 DEF SearchIndex
  <1>7. CASE ShowList
    <2>1. ASSUME NEW pc \in {"shown", "failed"}, NEW links \in SUBSET (1..MaxValue),
                 NEW crumbs \in SUBSET (1..MaxValue), Show(pc, links, crumbs)
          PROVE  visit' \in Visit
      BY <1>1, <2>1 DEF Show, Visit
    <2>2. attrValue \subseteq AttrValueRow
      BY DEF TypeInv, SearchTypeOK, TypeOK
    <2>3. \A ids, list : LET rows == AttrListByValueId(ids)
                             crumbs == CrumbRows(rows, list) IN
              /\ LinkRows(rows, crumbs) \in SUBSET (1..MaxValue)
              /\ {row.id : row \in crumbs} \in SUBSET (1..MaxValue)
      BY <2>2 DEF AttrListByValueId, CrumbRows, LinkRows, AttrValueRow
    <2>4. {} \in SUBSET (1..MaxValue)
      OBVIOUS
    <2> QED
      BY <1>7, <2>1, <2>3, <2>4 DEF ShowList
  <1>8. ASSUME NEW docs, IndexChanges(docs) PROVE visit' \in Visit
    BY <1>1, <1>8 DEF IndexChanges, Visit
  <1>9. CASE UNCHANGED visit
    BY <1>1, <1>9
  <1> QED
    BY <1>3, <1>4, <1>5, <1>6, <1>7, <1>8, <1>9 DEF Next, vars, searchVars, ReadProducts,
       WriteDocument, DeleteSkuInfo

\* Every step keeps the types.
LEMMA TypeStep == TypeInv /\ [Next]_vars => TypeInv'
  <1> SUFFICES ASSUME TypeInv, [Next]_vars PROVE TypeInv'
    OBVIOUS
  <1>1. TypeOK' /\ AttrIds' /\ SpuIds'
    BY CatalogStep
  <1>2. /\ index' \in Documents /\ batch' \in Documents
        /\ errors' \in 0..MaxIndexErrors /\ missed' \subseteq SkuIds
    BY IndexTypes
  <1>3. visit' \in Visit
    BY VisitTypes
  <1> QED
    BY <1>1, <1>2, <1>3 DEF TypeInv, SearchTypeOK

\* The tables, the index, an import and the page of a visitor keep their types.
THEOREM SearchTypeCorrect == Spec => []SearchTypeOK
  <1>1. TypeInv => SearchTypeOK
    BY DEF TypeInv
  <1> QED
    BY <1>1, TypeInit, TypeStep, PTL DEF Spec

-----------------------------------------------------------------------------
(* The page of the visitor. *)

\* An address that is being asked for shows nothing yet, and an empty list no values.
AskIsBlank ==
    visit.pc = "search" => ~visit.found /\ visit.valueIds = {} /\ visit.links = {} /\ visit.crumbs = {}

FoundNothing == ~visit.found => visit.valueIds = {}

\* What is in the address and in the links are ids that were given out.
IdsKnown ==
    /\ \A i \in DOMAIN visit.valueId : visit.valueId[i] <= last.value
    /\ \A v \in visit.links : v <= last.value

\* A link is never to another value of an attribute that is selected.
LinksFree ==
    \A q, r \in attrValue : \A i \in DOMAIN visit.valueId :
        q.id \in visit.links /\ r.id = visit.valueId[i] => q.attr # r.attr

\* Every product that was found has the values that are selected.
FilterInHits ==
    visit.pc = "attributes" /\ visit.found =>
        \A i \in DOMAIN visit.valueId : visit.valueId[i] \in visit.valueIds

\* As long as the index is what it was, what the page offers is in a document that the
\* filter lets through.
OffersFound ==
    visit.fresh => \A v \in visit.valueIds \cup visit.links \cup visit.crumbs :
        \E s \in DOMAIN index : Matches(s) /\ v \in index[s]

AskFinds == visit.pc = "search" /\ visit.expects => \E s \in DOMAIN index : Matches(s)

VisitInv ==
    /\ AskIsBlank
    /\ FoundNothing
    /\ IdsKnown
    /\ LinksFree
    /\ OneValuePerAttribute
    /\ CrumbPerValue
    /\ FilterInHits
    /\ OffersFound
    /\ AskFinds
    /\ FollowFinds

\* The front page offers nothing.
LEMMA VisitInit == Init => VisitInv
  BY DEF Init, FrontPage, CatalogInit, VisitInv, AskIsBlank, FoundNothing, IdsKnown, LinksFree,
     OneValuePerAttribute, CrumbPerValue, FilterInHits, OffersFound, AskFinds, FollowFinds

\* Rows, as numbers can be compared.
LEMMA VisitFacts ==
  ASSUME TypeInv
  PROVE  /\ \A row \in attrValue : row.id \in 1..MaxValue
         /\ visit.valueId \in Seq(1..MaxValue)
         /\ DOMAIN visit.valueId = 1..Len(visit.valueId) /\ Len(visit.valueId) \in Nat
         /\ \A i \in DOMAIN visit.valueId : visit.valueId[i] \in 1..MaxValue
         /\ visit.links \subseteq 1..MaxValue /\ visit.crumbs \subseteq 1..MaxValue
         /\ last.value \in Nat /\ MaxValue \in Nat
         /\ DOMAIN visit = {"pc", "query", "valueId", "found", "valueIds", "links", "crumbs",
                            "fresh", "expects"}
  <1>1. visit \in Visit
    BY DEF TypeInv, SearchTypeOK
  <1>2. visit.valueId \in Seq(1..MaxValue)
    BY <1>1 DEF Visit
  <1>3. \A i \in DOMAIN visit.valueId : visit.valueId[i] \in 1..MaxValue
    <2> DEFINE list == visit.valueId
    <2>1. list \in Seq(1..MaxValue)
      BY <1>2
    <2> HIDE DEF list
    <2>2. DOMAIN list = 1..Len(list)
      BY <2>1
    <2>3. \A i \in DOMAIN list : list[i] \in 1..MaxValue
      BY <2>1, <2>2, ElementOfSeq
    <2> QED
      BY <2>3 DEF list
  <1>4. attrValue \subseteq AttrValueRow /\ last.value \in Nat /\ MaxValue \in Nat
    BY CatalogBounds DEF TypeInv, SearchTypeOK, TypeOK
  <1> QED
    BY <1>1, <1>2, <1>3, <1>4 DEF Visit, AttrValueRow

\* While the visitor only looks, edited attributes and a changed index take away what was
\* promised of the index, and nothing else.
LEMMA OthersKeepVisit ==
  ASSUME TypeInv, TypeInv', VisitInv, RowsStay,
         \/ UNCHANGED <<index, visit>>
         \/ visit' = [visit EXCEPT !.fresh = FALSE, !.expects = FALSE]
  PROVE  VisitInv'
  <1>1. /\ visit'.pc = visit.pc /\ visit'.query = visit.query /\ visit'.valueId = visit.valueId
        /\ visit'.found = visit.found /\ visit'.valueIds = visit.valueIds
        /\ visit'.links = visit.links /\ visit'.crumbs = visit.crumbs
    BY VisitFacts
  <1>2. \/ /\ visit'.fresh = visit.fresh /\ visit'.expects = visit.expects
           /\ index' = index
        \/ visit'.fresh = FALSE /\ visit'.expects = FALSE
    BY VisitFacts
  <1>3. /\ \A i \in DOMAIN visit.valueId : visit.valueId[i] \in Nat
        /\ \A v \in visit.links : v \in Nat
        /\ last.value \in Nat /\ last'.value \in Nat /\ last.value <= last'.value
    <2>1. last'.value \in Nat
      BY CatalogBounds DEF TypeInv, SearchTypeOK, TypeOK
    <2>2. MaxValue \in Nat /\ \A n \in 1..MaxValue : n \in Nat
      BY CatalogBounds
    <2> QED
      BY <2>1, <2>2, VisitFacts DEF RowsStay
  <1>4. \A row \in attrValue' : row.id <= last.value =>
            row \in attrValue /\ (row.attr \in attrInfo' => row.attr \in attrInfo)
    BY DEF RowsStay
  <1>5. /\ \A i \in DOMAIN visit.valueId : visit.valueId[i] <= last.value
        /\ \A v \in visit.links : v <= last.value
    BY DEF VisitInv, IdsKnown
  <1>6. IdsKnown'
    BY <1>1, <1>3, <1>5 DEF IdsKnown
  <1>7. LinksFree'
    BY <1>1, <1>4, <1>5 DEF VisitInv, LinksFree
  <1>8. OneValuePerAttribute'
    BY <1>1, <1>4, <1>5 DEF VisitInv, OneValuePerAttribute
  <1>9. CrumbPerValue'
    BY <1>1, <1>4, <1>5 DEF VisitInv, CrumbPerValue
  <1>10. AskIsBlank' /\ FoundNothing' /\ FilterInHits'
    BY <1>1 DEF VisitInv, AskIsBlank, FoundNothing, FilterInHits
  <1>11. OffersFound' /\ AskFinds' /\ FollowFinds'
    BY <1>1, <1>2 DEF VisitInv, OffersFound, AskFinds, FollowFinds, Matches
  <1> QED
    BY <1>6, <1>7, <1>8, <1>9, <1>10, <1>11 DEF VisitInv

\* Asking shows nothing yet; what the ids in the new address must be.
LEMMA AskKeepsVisit ==
  ASSUME TypeInv, NEW query, NEW ids, NEW expects, Ask(query, ids, expects),
         UNCHANGED <<catalogVars, index>>,
         \A i \in DOMAIN ids : ids[i] <= last.value,
         \A q, r \in attrValue : \A i, j \in DOMAIN ids :
             (q.id = ids[i] /\ r.id = ids[j] /\ q.attr = r.attr) => i = j,
         expects => \E s \in DOMAIN index :
             query \in FoundBy[s] /\ \A i \in DOMAIN ids : ids[i] \in index[s]
  PROVE  VisitInv'
  <1>1. visit' = [pc |-> "search", query |-> query, valueId |-> ids, found |-> FALSE,
                  valueIds |-> {}, links |-> {}, crumbs |-> {}, fresh |-> FALSE,
                  expects |-> expects]
    BY DEF Ask, FrontPage
  <1>2. UNCHANGED <<attrInfo, attrValue, last, index>>
    BY DEF catalogVars
  <1>3. IdsKnown' /\ LinksFree' /\ OneValuePerAttribute'
    BY <1>1, <1>2 DEF IdsKnown, LinksFree, OneValuePerAttribute
  <1>4. AskIsBlank' /\ FoundNothing' /\ CrumbPerValue' /\ FilterInHits' /\ OffersFound' /\ FollowFinds'
    BY <1>1 DEF AskIsBlank, FoundNothing, CrumbPerValue, FilterInHits, OffersFound, FollowFinds
  <1>5. AskFinds'
    BY <1>1, <1>2 DEF AskFinds, Matches
  <1> QED
    BY <1>3, <1>4, <1>5 DEF VisitInv

\* A link adds a value of an attribute of which none is selected.
LEMMA FollowValueStep ==
  ASSUME TypeInv, VisitInv, NEW v \in 1..MaxValue, FollowValue(v)
  PROVE  VisitInv'
  <1> DEFINE ids == Append(visit.valueId, v)
             n == Len(visit.valueId)
  <1>1. /\ Ask(visit.query, ids, visit.fresh) /\ UNCHANGED <<catalogVars, index>>
        /\ v \in visit.links
    BY DEF FollowValue
  <1>2. /\ n \in Nat /\ DOMAIN visit.valueId = 1..n /\ DOMAIN ids = 1..(n + 1)
        /\ ids[n + 1] = v /\ \A i \in 1..n : ids[i] = visit.valueId[i]
    BY VisitFacts
  <1> HIDE DEF ids, n
  <1>3. \A i \in DOMAIN ids : i \in DOMAIN visit.valueId \/ i = n + 1
    BY <1>2
  <1>4. \A i \in DOMAIN ids : ids[i] <= last.value
    BY <1>1, <1>2, <1>3 DEF VisitInv, IdsKnown
  <1>5. ASSUME NEW q \in attrValue, NEW r \in attrValue, NEW i \in DOMAIN ids, NEW j \in DOMAIN ids,
               q.id = ids[i], r.id = ids[j], q.attr = r.attr
        PROVE  i = j
    <2>1. CASE i \in DOMAIN visit.valueId /\ j \in DOMAIN visit.valueId
      BY <1>2, <1>5, <2>1 DEF VisitInv, OneValuePerAttribute
    <2>2. CASE i \in DOMAIN visit.valueId /\ j = n + 1
      BY <1>1, <1>2, <1>5, <2>2 DEF VisitInv, LinksFree
    <2>3. CASE i = n + 1 /\ j \in DOMAIN visit.valueId
      BY <1>1, <1>2, <1>5, <2>3 DEF VisitInv, LinksFree
    <2> QED
      BY <1>3, <2>1, <2>2, <2>3
  <1>6. visit.fresh => \E s \in DOMAIN index :
            visit.query \in FoundBy[s] /\ \A i \in DOMAIN ids : ids[i] \in index[s]
    BY <1>1, <1>2, <1>3 DEF VisitInv, OffersFound, Matches
  <1> QED
    BY <1>1, <1>4, <1>5, <1>6, AskKeepsVisit

\* A crumb takes a value out, so that no fewer products match.
LEMMA FollowCrumbStep ==
  ASSUME TypeInv, VisitInv, NEW v \in 1..MaxValue, FollowCrumb(v)
  PROVE  VisitInv'
  <1> DEFINE ids == OtherIds(visit.valueId, v)
  <1>1. /\ Ask(visit.query, ids, visit.fresh) /\ UNCHANGED <<catalogVars, index>>
        /\ v \in visit.crumbs
    BY DEF FollowCrumb
  <1>2. PICK n \in Nat : \E at \in [1..n -> DOMAIN visit.valueId] :
            /\ ids = [i \in 1..n |-> visit.valueId[at[i]]]
            /\ \A i, j \in 1..n : at[i] = at[j] => i = j
            /\ ids \in Seq(1..MaxValue)
    <2> DEFINE list == visit.valueId
    <2>1. list \in Seq(1..MaxValue)
      BY VisitFacts
    <2> HIDE DEF list
    <2>2. \E n \in Nat : \E at \in [1..n -> DOMAIN list] :
             /\ OtherIds(list, v) = [i \in 1..n |-> list[at[i]]]
             /\ \A i, j \in 1..n : at[i] = at[j] => i = j
             /\ OtherIds(list, v) \in Seq(1..MaxValue)
      BY <2>1, OtherIdsKept
    <2> QED
      BY <2>2 DEF list
  <1>3. PICK at \in [1..n -> DOMAIN visit.valueId] :
            /\ ids = [i \in 1..n |-> visit.valueId[at[i]]]
            /\ \A i, j \in 1..n : at[i] = at[j] => i = j
    BY <1>2
  <1> HIDE DEF ids
  <1>4. \A i \in DOMAIN ids : i \in 1..n /\ at[i] \in DOMAIN visit.valueId /\ ids[i] = visit.valueId[at[i]]
    BY <1>3
  <1>5. \A i \in DOMAIN ids : ids[i] <= last.value
    BY <1>4 DEF VisitInv, IdsKnown
  <1>6. \A q, r \in attrValue : \A i, j \in DOMAIN ids :
             (q.id = ids[i] /\ r.id = ids[j] /\ q.attr = r.attr) => i = j
    BY <1>3, <1>4 DEF VisitInv, OneValuePerAttribute
  <1>7. visit.fresh => \E s \in DOMAIN index :
            visit.query \in FoundBy[s] /\ \A i \in DOMAIN ids : ids[i] \in index[s]
    BY <1>1, <1>4 DEF VisitInv, OffersFound, Matches
  <1> QED
    BY <1>1, <1>5, <1>6, <1>7, AskKeepsVisit

\* The index is asked: a page of the documents that match is empty only if none does.
LEMMA SearchStep ==
  ASSUME TypeInv, VisitInv, SearchIndex
  PROVE  VisitInv'
  <1>1. UNCHANGED <<attrInfo, attrValue, last, index>> /\ visit.pc = "search"
    BY DEF SearchIndex, catalogVars
  <1>2. DOMAIN visit = {"pc", "query", "valueId", "found", "valueIds", "links", "crumbs",
                        "fresh", "expects"}
    BY VisitFacts
  <1>3. /\ ~visit.found /\ visit.valueIds = {} /\ visit.links = {} /\ visit.crumbs = {}
    BY <1>1 DEF VisitInv, AskIsBlank
  <1>4. ASSUME visit' = [visit EXCEPT !.pc = "attributes", !.expects = FALSE]
        PROVE  VisitInv'
    <2>1. /\ visit'.pc = "attributes" /\ ~visit'.expects /\ visit'.valueId = visit.valueId
          /\ ~visit'.found /\ visit'.valueIds = {} /\ visit'.links = {} /\ visit'.crumbs = {}
      BY <1>2, <1>3, <1>4
    <2> QED
      BY <1>1, <2>1 DEF VisitInv, AskIsBlank, FoundNothing, IdsKnown, LinksFree,
         OneValuePerAttribute, CrumbPerValue, FilterInHits, OffersFound, AskFinds, FollowFinds
  <1>5. ASSUME NEW hits \in SUBSET {s \in DOMAIN index : Matches(s)},
               \/ hits = {s \in DOMAIN index : Matches(s)}
               \/ Cardinality(hits) = PageSize,
               visit' = [visit EXCEPT !.pc = "attributes", !.fresh = TRUE, !.found = hits # {},
                                      !.valueIds = UNION {index[s] : s \in hits}]
        PROVE  VisitInv'
    <2>1. /\ visit'.pc = "attributes" /\ visit'.valueId = visit.valueId
          /\ visit'.query = visit.query /\ visit'.expects = visit.expects
          /\ visit'.found = (hits # {}) /\ visit'.valueIds = UNION {index[s] : s \in hits}
          /\ visit'.links = {} /\ visit'.crumbs = {}
      BY <1>2, <1>3, <1>5
    <2>2. IdsKnown' /\ LinksFree' /\ OneValuePerAttribute'
      BY <1>1, <2>1 DEF VisitInv, IdsKnown, LinksFree, OneValuePerAttribute
    <2>3. AskIsBlank' /\ CrumbPerValue' /\ AskFinds'
      BY <2>1 DEF AskIsBlank, CrumbPerValue, AskFinds
    <2>4. FoundNothing'
      <3>1. hits = {} => UNION {index[s] : s \in hits} = {}
        OBVIOUS
      <3> QED
        BY <2>1, <3>1 DEF FoundNothing
    <2>5. FilterInHits'
      <3> SUFFICES ASSUME visit'.found, NEW i \in DOMAIN visit.valueId
                   PROVE  visit.valueId[i] \in visit'.valueIds
        BY <2>1 DEF FilterInHits
      <3>1. PICK s \in hits : TRUE
        BY <2>1
      <3>2. visit.valueId[i] \in index[s]
        BY DEF Matches
      <3> QED
        BY <2>1, <3>2
    <2>6. OffersFound'
      BY <1>1, <2>1 DEF OffersFound, Matches
    <2>7. FollowFinds'
      <3>1. Cardinality({}) = 0 /\ PageSize # 0
        BY FS_EmptySet, SearchAssumption
      <3>2. visit.expects => \E s \in DOMAIN index : Matches(s)
        BY <1>1 DEF VisitInv, AskFinds
      <3>3. visit.expects => hits # {}
        BY <1>5, <3>1, <3>2
      <3> QED
        BY <2>1, <3>3 DEF FollowFinds
    <2> QED
      BY <2>2, <2>3, <2>4, <2>5, <2>6, <2>7 DEF VisitInv
  <1> QED
    BY <1>4, <1>5 DEF SearchIndex

\* What the page shows: a crumb for each value that is selected, and links to values of
\* the other attributes.
LEMMA ShowStep ==
  ASSUME TypeInv, VisitInv, ShowList
  PROVE  VisitInv'
  <1> DEFINE rows == AttrListByValueId(visit.valueIds)
             chosen == CrumbRows(rows, visit.valueId)
  <1>1. UNCHANGED <<attrInfo, attrValue, last, index>> /\ visit.pc = "attributes"
    BY DEF ShowList, catalogVars
  <1>2. DOMAIN visit = {"pc", "query", "valueId", "found", "valueIds", "links", "crumbs",
                        "fresh", "expects"}
    BY VisitFacts
  <1>3. ASSUME NEW pc \in {"shown", "failed"}, NEW links, NEW crumbs, Show(pc, links, crumbs)
        PROVE  /\ visit'.pc = pc /\ visit'.links = links /\ visit'.crumbs = crumbs
               /\ visit'.valueIds = {} /\ ~visit'.expects /\ visit'.valueId = visit.valueId
               /\ visit'.query = visit.query /\ visit'.found = visit.found
               /\ visit'.fresh = visit.fresh
    BY <1>2, <1>3 DEF Show
  <1>4. ASSUME NEW pc \in {"shown", "failed"}, Show(pc, {}, {}), ~visit.found \/ pc = "failed"
        PROVE  VisitInv'
    <2>1. /\ visit'.pc = pc /\ visit'.links = {} /\ visit'.crumbs = {} /\ visit'.valueIds = {}
          /\ visit'.valueId = visit.valueId /\ visit'.found = visit.found
      BY <1>3, <1>4
    <2>2. IdsKnown' /\ LinksFree' /\ OneValuePerAttribute'
      BY <1>1, <2>1 DEF VisitInv, IdsKnown, LinksFree, OneValuePerAttribute
    <2> QED
      BY <1>4, <2>1, <2>2 DEF VisitInv, AskIsBlank, FoundNothing, CrumbPerValue, FilterInHits,
         OffersFound, AskFinds, FollowFinds
  <1>5. ASSUME visit.valueIds # {}, Show("shown", LinkRows(rows, chosen), {row.id : row \in chosen})
        PROVE  VisitInv'
    <2> DEFINE links == LinkRows(rows, chosen)
               crumbs == {row.id : row \in chosen}
    <2>1. /\ visit'.pc = "shown" /\ visit'.links = links /\ visit'.crumbs = crumbs
          /\ visit'.valueIds = {} /\ ~visit'.expects /\ visit'.valueId = visit.valueId
          /\ visit'.query = visit.query /\ visit'.found = visit.found
          /\ visit'.fresh = visit.fresh
      BY <1>3, <1>5
    <2>2. visit.found
      BY <1>1, <1>5 DEF VisitInv, FoundNothing
    <2>3. \A i \in DOMAIN visit.valueId : visit.valueId[i] \in visit.valueIds
      BY <1>1, <2>2 DEF VisitInv, FilterInHits
    \* A selected value that is still there has a crumb.
    <2>4. ASSUME NEW row \in attrValue, NEW i \in DOMAIN visit.valueId,
                 row.id = visit.valueId[i], row.attr \in attrInfo
          PROVE  row \in chosen
      <3>1. row \in rows
        BY <2>3, <2>4 DEF AttrListByValueId
      <3>2. ASSUME NEW q \in rows, NEW j \in 1..(i - 1), q.id = visit.valueId[j], q.attr = row.attr
            PROVE  FALSE
        <4>1. i \in Nat /\ DOMAIN visit.valueId = 1..Len(visit.valueId) /\ Len(visit.valueId) \in Nat
          BY VisitFacts
        <4>2. j \in DOMAIN visit.valueId /\ j # i
          BY <4>1, <2>4
        <4>3. q \in attrValue
          BY DEF AttrListByValueId
        <4> QED
          BY <2>4, <3>2, <4>2, <4>3 DEF VisitInv, OneValuePerAttribute
      <3> HIDE DEF rows
      <3> QED
        BY <2>4, <3>1, <3>2 DEF CrumbRows
    <2>5. links \cup crumbs \subseteq visit.valueIds
      BY DEF LinkRows, CrumbRows, AttrListByValueId
    <2>6. \A v \in links : \E r \in rows : r.id = v /\ \A c \in chosen : c.attr # r.attr
      BY DEF LinkRows
    <2>7. rows \subseteq attrValue /\ \A r \in rows : r.attr \in attrInfo
      BY DEF AttrListByValueId
    <2>8. UniqueIds(attrValue) /\ \A r \in attrValue : r.id <= last.value
      BY DEF TypeInv, AttrIds
    <2> HIDE DEF rows, chosen, links, crumbs
    <2>9. IdsKnown'
      BY <1>1, <2>1, <2>6, <2>7, <2>8 DEF VisitInv, IdsKnown
    <2>10. LinksFree'
      <3> SUFFICES ASSUME NEW q \in attrValue, NEW r \in attrValue, NEW i \in DOMAIN visit.valueId,
                          q.id \in links, r.id = visit.valueId[i], q.attr = r.attr
                   PROVE  FALSE
        BY <1>1, <2>1 DEF LinksFree
      <3>1. q \in rows /\ \A c \in chosen : c.attr # q.attr
        BY <2>6, <2>7, <2>8 DEF UniqueIds
      <3> QED
        BY <2>4, <2>7, <3>1
    <2>11. OneValuePerAttribute'
      BY <1>1, <2>1 DEF VisitInv, OneValuePerAttribute
    <2>12. CrumbPerValue'
      BY <1>1, <2>1, <2>4 DEF CrumbPerValue, crumbs
    <2>13. OffersFound'
      BY <1>1, <2>1, <2>5 DEF VisitInv, OffersFound, Matches
    <2> QED
      BY <2>1, <2>9, <2>10, <2>11, <2>12, <2>13 DEF VisitInv, AskIsBlank, FilterInHits, AskFinds,
         FollowFinds, FoundNothing
  <1> QED
    BY <1>4, <1>5 DEF ShowList

\* Entering a query selects nothing.
LEMMA EnterStep ==
  ASSUME TypeInv, NEW query \in Queries \cup {NoQuery}, Enter(query)
  PROVE  VisitInv'
  <1>1. \A i \in DOMAIN <<>> : FALSE
    OBVIOUS
  <1>2. Ask(query, <<>>, FALSE) /\ UNCHANGED <<catalogVars, index>>
    BY DEF Enter
  <1> QED
    BY <1>1, <1>2, AskKeepsVisit

\* Every step keeps what holds of the page.
LEMMA VisitStep == TypeInv /\ VisitInv /\ [Next]_vars => VisitInv'
  <1> SUFFICES ASSUME TypeInv, VisitInv, [Next]_vars PROVE VisitInv'
    OBVIOUS
  <1>1. TypeInv' /\ RowsStay
    BY TypeStep, CatalogStep
  <1>2. CASE \/ UNCHANGED <<index, visit>>
             \/ visit' = [visit EXCEPT !.fresh = FALSE, !.expects = FALSE]
    BY <1>1, <1>2, OthersKeepVisit
  <1>3. CASE \E query \in Queries \cup {NoQuery} : Enter(query)
    BY <1>3, EnterStep
  <1>4. CASE \E v \in 1..MaxValue : FollowValue(v) \/ FollowCrumb(v)
    BY <1>4, FollowValueStep, FollowCrumbStep
  <1>5. CASE SearchIndex \/ ShowList
    BY <1>5, SearchStep, ShowStep
  <1> QED
    BY <1>2, <1>3, <1>4, <1>5 DEF Next, vars, searchVars, ReadProducts, WriteDocument, DeleteSkuInfo,
       IndexChanges

\* A link or a crumb that is followed while the index stays as it is leads to products
\* (the links of list.html, getUrlParamForCrumb), whatever the page size and the attributes' edits.
THEOREM FollowAlwaysFinds == Spec => []FollowFinds
  <1>1. VisitInv => FollowFinds
    BY DEF VisitInv
  <1> QED
    BY <1>1, TypeInit, TypeStep, VisitInit, VisitStep, PTL DEF Spec

\* Links never select two values of one attribute (the attributes that iterator.remove
\* takes off the list).
THEOREM OneValuePerAttributeHolds == Spec => []OneValuePerAttribute
  <1>1. VisitInv => OneValuePerAttribute
    BY DEF VisitInv
  <1> QED
    BY <1>1, TypeInit, TypeStep, VisitInit, VisitStep, PTL DEF Spec

\* While there are hits, a selected value that still exists has a crumb.
THEOREM CrumbPerValueHolds == Spec => []CrumbPerValue
  <1>1. VisitInv => CrumbPerValue
    BY DEF VisitInv
  <1> QED
    BY <1>1, TypeInit, TypeStep, VisitInit, VisitStep, PTL DEF Spec

=============================================================================
