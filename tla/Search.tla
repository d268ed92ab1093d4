------------------------------- MODULE Search -------------------------------
(***************************************************************************)
(* The search: ListServiceImpl.search and the filter page of list-web, over *)
(* the index of Elasticsearch and the attributes of module Catalog.         *)
(*                                                                         *)
(* The index is a second copy of the products: an import reads the database *)
(* and writes documents one by one, deleteSkuInfo deletes the document, and *)
(* saving a product does not touch it.  A visitor filters by following the  *)
(* links of the page: each adds a value id to the address, each crumb takes *)
(* one out.  The list of values comes from the database, asked after the    *)
(* index, for the ids found in the documents.  A form of a product is sent   *)
(* as soon as it is opened, and SPUs are only saved: documents know nothing *)
(* of them.  Module Catalog has the rest.                                    *)
(***************************************************************************)
EXTENDS Catalog

CONSTANTS
    Queries,        \* categories and keywords
    FoundBy,        \* FoundBy[s]: the queries that match product s
    NoQuery,        \* neither category nor keyword
    PageSize,       \* dsl.size(20)
    MaxIndexErrors  \* bound: how many calls of Elasticsearch fail

ASSUME SearchAssumption ==
    /\ FoundBy \in [SkuIds -> SUBSET Queries] /\ NoQuery \notin Queries
    /\ PageSize \in Nat \ {0} /\ MaxIndexErrors \in Nat

VARIABLES
    index,   \* index[s]: the value ids in the document of s, if it has one
    batch,   \* what a running import has read and not written yet
    errors,  \* calls of Elasticsearch that failed
    missed,  \* history: products whose last delete could not remove the document for good
    visit    \* the filter page of a visitor

searchVars == <<index, batch, errors, missed, visit>>
vars == <<catalogVars, searchVars>>

Documents == UNION {[S -> SUBSET (1..MaxValue)] : S \in SUBSET SkuIds}

\* valueId: the filter; found: there are documents, and valueIds are in them; links
\* and crumbs: value ids.
\* History: fresh, the index has not changed since it was asked; expects, nor
\* since the page was shown whose link or crumb was followed.
Visit == [pc : {"search", "attributes", "shown", "failed"}, query : Queries \cup {NoQuery},
          valueId : Seq(1..MaxValue), found : BOOLEAN, valueIds : SUBSET (1..MaxValue),
          links : SUBSET (1..MaxValue), crumbs : SUBSET (1..MaxValue),
          fresh : BOOLEAN, expects : BOOLEAN]

SearchTypeOK ==
    /\ TypeOK
    /\ index \in Documents /\ batch \in Documents
    /\ errors \in 0..MaxIndexErrors
    /\ missed \subseteq SkuIds
    /\ visit \in Visit

FrontPage == [pc |-> "shown", query |-> NoQuery, valueId |-> <<>>, found |-> FALSE,
              valueIds |-> {}, links |-> {}, crumbs |-> {}, fresh |-> FALSE, expects |-> FALSE]

Init ==
    /\ CatalogInit
    /\ index = <<>> /\ batch = <<>>
    /\ errors = 0
    /\ missed = {}
    /\ visit = FrontPage

Without(docs, s) == [d \in DOMAIN docs \ {s} |-> docs[d]]

ElasticFails == errors < MaxIndexErrors /\ errors' = errors + 1
ElasticWorks == UNCHANGED errors

\* The index changes under the visitor.
IndexChanges(docs) ==
    /\ index' = docs
    /\ visit' = [visit EXCEPT !.fresh = FALSE, !.expects = FALSE]

-----------------------------------------------------------------------------
(* The index. *)

\* getSkuListByCatalog3Id in toElastic.
ReadProducts ==
    /\ batch = <<>>
    /\ batch' = [s \in Products |-> {row.value : row \in skuAttr[s]}]
    /\ UNCHANGED <<catalogVars, index, errors, missed, visit>>

\* One round of its loop; an IOException is printed and the loop goes on.
WriteDocument(s) ==
    /\ s \in DOMAIN batch
    /\ batch' = Without(batch, s)
    /\ \/ ElasticWorks /\ IndexChanges([d \in DOMAIN index \cup {s} |->
                              IF d = s THEN batch[s] ELSE index[d]])
       \/ ElasticFails /\ UNCHANGED <<index, visit>>
    /\ UNCHANGED <<catalogVars, missed>>

\* Mutant: the document stays.
DeleteRowsOnly(s) ==
    /\ DeleteSkuRows(s)
    /\ UNCHANGED searchVars

DeleteSkuInfo(s) ==
    /\ DeleteSkuRows(s)
    /\ \/ ElasticWorks /\ IndexChanges(Without(index, s))
          /\ missed' = (missed \ {s}) \cup ({s} \cap DOMAIN batch)
       \/ ElasticFails /\ UNCHANGED <<index, visit>> /\ missed' = missed \cup {s}
    /\ UNCHANGED batch

-----------------------------------------------------------------------------
(* The visitor.  list calls search and then getAttrListByValueId. *)

Arrived == visit.pc \in {"shown", "failed"}

Ask(query, valueId, expects) ==
    visit' = [FrontPage EXCEPT !.pc = "search", !.query = query, !.valueId = valueId,
                               !.expects = expects]

\* A category or keyword, on the front page or in the address.
Enter(query) ==
    /\ Arrived
    /\ Ask(query, <<>>, FALSE)
    /\ UNCHANGED <<catalogVars, index, batch, errors, missed>>

\* href = list.html? + urlParam + &valueId= + id
FollowValue(v) ==
    /\ visit.pc = "shown" /\ v \in visit.links
    /\ Ask(visit.query, Append(visit.valueId, v), visit.fresh)
    /\ UNCHANGED <<catalogVars, index, batch, errors, missed>>

\* The loop of getUrlParamForCrumb: the ids that are not v, in their order.
OtherIds(valueId, v) ==
    LET kept == ById({[id |-> i, value |-> valueId[i]] : i \in {j \in DOMAIN valueId : valueId[j] # v}}) IN
    [i \in DOMAIN kept |-> kept[i].value]

FollowCrumb(v) ==
    /\ visit.pc = "shown" /\ v \in visit.crumbs
    /\ Ask(visit.query, OtherIds(visit.valueId, v), visit.fresh)
    /\ UNCHANGED <<catalogVars, index, batch, errors, missed>>

\* The filters of getMyDsl.
Matches(s) ==
    /\ visit.query \in FoundBy[s]
    /\ \A i \in DOMAIN visit.valueId : visit.valueId[i] \in index[s]

\* Elasticsearch gives any PageSize of the matching documents; after an
\* IOException, and without a category or keyword, the list is empty.
SearchIndex ==
    LET matching == {s \in DOMAIN index : Matches(s)} IN
    /\ visit.pc = "search"
    /\ \/ /\ ElasticWorks
          /\ \E hits \in SUBSET matching :
                /\ \/ hits = matching /\ Cardinality(matching) <= PageSize
                   \/ Cardinality(hits) = PageSize
                /\ visit' = [visit EXCEPT !.pc = "attributes", !.fresh = TRUE,
                                          !.found = hits # {},
                                          !.valueIds = UNION {index[s] : s \in hits}]
       \/ /\ visit.query # NoQuery /\ ElasticFails
          /\ visit' = [visit EXCEPT !.pc = "attributes", !.expects = FALSE]
    /\ UNCHANGED <<catalogVars, index, batch, missed>>

\* Mutant: all values of the attributes that the hits have, not the hits' own.
WholeAttributes(ids) ==
    {row \in attrValue : row.attr \in attrInfo
        /\ \E r \in attrValue : r.id \in ids /\ r.attr = row.attr}

\* The join of base_attr_info and base_attr_value.
AttrListByValueId(ids) == {row \in attrValue : row.id \in ids /\ row.attr \in attrInfo}

\* Mutant: the loop ends after the first selected value.
CrumbOfFirst(rows, valueId) ==
    {row \in rows : Len(valueId) > 0 /\ valueId[1] = row.id}

\* The rows for which a crumb is made: the attribute leaves the list with the
\* first of its values that is selected.
CrumbRows(rows, valueId) ==
    {row \in rows : \E i \in DOMAIN valueId :
        /\ valueId[i] = row.id
        /\ \A q \in rows, j \in 1..(i - 1) : q.id = valueId[j] => q.attr # row.attr}

\* Mutant: the attributes of the crumbs stay in the list.
AllRows(rows, crumbs) == {row.id : row \in rows}

LinkRows(rows, crumbs) ==
    {row.id : row \in {r \in rows : \A c \in crumbs : c.attr # r.attr}}

Show(pc, links, crumbs) ==
    visit' = [visit EXCEPT !.pc = pc, !.links = links, !.crumbs = crumbs,
                           !.valueIds = {}, !.expects = FALSE]

ShowList ==
    LET rows   == AttrListByValueId(visit.valueIds)
        crumbs == CrumbRows(rows, visit.valueId) IN
    /\ visit.pc = "attributes"
    /\ \/ ~visit.found /\ Show("shown", {}, {})
       \/ /\ visit.found /\ visit.valueIds = {}   \* in (): the statement is refused
          /\ Show("failed", {}, {})
       \/ /\ visit.valueIds # {}
          /\ Show("shown", LinkRows(rows, crumbs), {row.id : row \in crumbs})
    /\ UNCHANGED <<catalogVars, index, batch, errors, missed>>

Next ==
    \/ EditAttr /\ UNCHANGED searchVars
    \/ \E form \in SpuForms : SaveSpu(form) /\ UNCHANGED searchVars
    \/ \E form \in Forms : Save(form) /\ UNCHANGED <<dlg, searchVars>>
    \/ \E s \in SkuIds : DeleteSkuInfo(s) \/ WriteDocument(s)
    \/ ReadProducts
    \/ \E query \in Queries \cup {NoQuery} : Enter(query)
    \/ \E v \in 1..MaxValue : FollowValue(v) \/ FollowCrumb(v)
    \/ SearchIndex \/ ShowList

Spec == Init /\ [][Next]_vars

-----------------------------------------------------------------------------

\* A link or a crumb never leads to an empty list: the values offered are those of
\* products that the filter lets through, unless the index changes meanwhile or
\* cannot be asked, however few of the products a page shows.
FollowFinds == visit.pc = "attributes" /\ visit.expects => visit.found

\* Following links never selects two values of one attribute, a filter that no
\* product passes, even while attributes, products and index are changing.
OneValuePerAttribute ==
    \A q, r \in attrValue : \A i, j \in DOMAIN visit.valueId :
        (q.id = visit.valueId[i] /\ r.id = visit.valueId[j] /\ q.attr = r.attr) => i = j

\* While there are hits, every selected value that still exists can be taken back.
CrumbPerValue ==
    \A i \in DOMAIN visit.valueId :
        (visit.pc = "shown" /\ visit.found
            /\ \E row \in attrValue : row.id = visit.valueId[i] /\ row.attr \in attrInfo)
        => visit.valueId[i] \in visit.crumbs

\* A deleted product is not in the index, unless Elasticsearch failed to delete it or
\* an import had read it before.
GoneIsForgotten == DOMAIN index \subseteq Products \cup missed
=============================================================================
