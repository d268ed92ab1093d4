------------------------------ MODULE Catalog ------------------------------
(***************************************************************************)
(* The catalogue: AttrServiceImpl, SpuServiceImpl and SkuServiceImpl of     *)
(* manager-service, and the forms of manager-web that call them.            *)
(*                                                                         *)
(* Nothing in the database ties the rows together: a product (SKU) notes    *)
(* the ids of the attribute values that were chosen in its form, and an     *)
(* edited attribute or SPU gets new ids for all of its values.  Each method *)
(* is one transaction and one action.  There is one category, and each       *)
(* editor has one form of a product open; images, prices and texts are left *)
(* out, but a product without an image is not saved.                        *)
(***************************************************************************)
EXTENDS Naturals, FiniteSets, Sequences, SequencesExt

CONSTANTS
    Editors,       \* browsers with the back office
    SaleAttrs,     \* base_sale_attr, which has no editor
    Names,         \* names of values
    AttrForms,     \* the lists of value names that are sent for an attribute
    SpuForms,      \* the lists of [attr, name] that are sent for an SPU
    MaxAttr,       \* bounds: the ids that each table gives out
    MaxValue,
    MaxSpu,
    MaxSpuValue,
    MaxSku

ASSUME FormsAssumption ==
    /\ AttrForms \subseteq Seq(Names) \ {<<>>}
    /\ SpuForms \subseteq Seq([attr : SaleAttrs, name : Names]) \ {<<>>}

ASSUME CatalogBounds == {MaxAttr, MaxValue, MaxSpu, MaxSpuValue, MaxSku} \subseteq Nat

VARIABLES
    attrInfo,   \* ids of the rows of base_attr_info
    attrValue,  \* rows of base_attr_value
    spuInfo,    \* ids of the rows of spu_info
    spuValue,   \* rows of spu_sale_attr_value; spu_sale_attr follows from them
    skuInfo,    \* rows of sku_info
    skuAttr,    \* skuAttr[s]: the rows of sku_attr_value with sku_id s
    skuSale,    \* skuSale[s]: the rows of sku_sale_attr_value with sku_id s
    last,       \* the last id that each table gave out (AUTO_INCREMENT)
    dlg         \* dlg[e]: the product form that editor e has open

catalogVars == <<attrInfo, attrValue, spuInfo, spuValue, skuInfo, skuAttr, skuSale, last, dlg>>

SkuIds       == 1..MaxSku
AttrValueRow == [id : 1..MaxValue, attr : 1..MaxAttr, name : Names]
SpuValueRow  == [id : 1..MaxSpuValue, spu : 1..MaxSpu, attr : SaleAttrs, name : Names]
SkuAttrRow   == [attr : 1..MaxAttr, value : 1..MaxValue]
SkuSaleRow   == [attr : SaleAttrs, value : 1..MaxSpuValue, name : Names]

\* sku = 0: the product is new; spu = 0: no form is open.
Dialog == [sku : 0..last.sku, spu : 0..last.spu,
           attrs : SUBSET AttrValueRow, sale : SUBSET SpuValueRow]
Closed == [sku |-> 0, spu |-> 0, attrs |-> {}, sale |-> {}]

TypeOK ==
    /\ attrInfo \subseteq 1..last.attr
    /\ attrValue \subseteq AttrValueRow
    /\ spuInfo \subseteq 1..last.spu
    /\ spuValue \subseteq SpuValueRow
    /\ skuInfo \subseteq [id : 1..last.sku, spu : 1..last.spu]
    /\ skuAttr \in [SkuIds -> SUBSET SkuAttrRow]
    /\ skuSale \in [SkuIds -> Seq(SkuSaleRow)]
    /\ last \in [attr : 0..MaxAttr, value : 0..MaxValue, spu : 0..MaxSpu,
                 spuValue : 0..MaxSpuValue, sku : 0..MaxSku]
    /\ dlg \in [Editors -> Dialog]

CatalogInit ==
    /\ attrInfo = {} /\ attrValue = {}
    /\ spuInfo = {} /\ spuValue = {}
    /\ skuInfo = {}
    /\ skuAttr = [s \in SkuIds |-> {}]
    /\ skuSale = [s \in SkuIds |-> <<>>]
    /\ last = [attr |-> 0, value |-> 0, spu |-> 0, spuValue |-> 0, sku |-> 0]
    /\ dlg = [e \in Editors |-> Closed]

Products == {row.id : row \in skuInfo}

\* Rows in the order of their ids, in which they were inserted and are read.
ById(rows) ==
    LET Before(r) == {q \in rows : q.id < r.id} IN
    [i \in 1..Cardinality(rows) |-> CHOOSE r \in rows : Cardinality(Before(r)) = i - 1]

-----------------------------------------------------------------------------
(* Attributes of the category.  A form sends names without ids, and for an  *)
(* attribute that another editor may have deleted.                          *)

\* Mutant: setAttrId is forgotten.
AttrRowsWithoutAttr(a, names) ==
    {[id |-> last.value + i, attr |-> 0, name |-> names[i]] : i \in DOMAIN names}

AttrRows(a, names) ==
    {[id |-> last.value + i, attr |-> a, name |-> names[i]] : i \in DOMAIN names}

InsertAttr(names) ==
    LET a == last.attr + 1 IN
    /\ a <= MaxAttr /\ last.value + Len(names) <= MaxValue
    /\ attrInfo' = attrInfo \cup {a}
    /\ attrValue' = attrValue \cup AttrRows(a, names)
    /\ last' = [last EXCEPT !.attr = a, !.value = @ + Len(names)]
    /\ UNCHANGED <<spuInfo, spuValue, skuInfo, skuAttr, skuSale, dlg>>

UpdateAttr(a, names) ==
    /\ a <= last.attr /\ last.value + Len(names) <= MaxValue
    /\ attrValue' = {row \in attrValue : row.attr # a} \cup AttrRows(a, names)
    /\ last' = [last EXCEPT !.value = @ + Len(names)]
    /\ UNCHANGED <<attrInfo, spuInfo, spuValue, skuInfo, skuAttr, skuSale, dlg>>

DeleteAttr(a) ==
    /\ a <= last.attr
    /\ attrValue' = {row \in attrValue : row.attr # a}
    /\ attrInfo' = attrInfo \ {a}
    /\ UNCHANGED <<spuInfo, spuValue, skuInfo, skuAttr, skuSale, last, dlg>>

-----------------------------------------------------------------------------
(* SPUs with their sale attributes. *)

\* Mutant: setSpuId is forgotten.
SpuRowsWithoutSpu(p, form) ==
    {[id |-> last.spuValue + i, spu |-> 0, attr |-> form[i].attr, name |-> form[i].name] :
        i \in DOMAIN form}

SpuRows(p, form) ==
    {[id |-> last.spuValue + i, spu |-> p, attr |-> form[i].attr, name |-> form[i].name] :
        i \in DOMAIN form}

SaveSpu(form) ==
    LET p == last.spu + 1 IN
    /\ p <= MaxSpu /\ last.spuValue + Len(form) <= MaxSpuValue
    /\ spuInfo' = spuInfo \cup {p}
    /\ spuValue' = spuValue \cup SpuRows(p, form)
    /\ last' = [last EXCEPT !.spu = p, !.spuValue = @ + Len(form)]
    /\ UNCHANGED <<attrInfo, attrValue, skuInfo, skuAttr, skuSale, dlg>>

\* Mutant: the rows are found by their place in the form and keep their ids.
UpdateSpuInPlace(p, form) ==
    LET old == ById({row \in spuValue : row.spu = p}) IN
    /\ p <= last.spu /\ Len(old) = Len(form)
    /\ spuValue' = {row \in spuValue : row.spu # p}
           \cup {[old[i] EXCEPT !.attr = form[i].attr, !.name = form[i].name] : i \in DOMAIN form}
    /\ UNCHANGED <<attrInfo, attrValue, spuInfo, skuInfo, skuAttr, skuSale, last, dlg>>

UpdateSpu(p, form) ==
    /\ p <= last.spu /\ last.spuValue + Len(form) <= MaxSpuValue
    /\ spuValue' = {row \in spuValue : row.spu # p} \cup SpuRows(p, form)
    /\ last' = [last EXCEPT !.spuValue = @ + Len(form)]
    /\ UNCHANGED <<attrInfo, attrValue, spuInfo, skuInfo, skuAttr, skuSale, dlg>>

\* The products of the SPU stay.
DeleteSpuInfo(p) ==
    /\ p <= last.spu
    /\ spuInfo' = spuInfo \ {p}
    /\ spuValue' = {row \in spuValue : row.spu # p}
    /\ UNCHANGED <<attrInfo, attrValue, skuInfo, skuAttr, skuSale, last, dlg>>

-----------------------------------------------------------------------------
(* Products.  The form offers the values that there are when it is opened,  *)
(* and sends the ones chosen when it is saved.                              *)

\* selectSkuInfoBySpuId, the list of the back office, an inner join.
Listed(s) == s \in Products /\ skuAttr[s] # {} /\ skuSale[s] # <<>>

Form(s, p) ==
    [sku |-> s, spu |-> p,
     attrs |-> {row \in attrValue : row.attr \in attrInfo},
     sale  |-> {row \in spuValue : row.spu = p}]

Forms == {Form(0, p) : p \in spuInfo}
         \cup {Form(row.id, row.spu) : row \in {r \in skuInfo : Listed(r.id)}}

\* addSkuInfo and editSkuInfo open the form.
OpenForm(e) ==
    /\ dlg[e] = Closed
    /\ \E form \in Forms : dlg' = [dlg EXCEPT ![e] = form]
    /\ UNCHANGED <<attrInfo, attrValue, spuInfo, spuValue, skuInfo, skuAttr, skuSale, last>>

\* Given up, or saved without an image: a NullPointerException and a rollback.
CloseSku(e) ==
    /\ dlg[e] # Closed
    /\ dlg' = [dlg EXCEPT ![e] = Closed]
    /\ UNCHANGED <<attrInfo, attrValue, spuInfo, spuValue, skuInfo, skuAttr, skuSale, last>>

\* One value in every <select>.
OneOfEach(rows) ==
    {choice \in SUBSET rows :
        /\ \A r \in rows : \E c \in choice : c.attr = r.attr
        /\ \A c, d \in choice : c.attr = d.attr => c = d}

SkuAttrRows(choice) == {[attr |-> c.attr, value |-> c.id] : c \in choice}
SkuSaleRows(choice) ==
    LET rows == ById(choice) IN
    [i \in DOMAIN rows |-> [attr |-> rows[i].attr, value |-> rows[i].id, name |-> rows[i].name]]

SaveSku(form) ==
    LET s == last.sku + 1 IN
    /\ form.sku = 0
    /\ s <= MaxSku
    /\ skuInfo' = skuInfo \cup {[id |-> s, spu |-> form.spu]}
    /\ \E a \in OneOfEach(form.attrs) : skuAttr' = [skuAttr EXCEPT ![s] = SkuAttrRows(a)]
    /\ \E v \in OneOfEach(form.sale) : skuSale' = [skuSale EXCEPT ![s] = SkuSaleRows(v)]
    /\ last' = [last EXCEPT !.sku = s]
    /\ UNCHANGED <<attrInfo, attrValue, spuInfo, spuValue>>

\* Mutant: the old sale attribute values are not deleted first.
UpdateSkuInfoKeepsSale(form) ==
    /\ form.sku # 0
    /\ \E a \in OneOfEach(form.attrs) :
           skuAttr' = [skuAttr EXCEPT ![form.sku] = SkuAttrRows(a)]
    /\ \E v \in OneOfEach(form.sale) :
           skuSale' = [skuSale EXCEPT ![form.sku] = @ \o SkuSaleRows(v)]
    /\ UNCHANGED <<attrInfo, attrValue, spuInfo, spuValue, skuInfo, last>>

\* The product may be gone: the row is not updated, its values are inserted.
UpdateSkuInfo(form) ==
    /\ form.sku # 0
    /\ \E a \in OneOfEach(form.attrs) :
           skuAttr' = [skuAttr EXCEPT ![form.sku] = SkuAttrRows(a)]
    /\ \E v \in OneOfEach(form.sale) :
           skuSale' = [skuSale EXCEPT ![form.sku] = SkuSaleRows(v)]
    /\ UNCHANGED <<attrInfo, attrValue, spuInfo, spuValue, skuInfo, last>>

\* The controller decides by the id of the form.
Save(form) == SaveSku(form) \/ UpdateSkuInfo(form)

SaveForm(e) ==
    /\ dlg[e] # Closed
    /\ Save(dlg[e])
    /\ dlg' = [dlg EXCEPT ![e] = Closed]

\* What the database does of deleteSkuInfo; module Search adds the index.
DeleteSkuRows(s) ==
    /\ s <= last.sku
    /\ skuInfo' = {row \in skuInfo : row.id # s}
    /\ skuAttr' = [skuAttr EXCEPT ![s] = {}]
    /\ skuSale' = [skuSale EXCEPT ![s] = <<>>]
    /\ UNCHANGED <<attrInfo, attrValue, spuInfo, spuValue, last, dlg>>

EditAttr ==
    \/ \E names \in AttrForms :
        InsertAttr(names) \/ \E a \in 1..MaxAttr : UpdateAttr(a, names)
    \/ \E a \in 1..MaxAttr : DeleteAttr(a)

EditSpu ==
    \E p \in 1..MaxSpu : DeleteSpuInfo(p) \/ \E form \in SpuForms : UpdateSpu(p, form)

CatalogNext ==
    \/ EditAttr \/ EditSpu
    \/ \E form \in SpuForms : SaveSpu(form)
    \/ \E e \in Editors : OpenForm(e) \/ SaveForm(e) \/ CloseSku(e)
    \/ \E s \in SkuIds : DeleteSkuRows(s)

=============================================================================
