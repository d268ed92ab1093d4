------------------------- MODULE ProductPageProofs -------------------------
(***************************************************************************)
(* What holds of the product page for any catalogue, numbers of editors and *)
(* forms.  The ids of sale attribute values are given out once, so that a    *)
(* row that an old form or a page under way still has, and a row that a      *)
(* product notes, are what they are called.                                 *)
(***************************************************************************)
EXTENDS ProductPage, CatalogProofs

\* Rows of spu_sale_attr_value that are in the table, on the page or in a form.
Known == spuValue \cup page.values \cup UNION {dlg[e].sale : e \in Editors}

IdsGivenOut == \A row \in Known : row.id <= last.spuValue

\* A product notes attribute and name of the row whose id it notes.
NotesAgree ==
    \A s \in SkuIds : \A i \in DOMAIN skuSale[s] :
        /\ skuSale[s][i].value <= last.spuValue
        /\ \A row \in Known : row.id = skuSale[s][i].value =>
               row.attr = skuSale[s][i].attr /\ row.name = skuSale[s][i].name

FormsHaveSpu == \A e \in Editors : dlg[e] = Closed \/ dlg[e].spu # 0

PageInv == PageTypeOK /\ FormsHaveSpu /\ IdsGivenOut /\ UniqueIds(Known) /\ NotesAgree

-----------------------------------------------------------------------------
(* The ids of sale attribute values. *)

IdInv == IdsGivenOut /\ UniqueIds(Known) /\ NotesAgree

\* Rows that go, or are read once more, change nothing about ids.
LEMMA FewerRows ==
    ASSUME PageInv, Known' \subseteq Known, last'.spuValue = last.spuValue, skuSale' = skuSale
    PROVE  IdInv'
  BY DEF PageInv, IdInv, IdsGivenOut, UniqueIds, NotesAgree

\* The rows of a form that is saved get ids that nobody knows.
LEMMA NewRows ==
    ASSUME PageInv, NEW p \in 1..MaxSpu, NEW form \in SpuForms,
           last.spuValue + Len(form) <= MaxSpuValue,
           Known' \subseteq Known \cup SpuRows(p, form),
           last'.spuValue = last.spuValue + Len(form), skuSale' = skuSale
    PROVE  IdInv' /\ SpuRows(p, form) \subseteq SpuValueRow
  <1> DEFINE new == SpuRows(p, form)
  <1>1. TypeOK
    BY DEF PageInv, PageTypeOK
  <1>2. last.spuValue \in Nat /\ MaxSpuValue \in Nat /\ Len(form) \in Nat
    BY <1>1, CatalogBounds, FormsAssumption DEF TypeOK
  <1>3. /\ \A r \in new : r.id > last.spuValue /\ r.id <= last'.spuValue
        /\ UniqueIds(new)
    BY <1>1, SpuRowsNew
  <1>4. new \subseteq SpuValueRow
    BY <1>1, SpuRowsNew
  <1>5. \A r \in Known : r.id \in Nat
    BY DEF PageInv, PageTypeOK, TypeOK, Known, SpuValueRow, Dialog
  <1>6. \A r \in new : r.id \in Nat /\ r.id > last.spuValue /\ r.id <= last'.spuValue
    BY <1>3, <1>4 DEF SpuValueRow
  <1>7. \A q, r \in new : q.id = r.id => q = r
    BY <1>3 DEF UniqueIds
  <1>8. \A r \in Known : r.id <= last.spuValue
    BY DEF PageInv, IdsGivenOut
  <1> HIDE DEF new
  <1>9. IdsGivenOut'
    BY <1>2, <1>5, <1>6, <1>8 DEF IdsGivenOut, new
  <1>10. UniqueIds(Known)'
    <2> SUFFICES ASSUME NEW q \in Known', NEW r \in Known', q.id = r.id PROVE q = r
      BY DEF UniqueIds
    <2>1. q \in Known \cup new /\ r \in Known \cup new
      BY DEF new
    <2>2. \A x \in Known, y \in Known : x.id = y.id => x = y
      BY DEF PageInv, UniqueIds
    <2> QED
      BY <1>2, <1>5, <1>6, <1>7, <1>8, <2>1, <2>2
  <1>11. NotesAgree'
    <2> SUFFICES ASSUME NEW s \in SkuIds, NEW i \in DOMAIN skuSale[s]
                 PROVE  /\ skuSale[s][i].value <= last'.spuValue
                        /\ \A row \in Known' : row.id = skuSale[s][i].value =>
                               row.attr = skuSale[s][i].attr /\ row.name = skuSale[s][i].name
      BY DEF NotesAgree
    <2>1. skuSale[s][i].value \in Nat
      <3>1. skuSale[s] \in Seq(SkuSaleRow)
        BY DEF PageInv, PageTypeOK, TypeOK
      <3>2. skuSale[s][i] \in SkuSaleRow
        BY <3>1, ElementOfSeq
      <3> QED
        BY <3>2 DEF SkuSaleRow
    <2>2. /\ skuSale[s][i].value <= last.spuValue
          /\ \A row \in Known : row.id = skuSale[s][i].value =>
                 row.attr = skuSale[s][i].attr /\ row.name = skuSale[s][i].name
      BY DEF PageInv, NotesAgree
    <2>3. \A row \in new : row.id # skuSale[s][i].value
      BY <1>2, <1>6, <2>1, <2>2
    <2>4. skuSale[s][i].value <= last'.spuValue
      BY <1>2, <2>1, <2>2
    <2> QED
      BY <2>2, <2>3, <2>4 DEF new
  <1> QED
    BY <1>4, <1>9, <1>10, <1>11 DEF IdInv, new

\* A product is saved with rows of its form.
LEMMA NewNotes ==
    ASSUME PageInv, NEW e \in Editors, NEW v \in OneOfEach(dlg[e].sale), NEW s \in SkuIds,
           Known' \subseteq Known, last'.spuValue = last.spuValue,
           skuSale' = [skuSale EXCEPT ![s] = SkuSaleRows(v)]
    PROVE  IdInv' /\ SkuSaleRows(v) \in Seq(SkuSaleRow)
  <1>1. v \subseteq Known
    BY DEF OneOfEach, Known
  <1>2. v \subseteq SpuValueRow
    BY DEF PageInv, PageTypeOK, TypeOK, Dialog, OneOfEach
  <1>3. UniqueIds(v)
    BY <1>1 DEF PageInv, UniqueIds
  <1>4. /\ SkuSaleRows(v) \in Seq(SkuSaleRow)
        /\ \A i \in DOMAIN SkuSaleRows(v) : \E r \in v :
               SkuSaleRows(v)[i] = [attr |-> r.attr, value |-> r.id, name |-> r.name]
    BY <1>2, <1>3, SaleRowsNoted
  <1>5. IdsGivenOut' /\ UniqueIds(Known)'
    BY DEF PageInv, IdsGivenOut, UniqueIds
  <1>6. NotesAgree'
    <2> SUFFICES ASSUME NEW t \in SkuIds, NEW i \in DOMAIN skuSale'[t]
                 PROVE  /\ skuSale'[t][i].value <= last.spuValue
                        /\ \A row \in Known : row.id = skuSale'[t][i].value =>
                               row.attr = skuSale'[t][i].attr /\ row.name = skuSale'[t][i].name
      BY DEF NotesAgree
    <2>1. skuSale \in [SkuIds -> Seq(SkuSaleRow)]
      BY DEF PageInv, PageTypeOK, TypeOK
    <2>2. CASE t = s
      <3>1. PICK r \in v : skuSale'[t][i] = [attr |-> r.attr, value |-> r.id, name |-> r.name]
        BY <1>4, <2>1, <2>2
      <3>2. r.id <= last.spuValue
        BY <1>1 DEF PageInv, IdsGivenOut
      <3>3. \A row \in Known : row.id = r.id => row = r
        BY <1>1 DEF PageInv, UniqueIds
      <3> QED
        BY <3>1, <3>2, <3>3
    <2>3. CASE t # s
      BY <2>1, <2>3 DEF PageInv, NotesAgree
    <2> QED
      BY <2>2, <2>3
  <1> QED
    BY <1>4, <1>5, <1>6 DEF IdInv

-----------------------------------------------------------------------------
(* The steps of the catalogue. *)

\* Nothing is known at first.
LEMMA PageInit == Init => PageInv
  <1> SUFFICES ASSUME Init PROVE PageInv
    OBVIOUS
  <1>1. Known = {}
    BY DEF Init, CatalogInit, NoPage, Closed, Known
  <1>2. /\ \A i \in DOMAIN <<>> : FALSE
        /\ <<>> \in Seq(SkuSaleRow)
    OBVIOUS
  <1>3. TypeOK
    <2>1. 0 \in 0..MaxAttr /\ 0 \in 0..MaxValue /\ 0 \in 0..MaxSpu /\ 0 \in 0..MaxSpuValue
          /\ 0 \in 0..MaxSku
      BY CatalogBounds
    <2> QED
      BY <1>2, <2>1 DEF Init, CatalogInit, TypeOK, Dialog, Closed
  <1>4. PageTypeOK
    BY <1>3, CatalogBounds DEF Init, CatalogInit, PageTypeOK, NoPage
  <1>5. FormsHaveSpu /\ NotesAgree
    BY <1>2 DEF Init, CatalogInit, FormsHaveSpu, NotesAgree
  <1> QED
    BY <1>1, <1>4, <1>5 DEF PageInv, IdsGivenOut, UniqueIds

\* Attributes have ids of their own.
LEMMA AttrStep ==
    ASSUME PageInv, EditAttr, page' = page
    PROVE  PageInv'
  <1>1. UNCHANGED <<spuInfo, spuValue, skuInfo, skuAttr, skuSale, dlg, page>>
    BY DEF EditAttr, InsertAttr, UpdateAttr, DeleteAttr
  <1>2. TypeOK' /\ UNCHANGED <<last.spu, last.spuValue, last.sku>>
    BY AttrTypes DEF PageInv, PageTypeOK
  <1>3. PageTypeOK' /\ FormsHaveSpu'
    BY <1>1, <1>2 DEF PageInv, PageTypeOK, FormsHaveSpu
  <1>4. Known' = Known
    BY <1>1 DEF Known
  <1> QED
    BY <1>1, <1>2, <1>3, <1>4, FewerRows DEF PageInv, IdInv

\* The rows of an SPU that is saved are new, and those deleted are gone.
LEMMA SpuStep ==
    ASSUME PageInv, EditSpu \/ \E form \in SpuForms : SaveSpu(form), page' = page
    PROVE  PageInv'
  <1> DEFINE Ids == [attr : 0..MaxAttr, value : 0..MaxValue, spu : 0..MaxSpu,
                     spuValue : 0..MaxSpuValue, sku : 0..MaxSku]
  <1>1. UNCHANGED <<attrInfo, attrValue, skuInfo, skuAttr, skuSale, dlg, page>>
    BY DEF EditSpu, UpdateSpu, DeleteSpuInfo, SaveSpu
  <1>2. last \in Ids /\ MaxSpu \in Nat /\ MaxSpuValue \in Nat
    BY CatalogBounds DEF PageInv, PageTypeOK, TypeOK
  <1>3. \A form \in SpuForms : Len(form) \in Nat
    BY FormsAssumption
  <1>4. spuInfo \subseteq 1..last.spu /\ spuValue \subseteq SpuValueRow
    BY DEF PageInv, PageTypeOK, TypeOK
  <1>5. /\ last' \in Ids
        /\ UNCHANGED <<last.attr, last.value, last.sku>>
        /\ last.spu <= last'.spu
        /\ spuInfo' \subseteq 1..last'.spu
        /\ spuValue' \subseteq SpuValueRow
        /\ IdInv'
    <2>1. ASSUME NEW p \in 1..MaxSpu, DeleteSpuInfo(p)
          PROVE  <1>5!:
      <3>1. last' = last /\ spuInfo' \subseteq spuInfo /\ spuValue' \subseteq spuValue
        BY <2>1 DEF DeleteSpuInfo
      <3>2. Known' \subseteq Known
        BY <1>1, <3>1 DEF Known
      <3> QED
        BY <1>1, <1>2, <1>4, <3>1, <3>2, FewerRows
    <2>2. ASSUME NEW p \in 1..MaxSpu, NEW form \in SpuForms, UpdateSpu(p, form)
          PROVE  <1>5!:
      <3>1. last.spuValue + Len(form) \in 0..MaxSpuValue
        BY <1>2, <1>3, <2>2 DEF UpdateSpu
      <3>2. /\ last' \in Ids /\ last'.spu = last.spu
            /\ UNCHANGED <<last.attr, last.value, last.sku>>
            /\ last'.spuValue = last.spuValue + Len(form)
        BY <1>2, <2>2, <3>1 DEF UpdateSpu
      <3>3. spuInfo' = spuInfo /\ spuValue' \subseteq spuValue \cup SpuRows(p, form)
        BY <2>2 DEF UpdateSpu
      <3>4. Known' \subseteq Known \cup SpuRows(p, form)
        BY <1>1, <3>3 DEF Known
      <3>5. IdInv' /\ SpuRows(p, form) \subseteq SpuValueRow
        BY <1>1, <2>2, <3>2, <3>4, NewRows DEF UpdateSpu
      <3> QED
        BY <1>2, <1>4, <3>2, <3>3, <3>5
    <2>3. ASSUME NEW form \in SpuForms, SaveSpu(form)
          PROVE  <1>5!:
      <3> DEFINE p == last.spu + 1
      <3>1. last.spuValue + Len(form) \in 0..MaxSpuValue /\ p \in 1..MaxSpu
        <4>1. p <= MaxSpu /\ last.spuValue + Len(form) <= MaxSpuValue
          BY <2>3 DEF SaveSpu
        <4>2. last.spu \in Nat /\ last.spuValue \in Nat /\ Len(form) \in Nat
          BY <1>2, <1>3
        <4> QED
          BY <1>2, <4>1, <4>2
      <3>2. /\ last' \in Ids /\ last'.spu = p
            /\ UNCHANGED <<last.attr, last.value, last.sku>>
            /\ last'.spuValue = last.spuValue + Len(form)
        <4>1. last' = [last EXCEPT !.spu = p, !.spuValue = last.spuValue + Len(form)]
          BY <1>2, <2>3 DEF SaveSpu
        <4> DEFINE v == last.spuValue + Len(form)
                   first == [last EXCEPT !.spu = p]
        <4>2. last' = [first EXCEPT !.spuValue = v]
          BY <4>1
        <4>3. v \in 0..MaxSpuValue
          BY <3>1
        <4> HIDE DEF p, v
        <4>4. /\ first \in Ids /\ first.spu = p
              /\ first.attr = last.attr /\ first.value = last.value /\ first.sku = last.sku
          BY <1>2, <3>1
        <4> HIDE DEF first
        <4>5. /\ last' \in Ids /\ last'.spu = p
              /\ UNCHANGED <<last.attr, last.value, last.sku>>
              /\ last'.spuValue = v
          BY <4>2, <4>3, <4>4
        <4> QED
          BY <4>5 DEF v
      <3>3. spuInfo' = spuInfo \cup {p} /\ spuValue' \subseteq spuValue \cup SpuRows(p, form)
        BY <2>3 DEF SaveSpu
      <3>4. Known' \subseteq Known \cup SpuRows(p, form)
        BY <1>1, <3>3 DEF Known
      <3>5. IdInv' /\ SpuRows(p, form) \subseteq SpuValueRow
        BY <1>1, <2>3, <3>1, <3>2, <3>4, NewRows DEF SaveSpu
      <3>6. spuInfo' \subseteq 1..last'.spu /\ last.spu <= last'.spu
        <4>1. last.spu \in Nat
          BY <1>2
        <4>2. 1..last.spu \subseteq 1..p /\ p \in 1..p /\ last.spu <= p
          BY <4>1
        <4> HIDE DEF p
        <4> QED
          BY <1>4, <3>2, <3>3, <4>2
      <3> QED
        BY <1>2, <1>4, <3>2, <3>3, <3>5, <3>6
    <2> QED
      BY <2>1, <2>2, <2>3 DEF EditSpu
  <1>6. 0..last.spu \subseteq 0..last'.spu /\ 1..last.spu \subseteq 1..last'.spu
    BY <1>2, <1>5
  <1>7. TypeOK'
    BY <1>1, <1>5, <1>6 DEF PageInv, PageTypeOK, TypeOK, Dialog
  <1>8. PageTypeOK'
    BY <1>1, <1>5, <1>6, <1>7 DEF PageInv, PageTypeOK
  <1> QED
    BY <1>1, <1>5, <1>8 DEF PageInv, IdInv, FormsHaveSpu

\* An opened form shows rows that are there, and a product that is listed or new.
LEMMA OpenStep ==
    ASSUME PageInv, NEW e \in Editors, OpenForm(e), page' = page
    PROVE  PageInv'
  <1>1. PICK form \in Forms : dlg' = [dlg EXCEPT ![e] = form]
    BY DEF OpenForm
  <1>2. UNCHANGED <<attrInfo, attrValue, spuInfo, spuValue, skuInfo, skuAttr, skuSale, last, page>>
    BY DEF OpenForm
  <1>3. PICK s \in 0..last.sku, p \in 1..last.spu : form = Form(s, p)
    <2>1. CASE \E p \in spuInfo : form = Form(0, p)
      <3>1. last.sku \in Nat
        BY DEF PageInv, PageTypeOK, TypeOK
      <3> QED
        BY <2>1, <3>1 DEF PageInv, PageTypeOK, TypeOK
    <2>2. CASE \E row \in skuInfo : form = Form(row.id, row.spu)
      BY <2>2 DEF PageInv, PageTypeOK, TypeOK
    <2> QED
      BY <2>1, <2>2 DEF Forms
  <1>4. form \in Dialog /\ form.spu # 0 /\ form.sale \subseteq spuValue
    <2>1. attrValue \subseteq AttrValueRow /\ spuValue \subseteq SpuValueRow /\ last.spu \in Nat
      BY DEF PageInv, PageTypeOK, TypeOK
    <2> QED
      BY <1>3, <2>1 DEF Form, Dialog
  <1>5. Known' \subseteq Known
    <2>1. \A f \in Editors : dlg'[f].sale \subseteq spuValue \cup dlg[f].sale
      BY <1>1, <1>4 DEF PageInv, PageTypeOK, TypeOK
    <2> QED
      BY <1>2, <2>1 DEF Known
  <1>6. Dialog' = Dialog
    BY <1>2 DEF Dialog
  <1>7. PageTypeOK' /\ FormsHaveSpu'
    <2>1. dlg \in [Editors -> Dialog] /\ FormsHaveSpu
      BY DEF PageInv, PageTypeOK, TypeOK
    <2>2. dlg' \in [Editors -> Dialog]
      BY <1>1, <1>4, <2>1
    <2>3. FormsHaveSpu'
      BY <1>1, <1>4, <2>1 DEF FormsHaveSpu
    <2> QED
      BY <1>2, <1>6, <2>2, <2>3 DEF PageInv, PageTypeOK, TypeOK
  <1> QED
    BY <1>2, <1>5, <1>7, FewerRows DEF PageInv, IdInv

\* A closed form shows nothing.
LEMMA ClosedForm ==
    ASSUME PageInv, NEW e \in Editors, dlg' = [dlg EXCEPT ![e] = Closed],
           UNCHANGED <<spuValue, page>>, last'.sku >= last.sku, last'.spu = last.spu,
           last'.sku \in Nat
    PROVE  /\ dlg' \in [Editors -> Dialog']
           /\ FormsHaveSpu'
           /\ Known' \subseteq Known
  <1>1. dlg \in [Editors -> Dialog] /\ last.sku \in Nat /\ last.spu \in Nat
    BY DEF PageInv, PageTypeOK, TypeOK
  <1>2. 0..last.sku \subseteq 0..last'.sku
    BY <1>1
  <1>3. Dialog \subseteq Dialog' /\ Closed \in Dialog'
    BY <1>1, <1>2 DEF Dialog, Closed
  <1>4. dlg' \in [Editors -> Dialog']
    BY <1>1, <1>3
  <1>5. FormsHaveSpu'
    BY <1>1 DEF PageInv, FormsHaveSpu
  <1>6. \A f \in Editors : dlg'[f].sale \subseteq dlg[f].sale
    BY <1>1 DEF Closed
  <1>7. Known' \subseteq Known
    BY <1>6 DEF Known
  <1> QED
    BY <1>4, <1>5, <1>7

\* A product notes one row of every attribute of the form, which may be gone by now.
LEMMA SaveStep ==
    ASSUME PageInv, NEW e \in Editors, SaveForm(e), page' = page
    PROVE  PageInv'
  <1> DEFINE form == dlg[e]
             Ids == [attr : 0..MaxAttr, value : 0..MaxValue, spu : 0..MaxSpu,
                     spuValue : 0..MaxSpuValue, sku : 0..MaxSku]
  <1>1. /\ dlg \in [Editors -> Dialog] /\ last \in Ids /\ MaxSku \in Nat
        /\ skuInfo \subseteq [id : 1..last.sku, spu : 1..last.spu]
        /\ skuAttr \in [SkuIds -> SUBSET SkuAttrRow]
        /\ skuSale \in [SkuIds -> Seq(SkuSaleRow)]
    BY CatalogBounds DEF PageInv, PageTypeOK, TypeOK
  <1>2. /\ dlg' = [dlg EXCEPT ![e] = Closed]
        /\ UNCHANGED <<attrInfo, attrValue, spuInfo, spuValue, page>>
    BY DEF SaveForm, Save, SaveSku, UpdateSkuInfo
  <1>3. form \in Dialog /\ form.spu \in 1..last.spu
    <2>1. form \in Dialog /\ form.spu # 0 /\ last.spu \in Nat
      BY <1>1 DEF SaveForm, PageInv, FormsHaveSpu
    <2> QED
      BY <2>1 DEF Dialog
  <1>4. ASSUME NEW a \in OneOfEach(form.attrs) PROVE SkuAttrRows(a) \subseteq SkuAttrRow
    BY <1>3 DEF OneOfEach, Dialog, SkuAttrRows, AttrValueRow, SkuAttrRow
  <1>5. \E s \in SkuIds :
            /\ \E a \in OneOfEach(form.attrs) : skuAttr' = [skuAttr EXCEPT ![s] = SkuAttrRows(a)]
            /\ \E v \in OneOfEach(form.sale) : skuSale' = [skuSale EXCEPT ![s] = SkuSaleRows(v)]
            /\ skuInfo' \subseteq skuInfo \cup {[id |-> s, spu |-> form.spu]}
            /\ \/ last' = last /\ skuInfo' = skuInfo
               \/ last' = [last EXCEPT !.sku = s] /\ s = last.sku + 1
    <2>1. CASE SaveSku(form)
      <3>1. last.sku + 1 \in SkuIds
        BY <1>1, <2>1 DEF SaveSku, SkuIds
      <3> QED
        BY <2>1, <3>1 DEF SaveSku
    <2>2. CASE UpdateSkuInfo(form)
      <3>1. form.sku \in SkuIds
        BY <1>1, <1>3, <2>2 DEF UpdateSkuInfo, SkuIds, Dialog
      <3> QED
        BY <2>2, <3>1 DEF UpdateSkuInfo
    <2> QED
      BY <2>1, <2>2 DEF SaveForm, Save
  <1>6. PICK s \in SkuIds, a \in OneOfEach(form.attrs), v \in OneOfEach(form.sale) :
            /\ skuAttr' = [skuAttr EXCEPT ![s] = SkuAttrRows(a)]
            /\ skuSale' = [skuSale EXCEPT ![s] = SkuSaleRows(v)]
            /\ skuInfo' \subseteq skuInfo \cup {[id |-> s, spu |-> form.spu]}
            /\ \/ last' = last /\ skuInfo' = skuInfo
               \/ last' = [last EXCEPT !.sku = s] /\ s = last.sku + 1
    BY <1>5
  <1>7. /\ last' \in Ids /\ last'.sku >= last.sku
        /\ UNCHANGED <<last.attr, last.value, last.spu, last.spuValue>>
        /\ skuInfo' \subseteq [id : 1..last'.sku, spu : 1..last'.spu]
    <2>1. CASE last' = last /\ skuInfo' = skuInfo
      BY <1>1, <2>1
    <2>2. CASE last' = [last EXCEPT !.sku = s] /\ s = last.sku + 1
      <3>1. /\ last' \in Ids /\ last'.sku = s
            /\ UNCHANGED <<last.attr, last.value, last.spu, last.spuValue>>
        BY <1>1, <2>2 DEF SkuIds
      <3>2. s \in 1..s /\ 1..last.sku \subseteq 1..s /\ s >= last.sku
        BY <1>1, <2>2
      <3>3. [id |-> s, spu |-> form.spu] \in [id : 1..last'.sku, spu : 1..last'.spu]
        BY <1>3, <3>1, <3>2
      <3> QED
        BY <1>1, <1>6, <3>1, <3>2, <3>3
    <2> QED
      BY <1>6, <2>1, <2>2
  <1>8. last'.sku \in Nat
    BY <1>7
  <1>9. /\ dlg' \in [Editors -> Dialog'] /\ FormsHaveSpu' /\ Known' \subseteq Known
    BY <1>2, <1>7, <1>8, ClosedForm
  <1>10. IdInv' /\ SkuSaleRows(v) \in Seq(SkuSaleRow)
    BY <1>6, <1>7, <1>9, NewNotes
  <1>11. /\ skuAttr' \in [SkuIds -> SUBSET SkuAttrRow]
         /\ skuSale' \in [SkuIds -> Seq(SkuSaleRow)]
    BY <1>1, <1>4, <1>6, <1>10
  <1>12. TypeOK'
    BY <1>2, <1>7, <1>9, <1>11 DEF PageInv, PageTypeOK, TypeOK
  <1>13. PageTypeOK'
    <2>1. 0..last.sku \subseteq 0..last'.sku
      BY <1>1, <1>7, <1>8
    <2> QED
      BY <1>2, <1>7, <1>12, <2>1 DEF PageInv, PageTypeOK
  <1> QED
    BY <1>9, <1>10, <1>13 DEF PageInv, IdInv

\* A form that is given up leaves nothing.
LEMMA CloseStep ==
    ASSUME PageInv, NEW e \in Editors, CloseSku(e), page' = page
    PROVE  PageInv'
  <1>1. /\ UNCHANGED <<attrInfo, attrValue, spuInfo, spuValue, skuInfo, skuAttr, skuSale, last, page>>
        /\ dlg' = [dlg EXCEPT ![e] = Closed]
    BY DEF CloseSku
  <1>2. last.sku \in Nat /\ last'.sku >= last.sku /\ last'.sku \in Nat
    BY <1>1 DEF PageInv, PageTypeOK, TypeOK
  <1>3. /\ dlg' \in [Editors -> Dialog'] /\ FormsHaveSpu' /\ Known' \subseteq Known
    BY <1>1, <1>2, ClosedForm
  <1>4. PageTypeOK'
    BY <1>1, <1>3 DEF PageInv, PageTypeOK, TypeOK
  <1> QED
    BY <1>1, <1>3, <1>4, FewerRows DEF PageInv, IdInv

\* A product that is deleted notes nothing.
LEMMA DeleteStep ==
    ASSUME PageInv, NEW s \in SkuIds, DeleteSkuRows(s), page' = page
    PROVE  PageInv'
  <1>1. /\ UNCHANGED <<attrInfo, attrValue, spuInfo, spuValue, last, dlg, page>>
        /\ skuInfo' \subseteq skuInfo
        /\ skuAttr' = [skuAttr EXCEPT ![s] = {}]
        /\ skuSale' = [skuSale EXCEPT ![s] = <<>>]
    BY DEF DeleteSkuRows
  <1>2. skuSale \in [SkuIds -> Seq(SkuSaleRow)] /\ skuAttr \in [SkuIds -> SUBSET SkuAttrRow]
    BY DEF PageInv, PageTypeOK, TypeOK
  <1>3. <<>> \in Seq(SkuSaleRow) /\ \A i \in DOMAIN <<>> : FALSE
    OBVIOUS
  <1>4. PageTypeOK' /\ FormsHaveSpu'
    <2>1. TypeOK'
      BY DeleteTypes DEF PageInv, PageTypeOK
    <2> QED
      BY <1>1, <2>1 DEF PageInv, PageTypeOK, FormsHaveSpu
  <1>5. Known' = Known
    BY <1>1 DEF Known
  <1>6. NotesAgree'
    <2>1. ASSUME NEW t \in SkuIds PROVE skuSale'[t] = skuSale[t] \/ skuSale'[t] = <<>>
      BY <1>1, <1>2
    <2> QED
      BY <1>1, <1>3, <1>5, <2>1 DEF PageInv, NotesAgree
  <1> QED
    BY <1>1, <1>4, <1>5, <1>6 DEF PageInv, IdsGivenOut

-----------------------------------------------------------------------------
(* The steps of the page. *)

\* The page reads rows that are there.
LEMMA PageStep ==
    ASSUME PageInv, GetSku \/ GetValues \/ GetSwitch
    PROVE  PageInv'
  <1>1. UNCHANGED catalogVars
    BY DEF GetSku, GetValues, GetSwitch
  <1>2. TypeOK' /\ FormsHaveSpu' /\ spuValue \subseteq SpuValueRow
    BY <1>1 DEF catalogVars, PageInv, PageTypeOK, TypeOK, FormsHaveSpu, Dialog
  <1>3. last.sku \in Nat /\ last.spu \in Nat
    BY DEF PageInv, PageTypeOK, TypeOK
  <1>4. page \in [pc : {"idle", "values", "switch"}, sku : 0..last.sku, spu : 0..last.spu,
                  values : SUBSET SpuValueRow, checked : SUBSET page.values]
    BY DEF PageInv, PageTypeOK
  <1>5. /\ page' \in [pc : {"idle", "values", "switch"}, sku : 0..last.sku, spu : 0..last.spu,
                      values : SUBSET SpuValueRow, checked : SUBSET page'.values]
        /\ page'.values \subseteq spuValue
    <2>1. CASE GetSku
      <3>1. PICK row \in skuInfo : page' = [pc |-> "values", sku |-> row.id, spu |-> row.spu,
                                             values |-> {}, checked |-> {}]
        BY <2>1 DEF GetSku, NoPage
      <3>2. row.id \in 0..last.sku /\ row.spu \in 0..last.spu
        BY <1>3 DEF PageInv, PageTypeOK, TypeOK
      <3> QED
        BY <3>1, <3>2
    <2>2. CASE GetValues
      <3> DEFINE values == {row \in spuValue : row.spu = page.spu}
                 checked == Checked(values, page.sku)
      <3>1. page' = [page EXCEPT !.pc = "switch", !.values = values, !.checked = checked]
        BY <2>2 DEF GetValues
      <3>2. values \subseteq spuValue /\ checked \subseteq values
        BY DEF Checked
      <3> HIDE DEF values, checked
      <3>3. page' = [pc |-> "switch", sku |-> page.sku, spu |-> page.spu, values |-> values,
                     checked |-> checked]
        BY <1>4, <3>1
      <3> QED
        BY <1>2, <1>4, <3>2, <3>3
    <2>3. CASE GetSwitch
      BY <1>3, <2>3 DEF GetSwitch, NoPage
    <2> QED
      BY <2>1, <2>2, <2>3
  <1>6. PageTypeOK'
    BY <1>1, <1>2, <1>5 DEF PageTypeOK, catalogVars
  <1>7. Known' \subseteq Known
    BY <1>1, <1>5 DEF Known, catalogVars
  <1> QED
    BY <1>1, <1>2, <1>6, <1>7, FewerRows DEF PageInv, IdInv, catalogVars

\* Every step keeps the invariant.
LEMMA PageInvStep == PageInv /\ [Next]_vars => PageInv'
  <1> SUFFICES ASSUME PageInv, [Next]_vars PROVE PageInv'
    OBVIOUS
  <1>1. CASE CatalogNext /\ UNCHANGED page
    BY <1>1, AttrStep, SpuStep, OpenStep, SaveStep, CloseStep, DeleteStep DEF CatalogNext
  <1>2. CASE GetSku \/ GetValues \/ GetSwitch
    BY <1>2, PageStep
  <1>3. CASE UNCHANGED vars
    BY <1>3 DEF vars, catalogVars, PageInv, PageTypeOK, TypeOK, FormsHaveSpu, Dialog,
                IdsGivenOut, UniqueIds, NotesAgree, Known
  <1> QED
    BY <1>1, <1>2, <1>3 DEF Next

\* The tables, the forms and the page hold rows of their tables, with ids that were
\* given out, whatever is saved, deleted and read in between.
THEOREM PageTypeCorrect == Spec => []PageTypeOK
  <1>1. PageInv => PageTypeOK
    BY DEF PageInv
  <1> QED
    BY <1>1, PageInit, PageInvStep, PTL DEF Spec

-----------------------------------------------------------------------------
(* The switch. *)

\* Of the products with a key one has the largest id.
LEMMA LastProduct ==
    ASSUME NEW members, members \subseteq SkuIds, members # {}
    PROVE  \E s \in members : \A q \in members : q <= s
  <1> DEFINE gaps == {MaxSku - s : s \in members}
  <1>1. MaxSku \in Nat /\ \A s \in members : s \in 1..MaxSku
    BY CatalogBounds DEF SkuIds
  <1>2. gaps \subseteq Nat /\ gaps # {}
    BY <1>1
  <1>3. PICK g \in gaps : \A h \in gaps : ~ (<<h, g>> \in OpToRel(<, Nat))
    BY <1>2, NatLessThanWellFounded, WFMin
  <1>4. \A h \in gaps : ~ (h < g)
    BY <1>2, <1>3 DEF OpToRel
  <1>5. PICK s \in members : g = MaxSku - s
    BY <1>3
  <1>6. ASSUME NEW q \in members PROVE q <= s
    BY <1>1, <1>4, <1>5
  <1> QED
    BY <1>6

\* The map of the page leads to a product that has the key.
LEMMA SwitchHasKey ==
    ASSUME PageInv, NEW key \in DOMAIN SkuJson(page.spu)
    PROVE  SkuJson(page.spu)[key] \in SkuIds /\ Key(SkuJson(page.spu)[key]) = key
  <1> DEFINE members == {row.id : row \in {r \in skuInfo : r.spu = page.spu /\ skuSale[r.id] # <<>>}}
             withKey == {s \in members : Key(s) = key}
  <1>1. members \subseteq SkuIds
    BY CatalogBounds DEF PageInv, PageTypeOK, TypeOK, SkuIds
  <1>2. SkuJson(page.spu) = [k \in {Key(s) : s \in members} |->
            CHOOSE s \in members : Key(s) = k /\ \A q \in members : Key(q) = k => q <= s]
    BY DEF SkuJson
  <1> HIDE DEF members
  <1>3. withKey # {} /\ withKey \subseteq SkuIds
    BY <1>1, <1>2
  <1>4. \E s \in withKey : \A q \in withKey : q <= s
    BY <1>3, LastProduct
  <1>5. \E s \in members : Key(s) = key /\ \A q \in members : Key(q) = key => q <= s
    BY <1>4
  <1> QED
    BY <1>1, <1>2, <1>5

\* A product whose key is the ids of selected values was saved with their names.
LEMMA KeyNames ==
    ASSUME PageInv, NEW s \in SkuIds, NEW selected, selected \subseteq page.values,
           Key(s) = SelectedKey(selected)
    PROVE  SavedAs(s) = Named(selected)
  <1> DEFINE list == ById(selected)
             n == Cardinality(selected)
  <1>1. selected \subseteq SpuValueRow /\ selected \subseteq Known
    BY DEF PageInv, PageTypeOK, Known
  <1>2. UniqueIds(selected)
    BY <1>1 DEF PageInv, UniqueIds
  <1>3. n \in Nat /\ list \in [1..n -> selected] /\ \A r \in selected : \E i \in 1..n : list[i] = r
    BY <1>1, <1>2, ByIdLists, ByIdCovers
  <1> HIDE DEF list, n
  <1>4. SelectedKey(selected) = [i \in 1..n |-> list[i].id]
    BY <1>3 DEF SelectedKey, list
  <1>5. DOMAIN skuSale[s] = 1..n /\ \A i \in 1..n : skuSale[s][i].value = list[i].id
    BY <1>4 DEF Key
  <1>6. \A i \in 1..n : skuSale[s][i].attr = list[i].attr /\ skuSale[s][i].name = list[i].name
    BY <1>1, <1>3, <1>5 DEF PageInv, NotesAgree
  <1>7. SavedAs(s) = {<<list[i].attr, list[i].name>> : i \in 1..n}
    BY <1>5, <1>6 DEF SavedAs
  <1>8. Named(selected) = {<<list[i].attr, list[i].name>> : i \in 1..n}
    BY <1>3 DEF Named
  <1> QED
    BY <1>7, <1>8

\* Clicking on a product page leads to a product that was saved with the values that
\* are selected (switchSkuId, skuJson), between any edits of the back office.
THEOREM SwitchIsAlwaysHonest == Spec => []SwitchIsHonest
  <1>1. PageInv => SwitchIsHonest
    <2> SUFFICES ASSUME PageInv, NEW selected \in Selections,
                        SelectedKey(selected) \in DOMAIN SkuJson(page.spu)
                 PROVE  SavedAs(SkuJson(page.spu)[SelectedKey(selected)]) = Named(selected)
      BY DEF SwitchIsHonest
    <2>1. selected \subseteq page.values
      BY DEF Selections
    <2> QED
      BY <2>1, SwitchHasKey, KeyNames
  <1> QED
    BY <1>1, PageInit, PageInvStep, PTL DEF Spec

-----------------------------------------------------------------------------
(* What the switch finds. *)

\* A product notes one value of an attribute, in the order of their ids.
NotesInOrder ==
    \A s \in SkuIds : \A i, j \in DOMAIN skuSale[s] :
        /\ i < j => skuSale[s][i].value < skuSale[s][j].value
        /\ skuSale[s][i].attr = skuSale[s][j].attr => i = j

CheckedIsChoice == \A q, r \in page.checked : q.attr = r.attr => q = r

PageHasProduct == page.pc = "values" => page.sku \in SkuIds

FindInv == PageInv /\ NotesInOrder /\ CheckedIsChoice /\ PageHasProduct

\* Nothing is noted at first.
LEMMA FindInit == Init => FindInv
  <1> SUFFICES ASSUME Init PROVE FindInv
    OBVIOUS
  <1>1. \A i \in DOMAIN <<>> : FALSE
    OBVIOUS
  <1> QED
    BY <1>1, PageInit DEF Init, CatalogInit, NoPage, FindInv, NotesInOrder, CheckedIsChoice,
                              PageHasProduct

\* One value in every <select> of the form is noted, in the order of ById.
LEMMA ChoiceInOrder ==
    ASSUME PageInv, NEW e \in Editors, NEW v \in OneOfEach(dlg[e].sale),
           NEW i \in DOMAIN SkuSaleRows(v), NEW j \in DOMAIN SkuSaleRows(v)
    PROVE  /\ i < j => SkuSaleRows(v)[i].value < SkuSaleRows(v)[j].value
           /\ SkuSaleRows(v)[i].attr = SkuSaleRows(v)[j].attr => i = j
  <1> DEFINE list == ById(v)
             n == Cardinality(v)
  <1>1. v \subseteq Known /\ v \subseteq SpuValueRow
    BY DEF OneOfEach, Known, PageInv, PageTypeOK, TypeOK, Dialog
  <1>2. UniqueIds(v)
    BY <1>1 DEF PageInv, UniqueIds
  <1>3. /\ n \in Nat /\ list \in [1..n -> v]
        /\ \A k, l \in 1..n : k < l => list[k].id < list[l].id
    BY <1>1, <1>2, ByIdLists
  <1>4. SkuSaleRows(v) = [k \in DOMAIN list |->
            [attr |-> list[k].attr, value |-> list[k].id, name |-> list[k].name]]
    BY DEF SkuSaleRows
  <1> HIDE DEF list, n
  <1>5. i \in 1..n /\ j \in 1..n
    BY <1>3, <1>4
  <1>6. /\ SkuSaleRows(v)[i].value = list[i].id /\ SkuSaleRows(v)[j].value = list[j].id
        /\ SkuSaleRows(v)[i].attr = list[i].attr /\ SkuSaleRows(v)[j].attr = list[j].attr
    BY <1>3, <1>4, <1>5
  <1>7. ASSUME list[i].attr = list[j].attr PROVE i = j
    <2>1. list[i] = list[j]
      BY <1>3, <1>5, <1>7 DEF OneOfEach
    <2>2. list[i].id \in Nat
      BY <1>1, <1>3, <1>5 DEF SpuValueRow
    <2>3. ~(i < j) /\ ~(j < i)
      BY <1>3, <1>5, <2>1, <2>2
    <2> QED
      BY <1>3, <1>5, <2>3
  <1> QED
    BY <1>3, <1>5, <1>6, <1>7

\* What a product notes is what it noted before, a choice in a form, or nothing.
LEMMA NotesChange ==
    ASSUME PageInv, [Next]_vars, NEW s \in SkuIds
    PROVE  \/ skuSale'[s] = skuSale[s] \/ skuSale'[s] = <<>>
           \/ \E e \in Editors : \E v \in OneOfEach(dlg[e].sale) : skuSale'[s] = SkuSaleRows(v)
  <1>1. skuSale \in [SkuIds -> Seq(SkuSaleRow)]
    BY DEF PageInv, PageTypeOK, TypeOK
  <1>2. CASE \E e \in Editors : SaveForm(e)
    BY <1>1, <1>2 DEF SaveForm, Save, SaveSku, UpdateSkuInfo
  <1>3. CASE \E t \in SkuIds : DeleteSkuRows(t)
    BY <1>1, <1>3 DEF DeleteSkuRows
  <1>4. CASE \/ EditAttr \/ EditSpu \/ \E form \in SpuForms : SaveSpu(form)
             \/ \E e \in Editors : OpenForm(e) \/ CloseSku(e)
             \/ GetSku \/ GetValues \/ GetSwitch
             \/ UNCHANGED vars
    BY <1>4 DEF EditAttr, InsertAttr, UpdateAttr, DeleteAttr, EditSpu, UpdateSpu, DeleteSpuInfo,
                SaveSpu, OpenForm, CloseSku, GetSku, GetValues, GetSwitch, vars, catalogVars
  <1> QED
    BY <1>2, <1>3, <1>4 DEF Next, CatalogNext

\* Marked values are those that the product notes, one of an attribute.
LEMMA CheckedStep ==
    ASSUME FindInv, [Next]_vars
    PROVE  CheckedIsChoice'
  <1>1. CASE GetValues
    <2> DEFINE values == {row \in spuValue : row.spu = page.spu}
               checked == Checked(values, page.sku)
    <2>1. page \in [pc : {"idle", "values", "switch"}, sku : 0..last.sku, spu : 0..last.spu,
                    values : SUBSET SpuValueRow, checked : SUBSET page.values]
      BY DEF FindInv, PageInv, PageTypeOK
    <2>2. page' = [page EXCEPT !.pc = "switch", !.values = values, !.checked = checked]
      BY <1>1 DEF GetValues
    <2>3. page'.checked = checked
      <3> HIDE DEF values, checked
      <3> QED
        BY <2>1, <2>2
    <2>4. ASSUME NEW q \in checked, NEW r \in checked, q.attr = r.attr PROVE q = r
      <3>1. PICK i \in DOMAIN skuSale[page.sku] :
                skuSale[page.sku][i].attr = q.attr /\ skuSale[page.sku][i].value = q.id
        BY DEF Checked
      <3>2. PICK j \in DOMAIN skuSale[page.sku] :
                skuSale[page.sku][j].attr = r.attr /\ skuSale[page.sku][j].value = r.id
        BY DEF Checked
      <3>3. page.sku \in SkuIds
        BY <1>1 DEF GetValues, FindInv, PageHasProduct
      <3>4. i = j
        BY <2>4, <3>1, <3>2, <3>3 DEF FindInv, NotesInOrder
      <3>5. q \in Known /\ r \in Known
        BY DEF Checked, Known
      <3> QED
        BY <3>1, <3>2, <3>4, <3>5 DEF FindInv, PageInv, UniqueIds
    <2> HIDE DEF checked
    <2> QED
      BY <2>3, <2>4 DEF CheckedIsChoice
  <1>2. CASE GetSku \/ GetSwitch
    <2>1. CASE GetSku
      <3>1. PICK row \in skuInfo : page' = [pc |-> "values", sku |-> row.id, spu |-> row.spu,
                                             values |-> {}, checked |-> {}]
        BY <2>1 DEF GetSku, NoPage
      <3> QED
        BY <3>1 DEF CheckedIsChoice
    <2>2. CASE GetSwitch
      BY <2>2 DEF GetSwitch, NoPage, CheckedIsChoice
    <2> QED
      BY <1>2, <2>1, <2>2
  <1>3. CASE (CatalogNext /\ UNCHANGED page) \/ UNCHANGED vars
    BY <1>3 DEF vars, FindInv, CheckedIsChoice
  <1> QED
    BY <1>1, <1>2, <1>3 DEF Next

\* The page asks for the values of a product that there was.
LEMMA ProductStep ==
    ASSUME FindInv, [Next]_vars
    PROVE  PageHasProduct'
  <1>1. CASE GetSku
    <2>1. PICK row \in skuInfo : page'.sku = row.id
      BY <1>1 DEF GetSku, NoPage
    <2>2. row.id \in SkuIds
      BY CatalogBounds DEF FindInv, PageInv, PageTypeOK, TypeOK, SkuIds
    <2> QED
      BY <2>1, <2>2 DEF PageHasProduct
  <1>2. CASE GetValues \/ GetSwitch
    <2>1. CASE GetValues
      <3> DEFINE values == {row \in spuValue : row.spu = page.spu}
                 checked == Checked(values, page.sku)
      <3>1. page' = [page EXCEPT !.pc = "switch", !.values = values, !.checked = checked]
        BY <2>1 DEF GetValues
      <3>2. page \in [pc : {"idle", "values", "switch"}, sku : 0..last.sku, spu : 0..last.spu,
                      values : SUBSET SpuValueRow, checked : SUBSET page.values]
        BY DEF FindInv, PageInv, PageTypeOK
      <3> HIDE DEF values, checked
      <3>3. page'.pc = "switch"
        BY <3>1, <3>2
      <3> QED
        BY <3>3 DEF PageHasProduct
    <2>2. CASE GetSwitch
      BY <2>2 DEF GetSwitch, NoPage, PageHasProduct
    <2> QED
      BY <1>2, <2>1, <2>2
  <1>3. CASE (CatalogNext /\ UNCHANGED page) \/ UNCHANGED vars
    BY <1>3 DEF vars, FindInv, PageHasProduct
  <1> QED
    BY <1>1, <1>2, <1>3 DEF Next

\* Every step keeps the order of what is noted.
LEMMA FindInvStep == FindInv /\ [Next]_vars => FindInv'
  <1> SUFFICES ASSUME FindInv, [Next]_vars PROVE FindInv'
    OBVIOUS
  <1>1. PageInv' /\ CheckedIsChoice' /\ PageHasProduct'
    BY PageInvStep, CheckedStep, ProductStep DEF FindInv
  <1>2. ASSUME NEW s \in SkuIds, NEW i \in DOMAIN skuSale'[s], NEW j \in DOMAIN skuSale'[s]
        PROVE  /\ i < j => skuSale'[s][i].value < skuSale'[s][j].value
               /\ skuSale'[s][i].attr = skuSale'[s][j].attr => i = j
    <2>1. CASE skuSale'[s] = skuSale[s]
      BY <2>1 DEF FindInv, NotesInOrder
    <2>2. CASE skuSale'[s] = <<>>
      BY <2>2
    <2>3. CASE \E e \in Editors : \E v \in OneOfEach(dlg[e].sale) : skuSale'[s] = SkuSaleRows(v)
      BY <2>3, ChoiceInOrder DEF FindInv
    <2> QED
      BY <2>1, <2>2, <2>3, NotesChange DEF FindInv
  <1> QED
    BY <1>1, <1>2 DEF FindInv, NotesInOrder

\* The rows with the ids that a product notes are, in their order, what it notes.
LEMMA RowsOfKey ==
    ASSUME FindInv, NEW t \in SkuIds,
           \A i \in DOMAIN skuSale[t] : \E row \in page.values : row.id = Key(t)[i]
    PROVE  SelectedKey({row \in page.values : row.id \in ToSet(Key(t))}) = Key(t)
  <1> DEFINE selected == {row \in page.values : row.id \in ToSet(Key(t))}
             m == Len(skuSale[t])
             rowOf == [i \in 1..m |-> CHOOSE row \in page.values : row.id = Key(t)[i]]
             Before(r) == {q \in selected : q.id < r.id}
  <1>1. /\ m \in Nat /\ DOMAIN skuSale[t] = 1..m
        /\ Key(t) = [i \in 1..m |-> skuSale[t][i].value]
        /\ \A i \in 1..m : Key(t)[i] \in Nat
    <2>1. skuSale[t] \in Seq(SkuSaleRow)
      BY DEF FindInv, PageInv, PageTypeOK, TypeOK
    <2>2. \A i \in 1..m : skuSale[t][i] \in SkuSaleRow
      BY <2>1, ElementOfSeq
    <2> QED
      BY <2>1, <2>2 DEF Key, SkuSaleRow
  <1>2. selected \subseteq SpuValueRow /\ UniqueIds(selected)
    BY DEF FindInv, PageInv, PageTypeOK, Known, UniqueIds
  <1>3. ASSUME NEW i \in 1..m PROVE rowOf[i] \in selected /\ rowOf[i].id = Key(t)[i]
    <2>1. rowOf[i] \in page.values /\ rowOf[i].id = Key(t)[i]
      BY <1>1
    <2>2. Key(t)[i] \in ToSet(Key(t))
      BY <1>1 DEF ToSet
    <2> QED
      BY <2>1, <2>2
  <1>4. ASSUME NEW r \in selected PROVE \E i \in 1..m : rowOf[i] = r
    <2>1. PICK i \in 1..m : r.id = Key(t)[i]
      BY <1>1 DEF ToSet
    <2>2. rowOf[i] \in selected /\ rowOf[i].id = r.id
      BY <1>3, <2>1
    <2> HIDE DEF rowOf, selected
    <2> QED
      BY <1>2, <2>2 DEF UniqueIds
  <1>5. ASSUME NEW i \in 1..m, NEW j \in 1..m PROVE i < j => Key(t)[i] < Key(t)[j]
    BY <1>1 DEF FindInv, NotesInOrder
  <1>6. ASSUME NEW i \in 1..m, NEW j \in 1..m PROVE (j < i) <=> (rowOf[j].id < rowOf[i].id)
    <2>1. rowOf[i].id = Key(t)[i] /\ rowOf[j].id = Key(t)[j]
      BY <1>3
    <2>2. i < j => Key(t)[i] < Key(t)[j]
      BY <1>5
    <2>3. j < i => Key(t)[j] < Key(t)[i]
      BY <1>5
    <2>4. Key(t)[i] \in Nat /\ Key(t)[j] \in Nat
      BY <1>1
    <2> HIDE DEF rowOf, m
    <2> QED
      BY <1>1, <2>1, <2>2, <2>3, <2>4
  <1> HIDE DEF rowOf, selected, m
  <1>7. ASSUME NEW k \in Nat, k <= m, NEW S \in SUBSET selected,
               \A i \in 1..m : rowOf[i] \in S <=> i <= k
        PROVE  Cardinality(S) = k
    <2> DEFINE f == [i \in 1..k |-> rowOf[i]]
    <2>1. f \in [1..k -> S]
      BY <1>1, <1>7
    <2>2. ASSUME NEW i \in 1..k, NEW j \in 1..k, f[i] = f[j] PROVE i = j
      <3>1. i \in 1..m /\ j \in 1..m /\ rowOf[i] = rowOf[j]
        BY <1>1, <1>7, <2>2
      <3>2. ~(rowOf[i].id < rowOf[i].id)
        <4>1. rowOf[i].id \in Nat
          BY <1>2, <1>3, <3>1 DEF SpuValueRow
        <4> QED
          BY <4>1
      <3>3. ~(i < j) /\ ~(j < i)
        BY <1>6, <3>1, <3>2
      <3> QED
        BY <3>3
    <2>3. ASSUME NEW r \in S PROVE \E i \in 1..k : f[i] = r
      <3>1. PICK i \in 1..m : rowOf[i] = r
        BY <1>4
      <3>2. i \in 1..k
        BY <1>1, <1>7, <3>1
      <3> QED
        BY <3>1, <3>2
    <2> HIDE DEF f
    <2>4. f \in Bijection(1..k, S)
      BY <2>1, <2>2, <2>3 DEF Bijection, Injection, Surjection, IsInjective
    <2>5. ExistsBijection(1..k, S)
      BY <2>4 DEF ExistsBijection
    <2>6. IsFiniteSet(1..k) /\ Cardinality(1..k) = k
      BY FS_Interval
    <2> QED
      BY <2>5, <2>6, FS_Bijection
  <1>8. Cardinality(selected) = m
    <2>1. \A i \in 1..m : rowOf[i] \in selected <=> i <= m
      BY <1>1, <1>3
    <2>2. m <= m /\ selected \in SUBSET selected
      BY <1>1
    <2> QED
      BY <1>1, <1>7, <2>1, <2>2
  <1>9. ASSUME NEW i \in 1..m PROVE ById(selected)[i] = rowOf[i]
    <2>1. i - 1 \in Nat /\ i - 1 <= m
      BY <1>1
    <2>2. \A j \in 1..m : rowOf[j] \in Before(rowOf[i]) <=> j <= i - 1
      <3> SUFFICES ASSUME NEW j \in 1..m PROVE rowOf[j] \in Before(rowOf[i]) <=> j <= i - 1
        OBVIOUS
      <3>1. rowOf[j] \in Before(rowOf[i]) <=> j < i
        BY <1>3, <1>6
      <3> HIDE DEF Before
      <3> QED
        BY <1>1, <3>1
    <2>3. Before(rowOf[i]) \in SUBSET selected
      OBVIOUS
    <2>4. Cardinality(Before(rowOf[i])) = i - 1
      <3> HIDE DEF Before
      <3> QED
        BY <1>7, <2>1, <2>2, <2>3
    <2>5. ById(selected)[Cardinality(Before(rowOf[i])) + 1] = rowOf[i]
      BY <1>2, <1>3, ByIdLists
    <2>6. (i - 1) + 1 = i
      BY <1>1
    <2> HIDE DEF Before
    <2> QED
      BY <2>4, <2>5, <2>6
  <1>10. ById(selected) \in [1..m -> selected]
    BY <1>2, <1>8, ByIdLists
  <1>11. SelectedKey(selected) = [i \in 1..m |-> ById(selected)[i].id]
    BY <1>10 DEF SelectedKey
  <1>12. \A i \in 1..m : ById(selected)[i].id = Key(t)[i]
    BY <1>3, <1>9
  <1>13. SelectedKey(selected) = Key(t)
    BY <1>1, <1>11, <1>12
  <1> QED
    BY <1>13 DEF selected

\* The page marks one value of an attribute at most, and a product all of whose values
\* are on the page is reached by selecting them, it or the last one that equals it
\* (spuSaleAttrListCheckBySku, switchSkuId, skuJson), between any edits.
THEOREM SwitchAlwaysFinds == Spec => []SwitchFinds
  <1>1. FindInv => SwitchFinds
    <2> SUFFICES ASSUME FindInv PROVE SwitchFinds
      OBVIOUS
    <2>1. page.checked \in Selections \cup {{}}
      <3>1. page.checked \subseteq page.values
        BY DEF FindInv, PageInv, PageTypeOK
      <3>2. \A q, r \in page.checked : q.attr = r.attr => q = r
        BY DEF FindInv, CheckedIsChoice
      <3>3. CASE page.checked = {}
        BY <3>3
      <3>4. CASE page.checked # {}
        BY <3>1, <3>2, <3>4 DEF Selections
      <3> QED
        BY <3>3, <3>4
    <2>2. ASSUME NEW t \in Products, SpuOf(t) = page.spu, skuSale[t] # <<>>,
                 \A i \in DOMAIN skuSale[t] : \E row \in page.values : row.id = Key(t)[i]
          PROVE  LET key == SelectedKey({row \in page.values : row.id \in ToSet(Key(t))}) IN
                 key \in DOMAIN SkuJson(page.spu) /\ Key(SkuJson(page.spu)[key]) = Key(t)
      <3>1. t \in SkuIds
        BY CatalogBounds DEF FindInv, PageInv, PageTypeOK, TypeOK, Products, SkuIds
      <3>2. SelectedKey({row \in page.values : row.id \in ToSet(Key(t))}) = Key(t)
        BY <2>2, <3>1, RowsOfKey
      <3>3. \E row \in skuInfo : row.id = t /\ row.spu = page.spu
        BY <2>2 DEF Products, SpuOf
      <3>4. Key(t) \in DOMAIN SkuJson(page.spu)
        BY <2>2, <3>3 DEF SkuJson
      <3>5. Key(SkuJson(page.spu)[Key(t)]) = Key(t)
        BY <3>4, SwitchHasKey DEF FindInv
      <3> QED
        BY <3>2, <3>4, <3>5
    <2> QED
      BY <2>1, <2>2 DEF SwitchFinds
  <1> QED
    BY <1>1, FindInit, FindInvStep, PTL DEF Spec
=============================================================================
