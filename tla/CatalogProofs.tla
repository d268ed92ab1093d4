--------------------------- MODULE CatalogProofs ---------------------------
(***************************************************************************)
(* What the proofs about the product page and the search use of the          *)
(* catalogue, for any numbers of attributes, SPUs, products and forms: how   *)
(* ById lists rows, that the tables keep their types, and that ids are given *)
(* out once.                                                                *)
(***************************************************************************)
EXTENDS Catalog, FiniteSetTheorems, SequenceTheorems, WellFoundedInduction, TLAPS

UniqueIds(rows) == \A q, r \in rows : q.id = r.id => q = r

-----------------------------------------------------------------------------
(* Rows in the order of their ids. *)

\* Rows of a table with its ids are finitely many.
LEMMA RowsFinite ==
    ASSUME NEW m \in Nat, NEW rows, \A r \in rows : r.id \in 1..m, UniqueIds(rows)
    PROVE  IsFiniteSet(rows)
  <1>1. IsFiniteSet(1..m)
    BY FS_Interval
  <1>2. [r \in rows |-> r.id] \in Injection(rows, 1..m)
    <2> DEFINE f == [r \in rows |-> r.id]
    <2>1. f \in [rows -> 1..m]
      OBVIOUS
    <2>2. \A q, r \in rows : f[q] = f[r] => q = r
      BY DEF UniqueIds
    <2> QED
      BY <2>1, <2>2 DEF Injection, IsInjective
  <1> QED
    BY <1>1, <1>2, FS_Injection

\* ById lists rows whose ids differ, each of them once, as their ids go.
LEMMA RowsInOrder ==
    ASSUME NEW m \in Nat, NEW rows, \A r \in rows : r.id \in 1..m, UniqueIds(rows)
    PROVE  /\ Cardinality(rows) \in Nat
           /\ ById(rows) \in [1..Cardinality(rows) -> rows]
           /\ \A r \in rows : LET i == Cardinality({q \in rows : q.id < r.id}) + 1 IN
                  i \in 1..Cardinality(rows) /\ ById(rows)[i] = r
           /\ \A i, j \in 1..Cardinality(rows) : i < j => ById(rows)[i].id < ById(rows)[j].id
  <1> DEFINE n == Cardinality(rows)
             Before(r) == {q \in rows : q.id < r.id}
             rank == [r \in rows |-> Cardinality(Before(r))]
  <1>1. IsFiniteSet(rows) /\ n \in Nat
    BY RowsFinite, FS_CardinalityType
  <1>2. ASSUME NEW r \in rows PROVE IsFiniteSet(Before(r)) /\ rank[r] \in 0..(n - 1)
    <2>1. Before(r) \in SUBSET rows /\ r \notin Before(r)
      OBVIOUS
    <2>2. IsFiniteSet(Before(r)) /\ Cardinality(Before(r)) <= n /\ Cardinality(Before(r)) # n
      BY <1>1, <2>1, FS_Subset
    <2>3. Cardinality(Before(r)) \in Nat
      BY <2>2, FS_CardinalityType
    <2> QED
      BY <1>1, <2>2, <2>3
  <1>3. ASSUME NEW q \in rows, NEW r \in rows, q.id < r.id PROVE rank[q] < rank[r]
    <2>1. Before(q) \in SUBSET Before(r)
      BY <1>3
    <2>2. q \in Before(r) /\ q \notin Before(q)
      BY <1>3
    <2>3. Cardinality(Before(q)) <= Cardinality(Before(r)) /\ Cardinality(Before(q)) # Cardinality(Before(r))
      BY <1>2, <2>1, <2>2, FS_Subset
    <2>4. rank[q] \in Nat /\ rank[r] \in Nat /\ rank[q] <= rank[r] /\ rank[q] # rank[r]
      BY <1>2, <2>3
    <2> HIDE DEF rank
    <2> QED
      BY <2>4
  <1>4. rank \in Injection(rows, 0..(n - 1))
    <2>1. rank \in [rows -> 0..(n - 1)]
      BY <1>2
    <2>2. ASSUME NEW q \in rows, NEW r \in rows, rank[q] = rank[r] PROVE q = r
      <3>1. q.id \in Nat /\ r.id \in Nat
        OBVIOUS
      <3>2. rank[q] \in Nat /\ rank[r] \in Nat
        <4>1. rank[q] \in 0..(n - 1) /\ rank[r] \in 0..(n - 1)
          BY <1>2
        <4> HIDE DEF rank, n
        <4> QED
          BY <4>1, <1>1
      <3>3. ~(q.id < r.id) /\ ~(r.id < q.id)
        <4> HIDE DEF rank
        <4> QED
          BY <1>3, <2>2, <3>2
      <3> QED
        BY <3>1, <3>3 DEF UniqueIds
    <2> HIDE DEF rank
    <2> QED
      BY <2>1, <2>2 DEF Injection, IsInjective
  <1>5. rank \in Surjection(rows, 0..(n - 1))
    <2>1. IsFiniteSet(0..(n - 1)) /\ Cardinality(0..(n - 1)) = n
      BY <1>1, FS_Interval
    <2> HIDE DEF rank
    <2> QED
      BY <1>4, <2>1, FS_Injection
  <1>6. ASSUME NEW i \in 1..n PROVE \E r \in rows : Cardinality(Before(r)) = i - 1
    <2>1. i - 1 \in 0..(n - 1)
      BY <1>1
    <2>2. \E r \in rows : rank[r] = i - 1
      <3> HIDE DEF rank
      <3> QED
        BY <1>5, <2>1 DEF Surjection
    <2> QED
      BY <2>2
  <1>7. ById(rows) = [i \in 1..n |-> CHOOSE r \in rows : Cardinality(Before(r)) = i - 1]
    BY DEF ById
  <1>8. ASSUME NEW i \in 1..n
        PROVE  ById(rows)[i] \in rows /\ Cardinality(Before(ById(rows)[i])) = i - 1
    <2> HIDE DEF Before
    <2> QED
      BY <1>6, <1>7
  <1>9. ASSUME NEW r \in rows PROVE rank[r] + 1 \in 1..n /\ ById(rows)[rank[r] + 1] = r
    <2>1. rank[r] + 1 \in 1..n /\ rank[r] \in Nat
      <3>1. rank[r] \in 0..(n - 1)
        BY <1>2
      <3> HIDE DEF rank, n
      <3> QED
        BY <1>1, <3>1
    <2> DEFINE i == rank[r] + 1
    <2>2. ById(rows)[i] \in rows /\ rank[ById(rows)[i]] = i - 1
      BY <1>8, <2>1
    <2>3. rank[ById(rows)[i]] = rank[r]
      <3> HIDE DEF rank
      <3> QED
        BY <2>1, <2>2
    <2>4. ById(rows)[i] = r
      <3> HIDE DEF rank, i
      <3> QED
        BY <1>4, <2>2, <2>3 DEF Injection, IsInjective
    <2> QED
      BY <2>1, <2>4
  <1>10. ById(rows) \in [1..n -> rows]
    <2> HIDE DEF Before
    <2> QED
      BY <1>7, <1>8
  <1>11. ASSUME NEW i \in 1..n, NEW j \in 1..n, i < j
         PROVE  ById(rows)[i].id < ById(rows)[j].id
    <2> DEFINE q == ById(rows)[i]
               r == ById(rows)[j]
    <2>1. /\ q \in rows /\ rank[q] = i - 1
          /\ r \in rows /\ rank[r] = j - 1
      BY <1>8
    <2> HIDE DEF rank, q, r
    <2>2. rank[q] # rank[r] /\ ~(rank[r] < rank[q])
      BY <1>1, <1>11, <2>1
    <2>3. q # r /\ ~(r.id < q.id)
      BY <1>3, <2>1, <2>2
    <2>4. q.id \in Nat /\ r.id \in Nat /\ q.id # r.id
      BY <2>1, <2>3 DEF UniqueIds
    <2>5. q.id < r.id
      BY <2>3, <2>4
    <2> QED
      BY <2>5 DEF q, r
  <1>12. ASSUME NEW r \in rows
         PROVE  LET i == Cardinality({q \in rows : q.id < r.id}) + 1 IN
                  i \in 1..n /\ ById(rows)[i] = r
    BY <1>9
  <1> HIDE DEF rank, Before
  <1> QED
    BY <1>1, <1>10, <1>11, <1>12

\* So it lists rows of spu_sale_attr_value.
LEMMA ByIdLists ==
    ASSUME NEW rows, rows \subseteq SpuValueRow, UniqueIds(rows)
    PROVE  /\ Cardinality(rows) \in Nat
           /\ ById(rows) \in [1..Cardinality(rows) -> rows]
           /\ \A r \in rows : LET i == Cardinality({q \in rows : q.id < r.id}) + 1 IN
                  i \in 1..Cardinality(rows) /\ ById(rows)[i] = r
           /\ \A i, j \in 1..Cardinality(rows) : i < j => ById(rows)[i].id < ById(rows)[j].id
  <1>1. MaxSpuValue \in Nat /\ \A r \in rows : r.id \in 1..MaxSpuValue
    BY CatalogBounds DEF SpuValueRow
  <1> QED
    BY <1>1, RowsInOrder

\* Each of the rows is somewhere in the list.
LEMMA ByIdCovers ==
    ASSUME NEW rows, rows \subseteq SpuValueRow, UniqueIds(rows)
    PROVE  \A r \in rows : \E i \in 1..Cardinality(rows) : ById(rows)[i] = r
  BY ByIdLists

\* What a product notes of the values chosen in its form.
LEMMA SaleRowsNoted ==
    ASSUME NEW choice, choice \subseteq SpuValueRow, UniqueIds(choice)
    PROVE  /\ SkuSaleRows(choice) \in Seq(SkuSaleRow)
           /\ \A i \in DOMAIN SkuSaleRows(choice) : \E r \in choice :
                  SkuSaleRows(choice)[i] = [attr |-> r.attr, value |-> r.id, name |-> r.name]
  <1> DEFINE list == ById(choice)
             note(i) == [attr |-> list[i].attr, value |-> list[i].id, name |-> list[i].name]
  <1>1. PICK n \in Nat : list \in [1..n -> choice]
    BY ByIdLists
  <1> HIDE DEF list
  <1>2. SkuSaleRows(choice) = [i \in 1..n |-> note(i)]
    BY <1>1 DEF SkuSaleRows, list
  <1>3. ASSUME NEW i \in 1..n PROVE note(i) \in SkuSaleRow /\ list[i] \in choice
    BY <1>1, <1>3 DEF SpuValueRow, SkuSaleRow
  <1>4. [i \in 1..n |-> note(i)] \in Seq(SkuSaleRow)
    BY <1>1, <1>3 DEF SkuSaleRow
  <1>5. ASSUME NEW i \in 1..n PROVE \E r \in choice :
            note(i) = [attr |-> r.attr, value |-> r.id, name |-> r.name]
    BY <1>3
  <1> QED
    BY <1>2, <1>4, <1>5

-----------------------------------------------------------------------------
(* The steps of the catalogue. *)

\* Editing attributes keeps the types, and gives out ids of attributes and their values only.
LEMMA AttrTypes ==
    ASSUME TypeOK, EditAttr
    PROVE  TypeOK' /\ UNCHANGED <<last.spu, last.spuValue, last.sku>>
  <1>1. UNCHANGED <<spuInfo, spuValue, skuInfo, skuAttr, skuSale, dlg>>
    BY DEF EditAttr, InsertAttr, UpdateAttr, DeleteAttr
  <1>2. UNCHANGED <<last.spu, last.spuValue, last.sku>>
    BY DEF EditAttr, InsertAttr, UpdateAttr, DeleteAttr, TypeOK
  <1>3. ASSUME NEW a \in 1..MaxAttr, NEW names \in AttrForms,
               last.value + Len(names) <= MaxValue
        PROVE  AttrRows(a, names) \subseteq AttrValueRow /\ last.value + Len(names) \in 0..MaxValue
    <2>1. names \in Seq(Names)
      BY FormsAssumption
    <2>2. last.value \in Nat /\ MaxValue \in Nat
      BY CatalogBounds DEF TypeOK
    <2>3. Len(names) \in Nat
      BY <2>1
    <2>4. ASSUME NEW i \in 1..Len(names)
          PROVE  [id |-> last.value + i, attr |-> a, name |-> names[i]] \in AttrValueRow
      <3>1. names[i] \in Names
        BY <2>1, ElementOfSeq
      <3>2. last.value + i \in 1..MaxValue
        BY <1>3, <2>2, <2>3
      <3> QED
        BY <3>1, <3>2 DEF AttrValueRow
    <2>5. AttrRows(a, names) \subseteq AttrValueRow
      BY <2>1, <2>4 DEF AttrRows
    <2>6. last.value + Len(names) \in 0..MaxValue
      BY <1>3, <2>2, <2>3
    <2> QED
      BY <2>5, <2>6
  <1>4. /\ attrInfo' \subseteq 1..last'.attr
        /\ attrValue' \subseteq AttrValueRow
        /\ last' \in [attr : 0..MaxAttr, value : 0..MaxValue, spu : 0..MaxSpu,
                      spuValue : 0..MaxSpuValue, sku : 0..MaxSku]
    <2> DEFINE Types(attrs, rows, ids) ==
                  /\ attrs \subseteq 1..ids.attr
                  /\ rows \subseteq AttrValueRow
                  /\ ids \in [attr : 0..MaxAttr, value : 0..MaxValue, spu : 0..MaxSpu,
                              spuValue : 0..MaxSpuValue, sku : 0..MaxSku]
    <2>1. Types(attrInfo, attrValue, last) /\ MaxAttr \in Nat
      BY CatalogBounds DEF TypeOK
    <2>2. ASSUME NEW names \in AttrForms, InsertAttr(names)
          PROVE  Types(attrInfo', attrValue', last')
      <3>1. last.attr + 1 \in 1..MaxAttr
        BY <2>1, <2>2 DEF InsertAttr
      <3>2. AttrRows(last.attr + 1, names) \subseteq AttrValueRow
            /\ last.value + Len(names) \in 0..MaxValue
        BY <1>3, <2>2, <3>1 DEF InsertAttr
      <3>3. last' \in [attr : 0..MaxAttr, value : 0..MaxValue, spu : 0..MaxSpu,
                       spuValue : 0..MaxSpuValue, sku : 0..MaxSku]
            /\ last'.attr = last.attr + 1
        <4>1. last' = [last EXCEPT !.attr = last.attr + 1, !.value = last.value + Len(names)]
          BY <2>1, <2>2 DEF InsertAttr
        <4> DEFINE a == last.attr + 1
                   v == last.value + Len(names)
                   first == [last EXCEPT !.attr = a]
        <4>2. last' = [first EXCEPT !.value = v]
          BY <4>1
        <4> HIDE DEF a, v
        <4>3. first \in [attr : 0..MaxAttr, value : 0..MaxValue, spu : 0..MaxSpu,
                          spuValue : 0..MaxSpuValue, sku : 0..MaxSku]
              /\ first.attr = a
          BY <2>1, <3>1 DEF a
        <4>4. v \in 0..MaxValue
          BY <3>2 DEF v
        <4> HIDE DEF first
        <4>5. last' \in [attr : 0..MaxAttr, value : 0..MaxValue, spu : 0..MaxSpu,
                          spuValue : 0..MaxSpuValue, sku : 0..MaxSku]
              /\ last'.attr = a
          BY <4>2, <4>3, <4>4
        <4> QED
          BY <4>5 DEF a
      <3>4. attrInfo' \subseteq 1..last'.attr
        BY <2>1, <2>2, <3>1, <3>3 DEF InsertAttr
      <3> QED
        BY <2>1, <2>2, <3>2, <3>3, <3>4 DEF InsertAttr
    <2>3. ASSUME NEW a \in 1..MaxAttr, NEW names \in AttrForms, UpdateAttr(a, names)
          PROVE  Types(attrInfo', attrValue', last')
      <3>1. AttrRows(a, names) \subseteq AttrValueRow /\ last.value + Len(names) \in 0..MaxValue
        BY <1>3, <2>3 DEF UpdateAttr
      <3>2. last' \in [attr : 0..MaxAttr, value : 0..MaxValue, spu : 0..MaxSpu,
                       spuValue : 0..MaxSpuValue, sku : 0..MaxSku]
            /\ last'.attr = last.attr
        BY <2>1, <2>3, <3>1 DEF UpdateAttr
      <3> QED
        BY <2>1, <2>3, <3>1, <3>2 DEF UpdateAttr
    <2>4. ASSUME NEW a \in 1..MaxAttr, DeleteAttr(a)
          PROVE  Types(attrInfo', attrValue', last')
      BY <2>1, <2>4 DEF DeleteAttr
    <2> HIDE DEF Types
    <2>5. Types(attrInfo', attrValue', last')
      BY <2>2, <2>3, <2>4 DEF EditAttr
    <2> QED
      BY <2>5 DEF Types
  <1> QED
    BY <1>1, <1>2, <1>4 DEF TypeOK, Dialog

\* The rows of an SPU form get ids that were not given out before.
LEMMA SpuRowsNew ==
    ASSUME TypeOK, NEW p \in 1..MaxSpu, NEW form \in SpuForms,
           last.spuValue + Len(form) <= MaxSpuValue
    PROVE  /\ last.spuValue + Len(form) \in 0..MaxSpuValue
           /\ SpuRows(p, form) \subseteq SpuValueRow
           /\ \A r \in SpuRows(p, form) : r.id > last.spuValue /\ r.id <= last.spuValue + Len(form)
           /\ UniqueIds(SpuRows(p, form))
  <1>1. form \in Seq([attr : SaleAttrs, name : Names])
    BY FormsAssumption
  <1>2. last.spuValue \in Nat /\ MaxSpuValue \in Nat /\ Len(form) \in Nat
    BY <1>1, CatalogBounds DEF TypeOK
  <1>3. \A r \in SpuRows(p, form) : \E i \in 1..Len(form) :
            r = [id |-> last.spuValue + i, spu |-> p, attr |-> form[i].attr, name |-> form[i].name]
    BY <1>1 DEF SpuRows
  <1>4. SpuRows(p, form) \subseteq SpuValueRow
    <2> SUFFICES ASSUME NEW i \in 1..Len(form)
                 PROVE  [id |-> last.spuValue + i, spu |-> p, attr |-> form[i].attr,
                         name |-> form[i].name] \in SpuValueRow
      BY <1>3
    <2>1. form[i] \in [attr : SaleAttrs, name : Names]
      BY <1>1, ElementOfSeq
    <2>2. last.spuValue + i \in 1..MaxSpuValue
      BY <1>2
    <2> QED
      BY <2>1, <2>2 DEF SpuValueRow
  <1>5. \A r \in SpuRows(p, form) : r.id > last.spuValue /\ r.id <= last.spuValue + Len(form)
    BY <1>2, <1>3
  <1>6. UniqueIds(SpuRows(p, form))
    BY <1>2, <1>3 DEF UniqueIds
  <1> QED
    BY <1>2, <1>4, <1>5, <1>6

AttrIds ==
    /\ UniqueIds(attrValue)
    /\ \A row \in attrValue : row.id <= last.value /\ row.attr <= last.attr

\* An edited attribute gets new ids for its values, so that a row with an id that was given
\* out before was there before, with its attribute.
LEMMA AttrIdsStep ==
    ASSUME TypeOK, AttrIds, EditAttr
    PROVE  /\ AttrIds'
           /\ last.value <= last'.value
           /\ \A row \in attrValue' : row.id <= last.value =>
                  row \in attrValue /\ (row.attr \in attrInfo' => row.attr \in attrInfo)
  <1>1. /\ last \in [attr : 0..MaxAttr, value : 0..MaxValue, spu : 0..MaxSpu,
                     spuValue : 0..MaxSpuValue, sku : 0..MaxSku]
        /\ last.value \in Nat /\ last.attr \in Nat
    BY CatalogBounds DEF TypeOK
  <1>2. \A row \in attrValue : row.id \in Nat /\ row.attr \in Nat
    BY DEF TypeOK, AttrValueRow
  <1>3. \A row \in attrValue : row.id <= last.value /\ row.attr <= last.attr
    BY DEF AttrIds
  <1>4. \A q, r \in attrValue : q.id = r.id => q = r
    BY DEF AttrIds, UniqueIds
  <1>5. ASSUME NEW a, NEW names \in AttrForms
        PROVE  /\ Len(names) \in Nat
               /\ \A r \in AttrRows(a, names) : r.id \in Nat /\ r.id > last.value
                       /\ r.id <= last.value + Len(names) /\ r.attr = a
               /\ \A q, r \in AttrRows(a, names) : q.id = r.id => q = r
    <2>1. names \in Seq(Names)
      BY FormsAssumption
    <2>2. Len(names) \in Nat
      BY <2>1
    <2>3. \A r \in AttrRows(a, names) : \E i \in 1..Len(names) :
              r = [id |-> last.value + i, attr |-> a, name |-> names[i]]
      BY <2>1 DEF AttrRows
    <2> QED
      BY <1>1, <2>2, <2>3
  <1>6. ASSUME NEW names \in AttrForms, InsertAttr(names)
        PROVE  /\ AttrIds'
               /\ last.value <= last'.value
               /\ \A row \in attrValue' : row.id <= last.value =>
                      row \in attrValue /\ (row.attr \in attrInfo' => row.attr \in attrInfo)
    <2> DEFINE a == last.attr + 1
               n == Len(names)
               new == AttrRows(a, names)
    <2>1. /\ n \in Nat
          /\ \A r \in new : r.id \in Nat /\ r.id > last.value /\ r.id <= last.value + n /\ r.attr = a
          /\ \A q, r \in new : q.id = r.id => q = r
      BY <1>5
    <2>2. attrInfo' = attrInfo \cup {a} /\ attrValue' = attrValue \cup new
      BY <1>6 DEF InsertAttr
    <2>3. last'.value = last.value + n /\ last'.attr = a
      <3>1. last' = [last EXCEPT !.attr = last.attr + 1, !.value = last.value + Len(names)]
        BY <1>1, <1>6 DEF InsertAttr
      <3> QED
        BY <1>1, <3>1
    <2> HIDE DEF new, n
    <2>4. UniqueIds(attrValue')
      BY <1>1, <1>2, <1>3, <1>4, <2>1, <2>2 DEF UniqueIds
    <2>5. \A row \in attrValue' : row.id <= last'.value /\ row.attr <= last'.attr
      BY <1>1, <1>2, <1>3, <2>1, <2>2, <2>3
    <2>6. \A row \in attrValue' : row.id <= last.value =>
              row \in attrValue /\ (row.attr \in attrInfo' => row.attr \in attrInfo)
      BY <1>1, <1>2, <1>3, <2>1, <2>2
    <2> QED
      BY <1>1, <2>1, <2>3, <2>4, <2>5, <2>6 DEF AttrIds
  <1>7. ASSUME NEW a \in 1..MaxAttr, NEW names \in AttrForms, UpdateAttr(a, names)
        PROVE  /\ AttrIds'
               /\ last.value <= last'.value
               /\ \A row \in attrValue' : row.id <= last.value =>
                      row \in attrValue /\ (row.attr \in attrInfo' => row.attr \in attrInfo)
    <2> DEFINE n == Len(names)
               new == AttrRows(a, names)
    <2>1. /\ n \in Nat
          /\ \A r \in new : r.id \in Nat /\ r.id > last.value /\ r.id <= last.value + n /\ r.attr = a
          /\ \A q, r \in new : q.id = r.id => q = r
      BY <1>5
    <2>2. /\ a <= last.attr /\ attrInfo' = attrInfo
          /\ attrValue' = {row \in attrValue : row.attr # a} \cup new
      BY <1>7 DEF UpdateAttr
    <2>3. last'.value = last.value + n /\ last'.attr = last.attr
      BY <1>1, <1>7 DEF UpdateAttr
    <2> HIDE DEF new, n
    <2>4. UniqueIds(attrValue')
      BY <1>1, <1>2, <1>3, <1>4, <2>1, <2>2 DEF UniqueIds
    <2>5. \A row \in attrValue' : row.id <= last'.value /\ row.attr <= last'.attr
      BY <1>1, <1>2, <1>3, <2>1, <2>2, <2>3
    <2>6. \A row \in attrValue' : row.id <= last.value =>
              row \in attrValue /\ (row.attr \in attrInfo' => row.attr \in attrInfo)
      BY <1>1, <1>2, <1>3, <2>1, <2>2
    <2> QED
      BY <1>1, <2>1, <2>3, <2>4, <2>5, <2>6 DEF AttrIds
  <1>8. ASSUME NEW a \in 1..MaxAttr, DeleteAttr(a)
        PROVE  /\ AttrIds'
               /\ last.value <= last'.value
               /\ \A row \in attrValue' : row.id <= last.value =>
                      row \in attrValue /\ (row.attr \in attrInfo' => row.attr \in attrInfo)
    BY <1>1, <1>8 DEF DeleteAttr, AttrIds, UniqueIds
  <1> QED
    BY <1>6, <1>7, <1>8 DEF EditAttr

SpuIds == UniqueIds(spuValue) /\ \A row \in spuValue : row.id <= last.spuValue

\* An SPU that is saved gets an id of its own, and so do its rows.
LEMMA SaveSpuTypes ==
    ASSUME TypeOK, SpuIds, NEW form \in SpuForms, SaveSpu(form)
    PROVE  TypeOK' /\ SpuIds' /\ UNCHANGED <<last.attr, last.value, last.sku>>
  <1> DEFINE Ids == [attr : 0..MaxAttr, value : 0..MaxValue, spu : 0..MaxSpu,
                     spuValue : 0..MaxSpuValue, sku : 0..MaxSku]
             p == last.spu + 1
             v == last.spuValue + Len(form)
             new == SpuRows(p, form)
  <1>1. /\ last \in Ids /\ last.spu \in Nat /\ last.spuValue \in Nat
        /\ spuInfo \subseteq 1..last.spu /\ spuValue \subseteq SpuValueRow
        /\ MaxSpu \in Nat /\ MaxSpuValue \in Nat
    BY CatalogBounds DEF TypeOK
  <1>2. /\ p <= MaxSpu /\ v <= MaxSpuValue
        /\ spuInfo' = spuInfo \cup {p} /\ spuValue' = spuValue \cup new
        /\ UNCHANGED <<attrInfo, attrValue, skuInfo, skuAttr, skuSale, dlg>>
    BY DEF SaveSpu
  <1>3. p \in 1..MaxSpu
    BY <1>1, <1>2
  <1>4. /\ v \in 0..MaxSpuValue /\ v >= last.spuValue
        /\ new \subseteq SpuValueRow
        /\ \A r \in new : r.id > last.spuValue /\ r.id <= v
        /\ UniqueIds(new)
    <2>1. Len(form) \in Nat
      BY FormsAssumption
    <2> QED
      BY <1>1, <1>2, <1>3, <2>1, SpuRowsNew
  <1>5. /\ last' \in Ids /\ last'.spu = p /\ last'.spuValue = v
        /\ UNCHANGED <<last.attr, last.value, last.sku>>
    <2> DEFINE first == [last EXCEPT !.spu = p]
    <2>1. last' = [first EXCEPT !.spuValue = v]
      BY <1>1 DEF SaveSpu
    <2> HIDE DEF p, v
    <2>2. /\ first \in Ids /\ first.spu = p
          /\ first.attr = last.attr /\ first.value = last.value /\ first.sku = last.sku
      BY <1>1, <1>3
    <2> HIDE DEF first
    <2> QED
      BY <1>4, <2>1, <2>2
  <1>6. 1..last.spu \subseteq 1..last'.spu /\ 0..last.spu \subseteq 0..last'.spu /\ p \in 1..last'.spu
    BY <1>1, <1>5
  <1>7. TypeOK'
    <2> HIDE DEF new, p, v
    <2> QED
      BY <1>1, <1>2, <1>4, <1>5, <1>6 DEF TypeOK, Dialog
  <1>8. SpuIds'
    <2> HIDE DEF new, v
    <2>1. \A r \in spuValue \cup new : r.id \in Nat
      BY <1>1, <1>4 DEF SpuValueRow
    <2>2. UniqueIds(spuValue')
      BY <1>1, <1>2, <1>4, <2>1 DEF SpuIds, UniqueIds
    <2>3. v \in Nat
      BY <1>1, <1>4
    <2>4. \A r \in spuValue' : r.id <= v
      BY <1>1, <1>2, <1>4, <2>1, <2>3 DEF SpuIds
    <2> QED
      BY <1>5, <2>2, <2>4 DEF SpuIds
  <1> QED
    BY <1>5, <1>7, <1>8

\* A product saved from a form of rows that are there keeps the types.
LEMMA SaveTypes ==
    ASSUME TypeOK, SpuIds, NEW form \in Forms, Save(form), UNCHANGED dlg
    PROVE  /\ TypeOK'
           /\ UNCHANGED <<attrInfo, attrValue, spuInfo, spuValue>>
           /\ UNCHANGED <<last.attr, last.value, last.spuValue>>
  <1> DEFINE Ids == [attr : 0..MaxAttr, value : 0..MaxValue, spu : 0..MaxSpu,
                     spuValue : 0..MaxSpuValue, sku : 0..MaxSku]
  <1>1. /\ last \in Ids /\ last.sku \in Nat /\ last.spu \in Nat /\ MaxSku \in Nat
        /\ skuInfo \subseteq [id : 1..last.sku, spu : 1..last.spu]
        /\ skuAttr \in [SkuIds -> SUBSET SkuAttrRow]
        /\ skuSale \in [SkuIds -> Seq(SkuSaleRow)]
    BY CatalogBounds DEF TypeOK
  <1>2. /\ form.sku \in 0..last.sku /\ form.spu \in 1..last.spu
        /\ form.attrs \subseteq AttrValueRow /\ form.sale \subseteq spuValue
    <2>1. PICK s \in 0..last.sku, p \in 1..last.spu : form = Form(s, p)
      <3>1. CASE \E p \in spuInfo : form = Form(0, p)
        BY <1>1, <3>1 DEF TypeOK
      <3>2. CASE \E row \in skuInfo : form = Form(row.id, row.spu)
        BY <1>1, <3>2
      <3> QED
        BY <3>1, <3>2 DEF Forms
    <2> QED
      BY <2>1 DEF Form, TypeOK
  <1>3. UNCHANGED <<attrInfo, attrValue, spuInfo, spuValue>>
    BY DEF Save, SaveSku, UpdateSkuInfo
  <1>4. ASSUME NEW a \in OneOfEach(form.attrs) PROVE SkuAttrRows(a) \subseteq SkuAttrRow
    BY <1>2 DEF OneOfEach, SkuAttrRows, AttrValueRow, SkuAttrRow
  <1>5. ASSUME NEW v \in OneOfEach(form.sale) PROVE SkuSaleRows(v) \in Seq(SkuSaleRow)
    <2>1. v \subseteq SpuValueRow /\ UniqueIds(v)
      BY <1>2 DEF OneOfEach, TypeOK, SpuIds, UniqueIds
    <2> QED
      BY <2>1, SaleRowsNoted
  <1>6. \E s \in SkuIds :
            /\ \E a \in OneOfEach(form.attrs) : skuAttr' = [skuAttr EXCEPT ![s] = SkuAttrRows(a)]
            /\ \E v \in OneOfEach(form.sale) : skuSale' = [skuSale EXCEPT ![s] = SkuSaleRows(v)]
            /\ \/ last' = last /\ skuInfo' = skuInfo
               \/ /\ last' = [last EXCEPT !.sku = s] /\ s = last.sku + 1
                  /\ skuInfo' = skuInfo \cup {[id |-> s, spu |-> form.spu]}
    <2>1. CASE SaveSku(form)
      <3>1. last.sku + 1 \in SkuIds
        BY <1>1, <2>1 DEF SaveSku, SkuIds
      <3> QED
        BY <2>1, <3>1 DEF SaveSku
    <2>2. CASE UpdateSkuInfo(form)
      <3>1. form.sku \in SkuIds
        BY <1>1, <1>2, <2>2 DEF UpdateSkuInfo, SkuIds
      <3> QED
        BY <2>2, <3>1 DEF UpdateSkuInfo
    <2> QED
      BY <2>1, <2>2 DEF Save
  <1>7. skuAttr' \in [SkuIds -> SUBSET SkuAttrRow] /\ skuSale' \in [SkuIds -> Seq(SkuSaleRow)]
    BY <1>1, <1>4, <1>5, <1>6
  <1>8. /\ last' \in Ids /\ last'.spu = last.spu
        /\ UNCHANGED <<last.attr, last.value, last.spuValue>>
        /\ 0..last.sku \subseteq 0..last'.sku
        /\ skuInfo' \subseteq [id : 1..last'.sku, spu : 1..last'.spu]
    <2>1. CASE last' = last /\ skuInfo' = skuInfo
      BY <1>1, <2>1
    <2>2. ASSUME NEW s \in SkuIds, last' = [last EXCEPT !.sku = s], s = last.sku + 1,
                 skuInfo' = skuInfo \cup {[id |-> s, spu |-> form.spu]}
          PROVE  <1>8!:
      <3>1. /\ last' \in Ids /\ last'.sku = s /\ last'.spu = last.spu
            /\ UNCHANGED <<last.attr, last.value, last.spuValue>>
        <4>1. s \in 0..MaxSku
          BY <1>1 DEF SkuIds
        <4>2. last \in Ids /\ last' = [last EXCEPT !.sku = s]
          BY <1>1, <2>2
        <4> QED
          BY <4>1, <4>2
      <3>2. s \in 1..s /\ 1..last.sku \subseteq 1..s /\ 0..last.sku \subseteq 0..s
        <4>1. last.sku \in Nat /\ s = last.sku + 1
          BY <1>1, <2>2
        <4> QED
          BY <4>1
      <3> QED
        BY <1>1, <1>2, <2>2, <3>1, <3>2
    <2> QED
      BY <1>6, <2>1, <2>2
  <1>9. TypeOK'
    BY <1>3, <1>7, <1>8 DEF TypeOK, Dialog
  <1> QED
    BY <1>3, <1>8, <1>9

\* A deleted product leaves no rows.
LEMMA DeleteTypes ==
    ASSUME TypeOK, NEW s \in SkuIds, DeleteSkuRows(s)
    PROVE  TypeOK'
  <1>1. /\ UNCHANGED <<attrInfo, attrValue, spuInfo, spuValue, last, dlg>>
        /\ skuInfo' \subseteq skuInfo
        /\ skuAttr' = [skuAttr EXCEPT ![s] = {}]
        /\ skuSale' = [skuSale EXCEPT ![s] = <<>>]
    BY DEF DeleteSkuRows
  <1>2. <<>> \in Seq(SkuSaleRow)
    OBVIOUS
  <1>3. skuSale' \in [SkuIds -> Seq(SkuSaleRow)] /\ skuAttr' \in [SkuIds -> SUBSET SkuAttrRow]
    BY <1>1, <1>2 DEF TypeOK
  <1> QED
    BY <1>1, <1>3 DEF TypeOK, Dialog

=============================================================================
