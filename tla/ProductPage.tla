---------------------------- MODULE ProductPage ----------------------------
(***************************************************************************)
(* The product page (ItemController of item-web) over the catalogue: three   *)
(* calls of manager-service, each of which reads the tables at its moment,  *)
(* while editors save and delete.  A product that is deleted after the      *)
(* first call is also one that only the cache of module SkuCache still has.  *)
(* There is one page under way; what it showed before is forgotten.          *)
(***************************************************************************)
EXTENDS Catalog

\* What the page has read: the product and its SPU, then the values of the SPU and
\* which of them are the product's own.
VARIABLE page

vars == <<catalogVars, page>>

NoPage == [pc |-> "idle", sku |-> 0, spu |-> 0, values |-> {}, checked |-> {}]

PageTypeOK ==
    /\ TypeOK
    /\ page \in [pc : {"idle", "values", "switch"}, sku : 0..last.sku, spu : 0..last.spu,
                 values : SUBSET SpuValueRow, checked : SUBSET page.values]

Init == CatalogInit /\ page = NoPage

-----------------------------------------------------------------------------
(* The three calls. *)

\* getSkuInfoBySkuId.
GetSku ==
    /\ page = NoPage
    /\ \E row \in skuInfo :
        page' = [NoPage EXCEPT !.pc = "values", !.sku = row.id, !.spu = row.spu]
    /\ UNCHANGED catalogVars

Checked(values, s) ==
    {row \in values : \E i \in DOMAIN skuSale[s] :
        skuSale[s][i].attr = row.attr /\ skuSale[s][i].value = row.id}

\* spuSaleAttrListCheckBySku.
GetValues ==
    /\ page.pc = "values"
    /\ LET values == {row \in spuValue : row.spu = page.spu} IN
       page' = [page EXCEPT !.pc = "switch", !.values = values,
                            !.checked = Checked(values, page.sku)]
    /\ UNCHANGED catalogVars

\* selectSkuSaleAttrValueListBySpuId and the loop over it, and the page is there.
GetSwitch ==
    /\ page.pc = "switch"
    /\ page' = NoPage
    /\ UNCHANGED catalogVars

Key(s) == [i \in DOMAIN skuSale[s] |-> skuSale[s][i].value]

\* Products without sale attribute values are not in the map, and of two
\* products with one key the later one is.
SkuJson(p) ==
    LET members == {row.id : row \in {r \in skuInfo : r.spu = p /\ skuSale[r.id] # <<>>}} IN
    [k \in {Key(s) : s \in members} |->
        CHOOSE s \in members : Key(s) = k /\ \A q \in members : Key(q) = k => q <= s]

\* switchSkuId: the key of the values that the visitor has selected.
SelectedKey(selected) == LET rows == ById(selected) IN [i \in DOMAIN rows |-> rows[i].id]

\* At most one value of every attribute, at least one in all.
Selections ==
    {selected \in (SUBSET page.values) \ {{}} :
        \A q, r \in selected : q.attr = r.attr => q = r}

Next ==
    \/ CatalogNext /\ UNCHANGED page
    \/ GetSku \/ GetValues \/ GetSwitch

Spec == Init /\ [][Next]_vars

-----------------------------------------------------------------------------
(* What holds before the third call holds of the page that the call completes: *)
(* it reads the tables as they are, and changes nothing.                     *)

SpuOf(s) == (CHOOSE row \in skuInfo : row.id = s).spu

\* The names with which a product was saved.
SavedAs(s) == {<<skuSale[s][i].attr, skuSale[s][i].name>> : i \in DOMAIN skuSale[s]}
Named(selected) == {<<row.attr, row.name>> : row \in selected}

\* Selecting values on a product page leads to a product that was saved with just
\* these values, although values and map were read at two moments, and whatever was
\* edited, deleted or saved from an old form before or between.
SwitchIsHonest ==
    page.pc = "switch" =>
        \A selected \in Selections :
            LET key == SelectedKey(selected) IN
            key \in DOMAIN SkuJson(page.spu) =>
                SavedAs(SkuJson(page.spu)[key]) = Named(selected)

\* The page marks a selection, one value of an attribute at most, and a product all of
\* whose values are on the page can be reached by selecting them, its own or another.
SwitchFinds ==
    page.pc = "switch" =>
        /\ page.checked \in Selections \cup {{}}
        /\ \A t \in Products :
            (/\ SpuOf(t) = page.spu /\ skuSale[t] # <<>>
             /\ \A i \in DOMAIN skuSale[t] : \E row \in page.values : row.id = Key(t)[i])
            => LET key == SelectedKey({row \in page.values : row.id \in ToSet(Key(t))}) IN
               key \in DOMAIN SkuJson(page.spu) /\ Key(SkuJson(page.spu)[key]) = Key(t)
=============================================================================
