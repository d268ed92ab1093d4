SPECIFICATION Spec
CONSTANTS
    Editors = {}
    color = color
    SaleAttrs = {color}
    n1 = n1
    n2 = n2
    Names = {n1, n2}
    AttrForms <- MCAttrForms
    SpuForms <- MCSpuForms
    MaxAttr = 2
    MaxValue = 2
    MaxSpu = 1
    MaxSpuValue = 1
    MaxSku = 2
    xiaomi = xiaomi
    Queries = {xiaomi}
    FoundBy <- MCFoundBy
    NoQuery = NoQuery
    PageSize = 1
    MaxIndexErrors = 1
INVARIANTS
    SearchTypeOK
    FollowFinds
    OneValuePerAttribute
    CrumbPerValue
    GoneIsForgotten
