SPECIFICATION Spec
CONSTANTS
    Editors = {e1}
    e1 = e1
    color = color
    size = size
    SaleAttrs = {color, size}
    n1 = n1
    n2 = n2
    Names = {n1, n2}
    AttrForms <- MCAttrForms
    SpuForms <- MCSpuForms
    MaxAttr = 1
    MaxValue = 2
    MaxSpu = 1
    MaxSpuValue = 6
    MaxSku = 2
CHECK_DEADLOCK FALSE
INVARIANTS
    PageTypeOK
    SwitchIsHonest
    SwitchFinds
