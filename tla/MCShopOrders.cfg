CONSTANTS
    ann = ann
    pen = pen
    ink = ink
    c1 = c1
    c2 = c2
    Users <- OneUser
    Products <- TwoProducts
    Prices <- TwoPrices
    Statuses <- OneStatus
    MaxStock = 2
    Carts <- TwoCarts
    MaxOrders = 2
    Clients <- TwoClients
SYMMETRY Symm
SPECIFICATION Spec
INVARIANTS ShopTypeOK RowsHeld RefsKept
PROPERTIES LedgerKept
