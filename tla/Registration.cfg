SPECIFICATION FairSpec
CONSTANTS
    a = a
    b = b
    id1 = id1
    code = code
    NoVoucher = NoVoucher
    Nodes = {a, b}
    Ids = {id1}
    Id <- MCId
    VoucherOf <- MCVoucherOf
    Vouchers = {code}
    MaxUses <- MCMaxUses
    Namespaces = {"permanent"}
    MaxKeys = 3
    MaxRequests = 2
    MaxFaults = 1
INVARIANTS
    RegistrationInv
    VoucherNotOverspent
    AuthorityKept
PROPERTIES
    VoucherIsAnswered
CHECK_DEADLOCK FALSE
