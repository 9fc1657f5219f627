--------------------------- MODULE MCRegistration ---------------------------
(* A small instance of the registration for TLC: two clients that were given *)
(* the same id, one of them with a voucher for a single use.                 *)
EXTENDS Registration

CONSTANTS a, b, id1, code

MCId == [n \in Nodes |-> id1]
MCVoucherOf == [n \in Nodes |-> IF n = a THEN code ELSE NoVoucher]
MCMaxUses == [w \in Vouchers |-> 1]
=============================================================================
