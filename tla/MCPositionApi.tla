---------------------------- MODULE MCPositionApi ----------------------------
(* A coupon and a share of one account; more of PositionApi is checked in        *)
(* MCLedgers.                                                                    *)
EXTENDS PositionApi

MCTemplateOf == [c1 |-> "IbetCoupon", s1 |-> "IbetShare"]
MCListings == {<<"c1", "s1">>}
MCOpening == {[c1 |-> 1, s1 |-> 1]}
==============================================================================
