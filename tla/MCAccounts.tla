------------------------------ MODULE MCAccounts ------------------------------
(* Instances of Accounts for TLC.                                            *)
EXTENDS Accounts, TLC

CONSTANTS p1, p2, t1, i1, i2, r1, r2

TwoPeople == {p1, p2}
OneTeam == {t1}
OneInvitation == {i1}
TwoInvitations == {i1, i2}
OneRequest == {r1}
TwoRequests == {r1, r2}
AdminRole == {"admin"}
=============================================================================
