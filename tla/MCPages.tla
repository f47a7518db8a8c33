------------------------------ MODULE MCPages ------------------------------
(* Instances of Pages for TLC.                                              *)
EXTENDS Pages, TLC

CONSTANTS t1, t2, u1, u2

TwoTeams == {t1, t2}
TwoTypes == {"resend", "zenduty"}
Resend == {"resend"}
OneInvite == {"v1"}
TwoUsers == {u1, u2}
OneHasATeam == u1 :> {t1} @@ u2 :> {}

Opening(a, ours, with, whose) ==
  [area |-> a, teams |-> ours, saved |-> None, configured |-> with,
   owners |-> whose, managed |-> {t1}, invited |-> {}]

(* Every page with two teams to switch between, of which t1 has a plugin   *)
(* and is managed by the user; the list of monitors, moreover, with teams  *)
(* that are yet to be created; and the browser of somebody who has no      *)
(* account.                                                                *)
AllOpenings ==
  {Opening("incidents", TwoTeams, {}, <<>>),
   Opening("plugins", TwoTeams, {t1}, <<>>),
   Opening("team", TwoTeams, {}, <<>>),
   Opening("new", TwoTeams, {t1}, <<t1>>),
   Opening("monitors", TwoTeams, {}, <<t1, t1>>),
   Opening("monitors", TwoTeams, {}, <<t1, t2>>),
   Opening("monitors", {t1}, {}, <<t1>>),
   Opening("monitors", {}, {}, <<>>),
   Opening("session", {}, {}, <<>>)}

(* What is left without one kind of call is what SelectSeq would select. *)
ASSUME \A s \in BoundedSeq([op : {"a", "b"}, nr : 1 .. 2], 4) :
         Without(s, "a") = SelectSeq(s, LAMBDA c : c.op # "a")
=============================================================================
