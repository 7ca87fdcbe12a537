---------------------------- MODULE MCWallNotice ----------------------------
(***************************************************************************)
(* WallNotice with follow-ups a day and two days after the wall.           *)
(***************************************************************************)
EXTENDS WallNotice, TLC

MCOffsets == <<1, 2>>

(* Neither kind of pass is told from the other. *)
Symmetry == Permutations(Passes)

(* Bounds on the time of a chat on its first allowance, with a key, and on *)
(* its first allowance when passes have overlapped.                        *)
FreeDays    == 7
PaidDays    == 4
OverlapDays == 4

(* Later than that, the way of one window of a chat that comes back from a *)
(* plan to its free allowance, with the follow-ups before and after.       *)
Returns ==
  /\ window \in {NULL, 3} /\ ~dayout /\ ~late
  /\ overlaps = 0
  /\ mirror # NULL => mirror.limit = "monthly"

Bounded ==
  \/ links = 0 /\ overlaps = 0 /\ now <= FreeDays
  \/ links = 0 /\ now <= OverlapDays /\ ~dayout
  \/ links = 1 /\ now <= PaidDays /\ overlaps = 0
  \/ Returns
=============================================================================
