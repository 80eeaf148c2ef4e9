----------------------------- MODULE MCAuction -----------------------------
(***************************************************************************)
(* A small instance of Auction for TLC: one seller without money and two   *)
(* bidders who can pay the first and the second stake, though each of the  *)
(* three may put up, bid and take back.                                    *)
(***************************************************************************)
EXTENDS Auction, TLC, SequencesExt

Gold0   == [p \in Player |-> 0]
Bank034 == LET s == SetToSeq(Player) IN s[1] :> 0 @@ s[2] :> 3 @@ s[3] :> 4
=============================================================================
