----------------------------- MODULE MCAuction ------------------------------
(* Instance of Auction for TLC: r1 and r2 have two slots each and share out *)
(* three players.                                                           *)
EXTENDS Auction

CONSTANTS r1, r2

MCOrder == <<r1, r2>>
MCSetups == { <<"fast", "auto_nominate_and_open_bid">>, <<"fast", "auto_nominate_no_open_bid">>,
              <<"slow", "auto_skip_nominator">> }
=============================================================================
