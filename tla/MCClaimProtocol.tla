--------------------------- MODULE MCClaimProtocol ---------------------------
EXTENDS ClaimProtocol, TLC

CONSTANTS s1, s2, s3

(* Two sessions that race, the second of which may try twice. *)
TwoIds == s1 :> <<2>> @@ s2 :> <<1, 3>>
TwoNonces == s1 :> 2 @@ s2 :> 1
=============================================================================
