------------------------------ MODULE SessionMC ------------------------------
(* A small instance of Session: all answers the upstream may give.          *)
EXTENDS Session

CONSTANTS i1, i2

MCIds == {i1, i2}
MCAnswers == {"None", "Queued", "Active", "Disabled", "Ended", "Superseded"}
MCOffers == [id : Ids \cup {NoId}, life : 0..Forever]
=============================================================================
