---------------------------- MODULE MCLifecycle ----------------------------
(* One reading in each band: low, critical only, hysteresis, high.         *)
(* Configurations: good; one servo that turns all the way round and one of *)
(* a quarter turn; one that breaks off in the servo list, at the first     *)
(* network; one with too many LDRs.                                        *)
EXTENDS Lifecycle

MCReadings == {315, 320, 330, 345}

MCDocuments == {"good", "round", "noServos", "noNetwork", "fiveLdrs"}
Half(reverses) == [max_rotation |-> 18000, can_reverse_logic |-> reverses]
Quarter == [max_rotation |-> 9000, can_reverse_logic |-> TRUE]
Full == [max_rotation |-> 36000, can_reverse_logic |-> TRUE]
Doc(good, ldr, servo) == [good |-> good, ssid |-> TRUE, ldr |-> ldr, servo |-> servo]
MCDocument == [good      |-> Doc(8, 3, <<Half(FALSE), Half(TRUE)>>),
               round     |-> Doc(8, 3, <<Full, Quarter>>),
               noServos  |-> Doc(7, 3, <<>>),
               noNetwork |-> Doc(2, 3, <<Half(FALSE), Half(TRUE)>>),
               fiveLdrs  |-> Doc(8, 7, <<Half(FALSE), Half(TRUE), Half(TRUE)>>)]

MCSurroundings == {{"battery"}, {"radio", "power"}, {"sun"}}
MCImbalances == {-1, 1, 2}
=============================================================================
