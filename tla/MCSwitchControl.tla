-------------------------- MODULE MCSwitchControl --------------------------
(* Two switch bits, three callbacks (the last without a pin), requests    *)
(* for each bit, one beyond the byte and one negative, and one voltage     *)
(* in each band that the thresholds cut out.                               *)
EXTENDS SwitchControl

MCReadings == {315, 330, 345}
MCRpcArgs == {0, 1, 5, -1}
MCPinBits == {0, 1}
=============================================================================
