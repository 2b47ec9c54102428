------------------------- MODULE MCDeviceHandshake -------------------------
(* One device whose coordinator hands over any of three vertices, any      *)
(* number of times.                                                        *)
EXTENDS DeviceHandshake

CONSTANTS scan, filter, aggregate

MCVertex == {scan, filter, aggregate}
=============================================================================
