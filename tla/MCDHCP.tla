-------------------------------- MODULE MCDHCP --------------------------------
(* Instances of DHCP for TLC. *)
EXTENDS DHCP

CONSTANTS k1, k2, m1, m2

\* Each device has a key of its own.
TwoDevices == {<<k1, m1>>, <<k2, m2>>}
===============================================================================
