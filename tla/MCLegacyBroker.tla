---------------------------- MODULE MCLegacyBroker ----------------------------
(* Small instances of LegacyBroker for TLC. *)
EXTENDS LegacyBroker

\* As many descriptors as connections at once; a number is reused after a close.
TwoNumbers == 4 .. 5
===============================================================================
