---- MODULE MCPlayerLoad ----
(* The player with two rows, one of them downloaded.                           *)
EXTENDS PlayerLoad

\* Until a load or an event has acted for a later one.
Apart == ~raced
====
