-------------------------- MODULE MCChannelAdapter --------------------------
(* The feed of the runs: three events, so one full and one short page. *)
EXTENDS ChannelAdapter

MCFeed == <<1, 2, 3>>
=============================================================================
