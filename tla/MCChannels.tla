----------------------------- MODULE MCChannels -----------------------------
(* The instances of Channels that TLC checks: who the users are and which   *)
(* relationships they have.                                                 *)
EXTENDS Channels

CONSTANTS ann, bob

None   == {}
OneWay == {<<ann, bob>>}
=============================================================================
