----------------------------- MODULE MCEventStore -----------------------------
(* Instances of EventStore for TLC. *)
EXTENDS EventStore, TLC

CONSTANTS s1, s2, c1, c2, c3

\* Two sessions share a camera, each of them has another one of its own.
MixedFeeds == {<<s1, c1>>, <<s2, c1>>, <<s1, c2>>, <<s2, c3>>}

\* Every session has one camera.
OwnFeeds == {<<s1, c1>>, <<s2, c3>>}
=============================================================================
