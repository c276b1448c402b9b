----------------------------- MODULE MCFeedChecks -----------------------------
(* An instance of FeedChecks for TLC: an index and a document.               *)
EXTENDS FeedChecks

CONSTANTS k1, k2, w1, w2, a, b, x

UserSources == <<a, b>>
FoundPages == {<<b>>}
===============================================================================
