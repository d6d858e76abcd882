----------------------------- MODULE MCFeedStore -----------------------------
(* App's effect runs once or twice.  Four sockets: the current one, the    *)
(* stray of a second run, one torn down that has not closed yet, and one   *)
(* to connect with in the meantime.                                        *)
EXTENDS FeedStore
=============================================================================
