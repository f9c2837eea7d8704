--------------------------- MODULE MCTabIdentity ---------------------------
(* TLC instances of TabIdentity: model values for tabs and providers.        *)
EXTENDS TabIdentity

CONSTANTS t1, t2, mastodon, atproto
=============================================================================
