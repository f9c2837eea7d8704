SPECIFICATION Spec
CONSTANTS
  t1 = t1
  t2 = t2
  mastodon = mastodon
  atproto = atproto
  None = None
  Tabs = {t1, t2}
  Providers = {mastodon, atproto}
  MaxKeys = 2
  MaxLogins = 1
PROPERTY StoredKeyKept
CHECK_DEADLOCK FALSE
