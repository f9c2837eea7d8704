SPECIFICATION Spec
CONSTANTS
  t1 = t1
  t2 = t2
  mastodon = mastodon
  atproto = atproto
  None = None
  Tabs = {t1, t2}
  Providers = {mastodon, atproto}
  MaxKeys = 3
  MaxLogins = 3
INVARIANTS KeyInUseIsStored BindingsAreOwn QuietMeansPersisted
PROPERTIES KeyLostOnlyByClash LoginsLostOnlyByCrowd
CHECK_DEADLOCK FALSE
