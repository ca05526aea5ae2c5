SPECIFICATION FairSpec
CONSTANTS
  glib = glib
  pcre2 = pcre2
  v8 = v8
  Deps <- MCDeps
  Inside <- MCInside
  Archive <- MCArchive
  WrapOrder <- MCOrder
  Invocations <- MCInvocations
  Optional = {v8}
  Unusable = {v8}
  Required = {glib}
  Needed = {glib, pcre2}
  None = None
  Torn = Torn
  MaxFaults = 2
INVARIANT EntryShipped
PROPERTIES FullBuildShipsOwnGum PrefetchConverges BuildSucceeds
