--------------------------- MODULE MCProviderRoute ---------------------------
(* Small instances of the provider route for TLC.                          *)
EXTENDS ProviderRoute

CONSTANTS cloud, backup, first, second

WithAndWithoutCloud == {{cloud, backup}, {backup}}

\* A profile with a fallback, without and with the consent to replay.
BothProfiles ==
  [order : {<<cloud, backup>>}, replay : {"never", "buffered-with-consent"}]
=============================================================================
