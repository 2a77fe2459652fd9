--------------------------- MODULE MCVoxTypeDaemon ---------------------------
(* Small instances of the daemon for TLC.                                  *)
EXTENDS VoxTypeDaemon
OnlyFcitx   == {"fcitx5"}
TwoBackends == {"fcitx5", "copy-only"}
PrivateConfigs == {[retain |-> FALSE, history |-> h] : h \in BOOLEAN}
OneConfig      == {[retain |-> FALSE, history |-> TRUE]}
=============================================================================
