---------------------------- MODULE MCTorrentLife ----------------------------
(* Instances of TorrentLife for TLC.                                        *)
EXTENDS TorrentLife, TLC

CONSTANTS t1, t2, w1, w2

OneTorrent == {t1}
TwoTorrents == {t1, t2}
OneWorker == {w1}
TwoWorkers == {w1, w2}
AllOps == {"start", "stop", "remove"}
OnlyRemove == {"remove"}
OnlyStart == {"start"}
=============================================================================
