---------------------------- MODULE MCWritePath ----------------------------
(* Instances of WritePath: a torrent of a piece of two blocks and a piece of *)
(* one, with a file in the first block and a file over the rest; and a       *)
(* torrent of a single block.                                                *)
EXTENDS WritePath

CONSTANTS t1, t2

OneTorrent == {t1}
TwoTorrents == {t1, t2}
BigSmall == [t \in Torrents |-> IF t = t1 THEN 3 ELSE 1]
FilesOf == [t \in Torrents |-> IF t = t1 THEN {<<0, 0>>, <<1, 2>>} ELSE {<<0, 0>>}]
=============================================================================
