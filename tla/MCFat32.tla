------------------------------ MODULE MCFat32 ------------------------------
(* Fat32 for TLC.  DIR and DOC fit 8.3, lower is DIR in lower case and needs *)
(* one long name entry, long needs two and has the short name DIR as well; *)
(* the next one gets DIR~1, here DIR_1.                                    *)
EXTENDS Fat32

CONSTANTS DIR, DOC, lower, long, DIR_1

Names   == {DIR, DOC, lower, long}
Entries == (DIR :> 0) @@ (DOC :> 0) @@ (lower :> 1) @@ (long :> 2)
Shorts  == (DIR :> DIR) @@ (DOC :> DOC) @@ (lower :> DIR) @@ (long :> DIR)
Tildes  == (DIR :> <<DIR_1>>) @@ (DOC :> <<>>)
Folds   == (DIR_1 :> DIR_1) @@ (DIR :> lower) @@ (DOC :> DOC) @@ (lower :> lower) @@ (long :> long)

Volume(last, slots, files, typed, depth, writes, bytes, fails) ==
  [last |-> last, slots |-> slots, files |-> files, typed |-> typed, depth |-> depth,
   writes |-> writes, bytes |-> bytes, fails |-> fails]

(* A file whose bytes look like the entry of a file in the root's cluster. *)
Text == Short(DOC, FALSE, Root, 1)

(* Long names, in one cluster or across two; a disk that fills up; paths   *)
(* deeper than the scan; and names that differ only in case.  On the first *)
(* two power may be lost.                                                  *)
NamesVolume == Volume(4, 4, 3, {DIR, long}, 2, {<<0, 3>>}, Text, TRUE)
SpaceVolume == Volume(5, 2, 3, {DIR, DOC}, 2, {<<0, 3>>}, Text, TRUE)
DeepVolume  == Volume(5, 3, 3, {DIR, DOC}, 3, {}, Zero, FALSE)
CaseVolume  == Volume(5, 6, 3, {DIR, lower}, 2, {}, Zero, FALSE)

MainVolumes == {NamesVolume, SpaceVolume, DeepVolume, CaseVolume}
CaseVolumes == {CaseVolume}
=============================================================================
