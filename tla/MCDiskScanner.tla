---------------------------- MODULE MCDiskScanner ----------------------------
(* A disk for DiskScanner: a large directory within a large one, one with     *)
(* nothing but an empty directory that is large, one that is skipped, one     *)
(* that cannot be read, files of one size, one of which is looked at, and one *)
(* with an entry too many, its largest.                                       *)
EXTENDS DiskScanner, TLC

MCEntries ==
    ("/" :> <<"proc", "root", "usr", "var">>) @@ ("proc" :> <<>>) @@ ("root" :> <<"root/x">>) @@
    ("usr" :> <<"usr/local">>) @@ ("usr/local" :> <<>>) @@
    ("var" :> <<"var/lib", "var/log">>) @@ ("var/lib" :> <<"lib/a", "lib/b", "lib/c", "lib/d">>) @@
    ("lib/b" :> <<"b/x">>)

MCSizes ==
    ("/" :> 400) @@ ("proc" :> 150) @@ ("root" :> 20) @@ ("usr" :> 40) @@ ("var" :> 145) @@
    ("root/x" :> 19) @@ ("usr/local" :> 39) @@ ("var/lib" :> 113) @@ ("var/log" :> 30) @@
    ("lib/a" :> 9) @@ ("lib/b" :> 45) @@ ("lib/c" :> 9) @@ ("lib/d" :> 50) @@
    ("b/x" :> 44)

MCImportant == <<"var", "usr">>

ScanSymmetry == Permutations(Scan)
=============================================================================
