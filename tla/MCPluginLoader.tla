--------------------------- MODULE MCPluginLoader ---------------------------
(***************************************************************************)
(* Instances of PluginLoader for TLC: up to three file names and four      *)
(* libraries.                                                              *)
(***************************************************************************)
EXTENDS PluginLoader

CONSTANTS A, B, C, x1, x2, y1, bad

(* x1 and x2 are two builds of one plugin, y1 another, bad is no plugin. *)
MCNameOf == [i \in {x1, x2, y1, bad} |->
               IF i = bad THEN Broken ELSE IF i = y1 THEN "y" ELSE "x"]

(* Any library under any name. *)
Anywhere == [p \in Paths |-> Images]

(* The same plugin under two file names. *)
SameName == [p \in Paths |-> IF p = A THEN {x1} ELSE {x2}]

PathSymmetry == Permutations(Paths)

(* A name belongs to one file, as `make plugins` lays them out. *)
OwnPath == [p \in Paths |-> IF p = A THEN {x1, x2, bad} ELSE {y1}]
=============================================================================
