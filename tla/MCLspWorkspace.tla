----------------------------- MODULE MCLspWorkspace -----------------------------
(* Two texts are enough for the editor and the disk to disagree; two files for *)
(* a batch to mix open and closed ones.                                        *)
EXTENDS LspWorkspace

CONSTANTS t1, t2

MCTexts == {t1, t2}
================================================================================
