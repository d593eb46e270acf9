---------------------------- MODULE MCSyntaxPipeline ----------------------------
(* Two node kinds (so that the order of wrapped nodes shows) and two token     *)
(* kinds (so that a recovery set can stop at a token).  The texts: nothing,    *)
(* trivia only, tokens with trivia around and between them, trivia missing.    *)
EXTENDS SyntaxPipeline

CONSTANTS A, B, id, semi, ws

MCNodeKinds == {A, B}
MCTokenKinds == {id, semi}
MCSources == {<<>>, <<ws>>, <<ws, id, ws, semi, ws>>, <<id, semi>>}

KindSymmetry == Permutations({A, B})
================================================================================
