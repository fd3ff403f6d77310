---------------------------- MODULE MCLogHandlers ----------------------------
EXTENDS LogHandlers, TLC

CONSTANTS root, child, grandchild, text, sentry, error, debug, c1, c2

(* The error reaches every sink, the debug record only standard output. *)
MCEnabled == (error :> {text, sentry}) @@ (debug :> {text})

MCSymmetry == Permutations({c1, c2}) \cup Permutations({child, grandchild})
=============================================================================
