----------------------------- MODULE MCTaskStream -----------------------------
(* Two tasks: every pair of ways that may meet, but not two of the Files     *)
(* panel, which its own flag keeps apart, nor two attached files.            *)
EXTENDS TaskStream
CONSTANTS a, b
MCWays(t) == IF t = a THEN {"chat", "attach"} ELSE {"chat", "files"}
===============================================================================
