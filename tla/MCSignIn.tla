------------------------------ MODULE MCSignIn ------------------------------
(***************************************************************************)
(* Model-checking instance of signing in.                                  *)
(***************************************************************************)
EXTENDS SignIn

CONSTANTS ann, Ann, p1, p2, home, unknown

\* Two spellings of one mailbox.
Spelling == [a \in Addresses |-> IF a = Ann THEN ann ELSE a]

=============================================================================
