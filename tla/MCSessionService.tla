-------------------------- MODULE MCSessionService --------------------------
(* SessionService for TLC: the watched directory changes more often.       *)
EXTENDS SessionService

MCMaxVersion == [d \in Directories |-> IF d = Watched THEN 2 ELSE 1]

=============================================================================
